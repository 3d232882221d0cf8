------------------------------ MODULE DdProofs ------------------------------
(***************************************************************************)
(* Proofs about Dd: for any block size, depth of the channels, length of   *)
(* the input and interleaving.                                             *)
(*                                                                         *)
(* OwnInv says where the buffers are.  FlowInv says that the bytes in      *)
(* flight, from the output over the buffer of the writer and the channel   *)
(* to the buffer of the reader, are consecutive.  EndInv is about the ways *)
(* the two goroutines end, ShowInv about the number on the screen.         *)
(***************************************************************************)
EXTENDS Dd, SequenceTheorems, TLAPS

\* The products that inFile computes are representable: it does not check.
ProductsFit ==
    \A o \in Options : /\ o.ibs * o.skip <= MaxInt
                       /\ o.count # MaxInt => o.count * o.ibs <= MaxInt

RStates == {"select", "read", "send", "after", "return", "done", "gone"}
WStates == {"start", "range", "write", "close", "wait", "end", "again", "total", "printed", "exit"}

DdTypeOK ==
    /\ opt \in Options /\ len \in Lengths
    /\ rpc \in RStates /\ rbuf \in Bufs \cup {NoBuf} /\ rerr \in {"nil", "eof", "error"} /\ off \in Nat
    /\ data \in [Bufs -> Seq(Nat)]
    /\ ready \in Seq(Bufs) /\ pool \in Seq(Bufs)
    /\ readyClosed \in BOOLEAN /\ quit \in BOOLEAN /\ errs \in {"empty", "full"}
    /\ wpc \in WStates /\ wbuf \in Bufs \cup {NoBuf} /\ woff \in Nat /\ werr \in BOOLEAN
    /\ result \in {"none", "size", "read", "write", "nil"}
    /\ out \in Seq(Nat) /\ bytesWritten \in Nat
    /\ rpc \in {"read", "send"} => rbuf \in Bufs
    /\ rpc = "select" => rbuf = NoBuf
    /\ wpc = "write" => wbuf \in Bufs
    /\ wpc \in {"start", "range"} => wbuf = NoBuf
    /\ wpc \notin {"start", "exit"} => opt.ibs # 0

\* A buffer is in one place.
OwnInv ==
    /\ \A j, k \in 1..Len(ready) : ready[j] = ready[k] => j = k
    /\ \A j, k \in 1..Len(pool) : pool[j] = pool[k] => j = k
    /\ \A j \in 1..Len(ready), k \in 1..Len(pool) : ready[j] # pool[k]
    /\ \A j \in 1..Len(ready) : ready[j] # rbuf /\ ready[j] # wbuf
    /\ \A j \in 1..Len(pool) : pool[j] # rbuf /\ pool[j] # wbuf
    /\ rbuf # NoBuf => rbuf # wbuf

\* Where the output will be when the writer is through with its buffer.
Written == IF wpc = "write" THEN Base + Len(out) - woff + Len(data[wbuf]) ELSE Base + Len(out)
Last(b) == data[b][Len(data[b])]
Reached(i) == IF i = 0 THEN Written ELSE Last(ready[i])
Holds(b, p) == \A k \in 1..Len(data[b]) : data[b][k] = p + k

\* The bytes in the channel go on where the writer will be, those of the reader
\* where the channel ends.
InOrder ==
    /\ \A i \in 1..Len(ready) : Len(data[ready[i]]) > 0 /\ Holds(ready[i], Reached(i - 1))
    /\ rpc = "send" => /\ Len(data[rbuf]) > 0 /\ Holds(rbuf, Reached(Len(ready)))
                       /\ Last(rbuf) = SkipTo
    /\ rpc # "send" => Reached(Len(ready)) = SkipTo

FlowInv ==
    /\ \A k \in 1..Len(out) : out[k] = Base + k /\ out[k] <= SkipTo
    /\ \A b \in Bufs : \A k \in 1..Len(data[b]) : data[b][k] <= SkipTo
    /\ SkipTo >= Base /\ (SkipTo = Base \/ (SkipTo <= len /\ SkipTo <= ReadLimit))
    /\ wpc = "write" => woff <= Len(data[wbuf]) /\ woff <= Len(out) /\ Holds(wbuf, Base + Len(out) - woff)
    /\ ~werr => InOrder
    /\ wpc # "start" /\ Len(ready) # 0 => Len(ready) <= Depth

EndInv ==
    /\ rerr = "eof" => SkipTo >= len \/ SkipTo >= ReadLimit
    /\ rpc \in {"return", "done", "gone"} => errs = "full" \/ rerr = "eof" \/ (quit /\ werr)
    /\ readyClosed => rpc = "gone"
    /\ wpc = "start" => ready = <<>>
    /\ werr => wpc \notin {"start", "range", "write"}
    /\ wpc \in {"close", "wait", "end", "again", "total", "printed"} \/ result = "nil" =>
         werr \/ (rpc = "gone" /\ ready = <<>>)
    /\ quit => wpc \notin {"start", "range", "write", "close"}
    /\ wpc = "write" => bytesWritten + woff = Len(out)
    /\ wpc # "write" /\ ~werr => bytesWritten = Len(out)
    /\ result = "nil" => errs = "empty" /\ ~werr
    /\ result \in {"nil", "read", "write"} =>
         rpc \in {"done", "gone"} /\ wpc \in {"end", "again", "total", "printed", "exit"}
    /\ wpc \in {"end", "again", "total", "printed"} => result = "nil"

ShowInv ==
    /\ ppc \in {"none", "select", "print", "gone"} /\ (ppc = "none" <=> ~opt.progress)
    /\ wpc = "again" => opt.progress /\ (pquit = 0 => ppc = "gone")
    /\ wpc \in {"total", "printed"} \/ (wpc = "exit" /\ result = "nil") => ppc \in {"none", "gone"}
    /\ wpc = "printed" \/ (wpc = "exit" /\ result = "nil") => screen = bytesWritten

-----------------------------------------------------------------------------
(***************************************************************************)
(* Types.                                                                  *)
(***************************************************************************)

\* What is known of a command line and an input.
LEMMA ConstFacts ==
    ASSUME opt \in Options, len \in Lengths
    PROVE  /\ opt.ibs \in Nat /\ opt.skip \in Nat /\ opt.count \in Nat /\ opt.progress \in BOOLEAN
           /\ opt.named \in BOOLEAN /\ len \in Nat /\ len <= MaxInt /\ MaxInt \in Nat
           /\ Base \in Nat /\ MaxRead \in Nat /\ Bufs \subseteq Nat /\ NoBuf \notin Bufs
<1>1. /\ opt.ibs \in 0..MaxInt /\ opt.skip \in 0..MaxInt /\ opt.count \in 0..MaxInt
      /\ opt.progress \in BOOLEAN /\ opt.named \in BOOLEAN /\ len \in 0..MaxInt /\ MaxInt \in Nat
  BY DdAssumption
<1>2. Base \in Nat
  BY <1>1 DEF Base
<1>3. MaxRead \in Nat
  BY <1>1 DEF MaxRead
<1>4. Bufs \subseteq Nat /\ NoBuf \notin Bufs
  BY DdAssumption DEF Bufs, NoBuf
<1> QED
  BY <1>1, <1>2, <1>3, <1>4

\* The position from which the reader goes on is a natural number.
LEMMA SkipToNat ==
    ASSUME DdTypeOK
    PROVE  SkipTo \in Nat /\ Base \in Nat
BY ConstFacts DEF DdTypeOK, SkipTo

\* ReadLimit is an integer, whatever overflows.
LEMMA ReadLimitInt ==
    ASSUME opt \in Options, len \in Lengths
    PROVE  ReadLimit \in Int
<1>1. MaxInt \in Nat /\ Base + MaxRead \in Nat
  BY ConstFacts
<1>2. Wrap(Base + MaxRead) \in Int
  BY <1>1 DEF Wrap
<1> QED
  BY <1>1, <1>2 DEF ReadLimit

\* ReadFrom reads no more than there is room for and than there is, and it sees the
\* end of the input only if there is no more of the input or of the section.
LEMMA ReadsFacts ==
    ASSUME NEW p \in Nat, NEW max \in Nat, len \in Nat, NEW rd \in Reads(p, max)
    PROVE  /\ rd[1] \in Nat /\ rd[1] <= max /\ (rd[1] > 0 => p + rd[1] <= len)
           /\ rd[2] \in {"nil", "eof", "error"}
           /\ rd[2] = "eof" => max = 0 \/ p + rd[1] >= len
<1> DEFINE left == IF p > len THEN 0 ELSE len - p
           n == Least(max, left)
<1>1. /\ left \in Nat /\ n \in Nat /\ n <= max /\ n <= left /\ (n = max \/ n = left)
      /\ (left > 0 => p + left = len) /\ (left = 0 => p >= len)
  BY DEF Least
<1> HIDE DEF left
<1>2. \/ n = 0 /\ rd = <<0, "eof">>
      \/ n # 0 /\ opt.named /\ rd = <<n, IF n < max THEN "eof" ELSE "nil">>
      \/ \E k \in 1..n : rd = <<k, "nil">>
      \/ \E k \in 0..n : rd = <<k, "error">>
  BY DEF Reads, left
<1> HIDE DEF n
<1>3. CASE n = 0 /\ rd = <<0, "eof">>
  BY <1>1, <1>3
<1>4. CASE n # 0 /\ opt.named /\ rd = <<n, IF n < max THEN "eof" ELSE "nil">>
  <2>1. rd[1] = n /\ rd[2] \in {"eof", "nil"} /\ (rd[2] = "eof" => n < max)
    BY <1>1, <1>4
  <2> QED
    BY <1>1, <1>4, <2>1
<1>5. ASSUME NEW k \in 1..n, rd = <<k, "nil">>
      PROVE  rd[1] = k /\ rd[2] = "nil" /\ k <= max /\ p + k <= len /\ k \in Nat
  BY <1>1, <1>5
<1>6. ASSUME NEW k \in 0..n, rd = <<k, "error">>
      PROVE  rd[1] = k /\ rd[2] = "error" /\ k <= max /\ (k > 0 => p + k <= len) /\ k \in Nat
  BY <1>1, <1>6
<1> QED
  BY <1>2, <1>3, <1>4, <1>5, <1>6

\* What Read does to the variables.
LEMMA ReadEffect ==
    ASSUME DdTypeOK, Read
    PROVE  \E n \in Nat :
             /\ data' = [data EXCEPT ![rbuf] = [k \in 1..n |-> SkipTo + k]]
             /\ [k \in 1..n |-> SkipTo + k] \in Seq(Nat) /\ Len([k \in 1..n |-> SkipTo + k]) = n
             /\ off' = SkipTo + n /\ SkipTo' = SkipTo + n
             /\ n > 0 => SkipTo + n <= len /\ SkipTo + n <= ReadLimit
             /\ rerr' \in {"nil", "eof", "error"}
             /\ rerr' = "eof" => SkipTo' >= len \/ SkipTo' >= ReadLimit
             /\ rpc' = IF n > 0 THEN "send" ELSE "after"
<1> DEFINE p == SkipTo
           max == IF p >= ReadLimit THEN 0 ELSE Least(opt.ibs, ReadLimit - p)
<1>1. p \in Nat /\ Base \in Nat /\ ReadLimit \in Int /\ len \in Nat /\ opt.ibs \in Nat /\ p >= 0
  BY SkipToNat, ReadLimitInt, ConstFacts DEF DdTypeOK
<1>2. opt.ibs # 0
  BY DEF DdTypeOK, Read, Started
<1>3. max \in Nat /\ (max > 0 => p + max <= ReadLimit) /\ (max = 0 => p >= ReadLimit)
  BY <1>1, <1>2 DEF Least
<1>4. PICK rd \in Reads(p, max) :
             /\ data' = [data EXCEPT ![rbuf] = [k \in 1..rd[1] |-> p + k]]
             /\ off' = p + rd[1] /\ rerr' = rd[2]
             /\ rpc' = IF rd[1] > 0 THEN "send" ELSE "after"
  BY DEF Read
<1>5. UNCHANGED <<opt, len>>
  BY DEF Read
<1> HIDE DEF max
<1> DEFINE n == rd[1]
<1>6. /\ n \in Nat /\ n <= max /\ (n > 0 => p + n <= len) /\ rd[2] \in {"nil", "eof", "error"}
      /\ rd[2] = "eof" => max = 0 \/ p + n >= len
  BY <1>1, <1>3, ReadsFacts
<1>7. SkipTo' = p + n
  <2>1. SkipTo' = IF off' = 0 THEN Base ELSE off'
    BY <1>5 DEF SkipTo, Base
  <2>2. p + n = 0 => Base = 0
    BY <1>1, <1>6 DEF SkipTo
  <2> QED
    BY <1>1, <1>4, <1>6, <2>1, <2>2
<1>8. n > 0 => p + n <= ReadLimit
  BY <1>1, <1>3, <1>6
<1> DEFINE f == [k \in 1..n |-> p + k]
<1>9. f \in Seq(Nat) /\ Len(f) = n
  <2>1. \A k \in 1..n : p + k \in Nat
    BY <1>1, <1>6
  <2>2. f \in [1..n -> Nat]
    BY <2>1
  <2> QED
    BY <1>6, <2>2, SeqDef
<1>10. rerr' = "eof" => SkipTo' >= len \/ SkipTo' >= ReadLimit
  BY <1>1, <1>3, <1>4, <1>6, <1>7
<1> QED
  BY <1>4, <1>6, <1>7, <1>8, <1>9, <1>10

\* The head and the tail of a channel that holds a buffer.
LEMMA QueueFacts ==
    ASSUME NEW S, NEW q \in Seq(S), q # <<>>
    PROVE  /\ Head(q) \in S /\ Tail(q) \in Seq(S) /\ Len(Tail(q)) = Len(q) - 1 /\ Len(q) \in Nat \ {0}
           /\ Head(q) = q[1] /\ 1 \in 1..Len(q)
           /\ \A k \in 1..Len(Tail(q)) : Tail(q)[k] = q[k + 1] /\ k + 1 \in 1..Len(q) /\ k + 1 # 1
<1>1. Len(q) \in Nat \ {0}
  BY EmptySeq
<1>2. /\ Head(q) \in S /\ Tail(q) \in Seq(S) /\ Len(Tail(q)) = Len(q) - 1
      /\ \A k \in 1..Len(Tail(q)) : Tail(q)[k] = q[k + 1]
  BY HeadTailProperties
<1> QED
  BY <1>1, <1>2

\* A buffer is put at the end of a channel.
LEMMA EnqueueFacts ==
    ASSUME NEW S, NEW q \in Seq(S), NEW e \in S
    PROVE  /\ Append(q, e) \in Seq(S) /\ Len(Append(q, e)) = Len(q) + 1 /\ Len(q) \in Nat
           /\ Append(q, e)[Len(q) + 1] = e /\ \A k \in 1..Len(q) : Append(q, e)[k] = q[k]
           /\ \A k \in 1..Len(Append(q, e)) : k \in 1..Len(q) \/ k = Len(q) + 1
<1>1. /\ Append(q, e) \in Seq(S) /\ Len(Append(q, e)) = Len(q) + 1
      /\ \A i \in 1..Len(q) : Append(q, e)[i] = q[i]
      /\ Append(q, e)[Len(q) + 1] = e
  BY AppendProperties
<1>2. Len(q) \in Nat
  BY LenProperties
<1> QED
  BY <1>1, <1>2

\* A round of WriteTo appends some of the bytes of the buffer that come next.
LEMMA WriteEffect ==
    ASSUME DdTypeOK, WriteBlock
    PROVE  \E n \in Nat :
             /\ woff + n <= Len(data[wbuf]) /\ woff' = woff + n
             /\ out' \in Seq(Nat) /\ Len(out') = Len(out) + n /\ Len(out) \in Nat /\ Len(data[wbuf]) \in Nat
             /\ \A k \in 1..Len(out) : out'[k] = out[k]
             /\ \A k \in 1..n : out'[Len(out) + k] = data[wbuf][woff + k]
             /\ (wpc' = "write" /\ werr' = werr) \/ (wpc' = "close" /\ werr' = TRUE)
<1> DEFINE d == data[wbuf]
           top == Least(woff + OutChunk, Len(d))
<1>1. wpc = "write" /\ wbuf \in Bufs /\ d \in Seq(Nat) /\ woff \in Nat /\ woff < Len(d) /\ out \in Seq(Nat)
  BY DEF DdTypeOK, WriteBlock
<1>2. /\ Len(d) \in Nat /\ Len(out) \in Nat /\ OutChunk \in Nat \ {0}
      /\ \A k \in 1..Len(d) : d[k] \in Nat
  BY <1>1, LenProperties, DdAssumption
<1>3. top \in Nat /\ top > woff /\ top <= Len(d)
  BY <1>1, <1>2 DEF Least
<1> HIDE DEF top
<1>4. Block = SubSeq(d, woff + 1, top)
  BY DEF Block, top
<1> HIDE DEF d
<1> DEFINE B == SubSeq(d, woff + 1, top)
<1>5. /\ B \in Seq(Nat) /\ Len(B) = top - woff /\ \A k \in 1..Len(B) : B[k] = d[woff + k]
  <2>1. \A i \in woff + 1..top : d[i] \in Nat
    BY <1>1, <1>2, <1>3
  <2>2. /\ B \in Seq(Nat) /\ Len(B) = (IF woff + 1 <= top THEN top - (woff + 1) + 1 ELSE 0)
        /\ \A i \in 1..top - (woff + 1) + 1 : B[i] = d[woff + 1 + i - 1]
    BY <1>1, <1>3, <2>1, SubSeqProperties
  <2>3. Len(B) = top - woff /\ top - (woff + 1) + 1 = top - woff
    BY <1>1, <1>3, <2>2
  <2>4. ASSUME NEW k \in 1..Len(B) PROVE B[k] = d[woff + k]
    <3>1. k \in 1..top - (woff + 1) + 1 /\ woff + 1 + k - 1 = woff + k
      BY <1>1, <1>3, <2>3
    <3> QED
      BY <2>2, <3>1
  <2> QED
    BY <2>2, <2>3, <2>4
<1> HIDE DEF B
<1>6. ASSUME NEW C, NEW n \in Nat, C \in Seq(Nat), Len(C) = n, n <= Len(B),
             \A k \in 1..n : C[k] = B[k], out' = out \o C
      PROVE  /\ out' \in Seq(Nat) /\ Len(out') = Len(out) + n
             /\ \A k \in 1..Len(out) : out'[k] = out[k]
             /\ \A k \in 1..n : out'[Len(out) + k] = d[woff + k]
             /\ woff + n <= Len(d)
  <2>1. /\ out' \in Seq(Nat) /\ Len(out') = Len(out) + Len(C)
        /\ \A i \in 1..Len(out) + Len(C) : out'[i] = IF i <= Len(out) THEN out[i] ELSE C[i - Len(out)]
    BY <1>1, <1>6, ConcatProperties
  <2>2. \A k \in 1..Len(out) : out'[k] = out[k]
    BY <1>2, <1>6, <2>1
  <2>3. ASSUME NEW k \in 1..n PROVE out'[Len(out) + k] = d[woff + k]
    <3>1. /\ Len(out) + k \in 1..Len(out) + Len(C) /\ ~(Len(out) + k <= Len(out))
          /\ (Len(out) + k) - Len(out) = k /\ k \in 1..Len(B)
      BY <1>2, <1>3, <1>5, <1>6
    <3>2. out'[Len(out) + k] = C[k]
      BY <2>1, <3>1
    <3> QED
      BY <1>5, <1>6, <3>1, <3>2
  <2>4. woff + n <= Len(d)
    BY <1>1, <1>2, <1>3, <1>5, <1>6
  <2> QED
    BY <1>6, <2>1, <2>2, <2>3, <2>4
<1>7. CASE out' = out \o Block /\ woff' = woff + Len(Block) /\ UNCHANGED <<wpc, werr>>
  <2>1. out' = out \o B /\ woff' = woff + Len(B) /\ Len(B) \in Nat
    BY <1>1, <1>3, <1>4, <1>5, <1>7 DEF B
  <2>2. /\ out' \in Seq(Nat) /\ Len(out') = Len(out) + Len(B)
        /\ \A k \in 1..Len(out) : out'[k] = out[k]
        /\ \A k \in 1..Len(B) : out'[Len(out) + k] = d[woff + k]
        /\ woff + Len(B) <= Len(d)
    <3>1. PICK n \in Nat : n = Len(B)
      BY <2>1
    <3>2. B \in Seq(Nat) /\ Len(B) = n /\ n <= Len(B) /\ \A k \in 1..n : B[k] = B[k]
      BY <1>5, <2>1, <3>1
    <3>3. /\ out' \in Seq(Nat) /\ Len(out') = Len(out) + n
          /\ \A k \in 1..Len(out) : out'[k] = out[k]
          /\ \A k \in 1..n : out'[Len(out) + k] = d[woff + k]
          /\ woff + n <= Len(d)
      BY <1>6, <2>1, <3>2
    <3> QED
      BY <3>1, <3>3
  <2> QED
    BY <1>1, <1>2, <1>7, <2>1, <2>2 DEF d
<1>8. ASSUME NEW n \in 0..Len(Block) - 1, out' = out \o SubSeq(Block, 1, n), woff' = woff + n,
             werr' = TRUE, wpc' = "close"
      PROVE  \E m \in Nat :
             /\ woff + m <= Len(data[wbuf]) /\ woff' = woff + m
             /\ out' \in Seq(Nat) /\ Len(out') = Len(out) + m /\ Len(out) \in Nat /\ Len(data[wbuf]) \in Nat
             /\ \A k \in 1..Len(out) : out'[k] = out[k]
             /\ \A k \in 1..m : out'[Len(out) + k] = data[wbuf][woff + k]
             /\ (wpc' = "write" /\ werr' = werr) \/ (wpc' = "close" /\ werr' = TRUE)
  <2> DEFINE C == SubSeq(B, 1, n)
  <2>1. Block = B
    BY <1>4 DEF B
  <2>2. n \in Nat /\ n <= Len(B) /\ Len(B) \in Nat
    BY <1>1, <1>3, <1>5, <1>8, <2>1
  <2>3. C \in Seq(Nat) /\ Len(C) = n /\ \A k \in 1..n : C[k] = B[k]
    <3>1. \A i \in 1..n : B[i] \in Nat
      <4>1. \A i \in 1..n : i \in 1..Len(B)
        BY <2>2
      <4> QED
        BY <1>5, <4>1, ElementOfSeq
    <3>2. /\ C \in Seq(Nat) /\ Len(C) = (IF 1 <= n THEN n - 1 + 1 ELSE 0)
          /\ \A i \in 1..n - 1 + 1 : C[i] = B[1 + i - 1]
      BY <2>2, <3>1, SubSeqProperties
    <3>3. ASSUME NEW k \in 1..n PROVE C[k] = B[k]
      <4>1. k \in 1..n - 1 + 1 /\ 1 + k - 1 = k
        BY <2>2
      <4> QED
        BY <3>2, <4>1
    <3> QED
      BY <2>2, <3>2, <3>3
  <2>4. out' = out \o C
    BY <1>8, <2>1
  <2> HIDE DEF C
  <2>5. /\ out' \in Seq(Nat) /\ Len(out') = Len(out) + n
        /\ \A k \in 1..Len(out) : out'[k] = out[k]
        /\ \A k \in 1..n : out'[Len(out) + k] = d[woff + k]
        /\ woff + n <= Len(d)
    BY <1>6, <2>2, <2>3, <2>4
  <2> QED
    BY <1>2, <1>8, <2>2, <2>5 DEF d
<1> QED
  BY <1>1, <1>7, <1>8 DEF WriteBlock

\* The state of dd starts well formed.
LEMMA DdTypeInit == Init => DdTypeOK
<1> SUFFICES ASSUME Init PROVE DdTypeOK
  OBVIOUS
<1>1. opt \in Options /\ len \in Lengths
  BY DEF Init
<1>2. off \in Nat
  BY <1>1, ConstFacts DEF Init
<1>3. data \in [Bufs -> Seq(Nat)] /\ ready \in Seq(Bufs) /\ pool \in Seq(Bufs) /\ out \in Seq(Nat)
  BY EmptySeq DEF Init
<1> QED
  BY <1>1, <1>2, <1>3 DEF Init, DdTypeOK, RStates, WStates

\* The reading goroutine keeps the types.
LEMMA ReaderTypes ==
    ASSUME DdTypeOK, Reader
    PROVE  DdTypeOK'
<1> USE DEF DdTypeOK
<1>0. Bufs' = Bufs /\ UNCHANGED <<opt, len>>
  BY DEF Reader, Select, Read, Send, AfterRead, WgDone, CloseReady, Bufs
<1>1. CASE Select
  <2>1. /\ UNCHANGED <<opt, len, rerr, off, data, ready, readyClosed, quit, errs, wpc, wbuf, woff, werr, result, out, bytesWritten>>
        /\ rpc = "select"
    BY <1>1 DEF Select, writer
  <2>2. CASE rpc' = "return" /\ UNCHANGED <<rbuf, pool>>
    BY <2>1, <2>2 DEF RStates
  <2>3. CASE rpc' = "read" /\ pool # <<>> /\ rbuf' = Head(pool) /\ pool' = Tail(pool)
    <3>1. rbuf' \in Bufs /\ pool' \in Seq(Bufs)
      BY <2>3, QueueFacts
    <3> QED
      BY <2>1, <2>3, <3>1 DEF RStates
  <2>4. CASE rpc' = "read" /\ UNCHANGED pool /\ rbuf' \in {b \in Fresh : \A c \in Fresh : b <= c}
    <3>1. rbuf' \in Bufs
      BY <2>4 DEF Fresh
    <3> QED
      BY <2>1, <2>4, <3>1 DEF RStates
  <2> QED
    BY <1>1, <2>2, <2>3, <2>4 DEF Select
<1>2. CASE Read
  <2>1. /\ UNCHANGED <<opt, len, rbuf, ready, readyClosed, pool, quit, errs, wpc, wbuf, woff, werr, result, out, bytesWritten>>
        /\ rpc = "read"
    BY <1>2 DEF Read, writer
  <2>2. PICK n \in Nat :
             /\ data' = [data EXCEPT ![rbuf] = [k \in 1..n |-> SkipTo + k]]
             /\ [k \in 1..n |-> SkipTo + k] \in Seq(Nat)
             /\ off' = SkipTo + n /\ rerr' \in {"nil", "eof", "error"}
             /\ rpc' = IF n > 0 THEN "send" ELSE "after"
    BY <1>2, ReadEffect
  <2>3. data' \in [Bufs -> Seq(Nat)]
    <3> DEFINE f == [k \in 1..n |-> SkipTo + k]
    <3>1. f \in Seq(Nat) /\ data' = [data EXCEPT ![rbuf] = f]
      BY <2>2
    <3> HIDE DEF f
    <3> QED
      BY <3>1
  <2>4. off' \in Nat /\ rpc' \in {"send", "after"} /\ rbuf \in Bufs
    BY <2>1, <2>2, SkipToNat
  <2> QED
    BY <2>1, <2>2, <2>3, <2>4 DEF RStates
<1>3. CASE Send
  <2>1. /\ UNCHANGED <<opt, len, rerr, off, data, readyClosed, pool, quit, errs, werr, result, out, bytesWritten>>
        /\ rpc = "send" /\ rpc' = "after" /\ rbuf \in Bufs /\ rbuf' = NoBuf
    BY <1>3 DEF Send
  <2>2. CASE ready' = Append(ready, rbuf) /\ UNCHANGED <<wpc, wbuf, woff>>
    <3>1. ready' \in Seq(Bufs)
      BY <2>1, <2>2, EnqueueFacts
    <3> QED
      BY <2>1, <2>2, <3>1 DEF RStates
  <2>3. CASE wpc = "range" /\ wpc' = "write" /\ wbuf' = rbuf /\ woff' = 0 /\ UNCHANGED ready
    BY <2>1, <2>3 DEF RStates, WStates
  <2> QED
    BY <1>3, <2>2, <2>3 DEF Send
<1>4. CASE AfterRead
  BY <1>4 DEF AfterRead, RStates, writer
<1>5. CASE WgDone
  BY <1>5 DEF WgDone, RStates, writer, channels
<1>6. CASE CloseReady
  BY <1>6 DEF CloseReady, RStates, writer
<1> QED
  BY <1>1, <1>2, <1>3, <1>4, <1>5, <1>6 DEF Reader

\* The main goroutine keeps the types.
LEMMA MainTypes ==
    ASSUME DdTypeOK, Main
    PROVE  DdTypeOK'
<1> USE DEF DdTypeOK
<1>1. CASE Start
  <2>1. /\ UNCHANGED <<opt, len, rpc, rbuf, rerr, off, data, ready, readyClosed, pool, quit, errs, wbuf, woff, werr, out, bytesWritten>>
        /\ wbuf' = wbuf /\ wpc = "start"
        /\ (wpc' = "exit" /\ result' = "size") \/ (opt.ibs # 0 /\ wpc' = "range" /\ result' = result)
    BY <1>1 DEF Start, reader, channels
  <2>2. wpc' = "range" => wbuf = NoBuf
    BY <2>1
  <2> QED
    BY <2>1, <2>2 DEF WStates
<1>2. CASE Receive
  <2>1. /\ UNCHANGED <<opt, len, rpc, rbuf, rerr, off, data, readyClosed, pool, quit, errs, werr, result, out, bytesWritten>>
        /\ wpc = "range" /\ wpc' = "write" /\ woff' = 0
    BY <1>2 DEF Receive, reader
  <2>2. ready' \in Seq(Bufs) /\ wbuf' \in Bufs
    BY <1>2, QueueFacts DEF Receive
  <2> QED
    BY <2>1, <2>2 DEF WStates
<1>3. CASE RangeEnds
  BY <1>3 DEF RangeEnds, WStates, reader, channels
<1>4. CASE WriteBlock
  <2>1. /\ UNCHANGED <<opt, len, rpc, rbuf, rerr, off, data, ready, readyClosed, pool, quit, errs, wbuf, result, bytesWritten>>
        /\ wpc = "write"
    BY <1>4 DEF WriteBlock, reader, channels
  <2>2. PICK n \in Nat : /\ woff' = woff + n /\ out' \in Seq(Nat)
                         /\ (wpc' = "write" /\ werr' = werr) \/ (wpc' = "close" /\ werr' = TRUE)
    BY <1>4, WriteEffect
  <2>3. woff' \in Nat
    BY <2>2
  <2> QED
    BY <2>1, <2>2, <2>3 DEF WStates
<1>5. CASE Put
  <2>1. /\ UNCHANGED <<opt, len, rpc, rbuf, rerr, off, data, ready, readyClosed, quit, errs, woff, werr, result, out>>
        /\ wpc = "write" /\ wpc' = "range" /\ wbuf' = NoBuf /\ bytesWritten' = bytesWritten + woff
        /\ pool' = Append(pool, wbuf) \/ pool' = pool
    BY <1>5 DEF Put, reader
  <2>2. pool' \in Seq(Bufs) /\ bytesWritten' \in Nat
    <3>1. Append(pool, wbuf) \in Seq(Bufs) /\ pool \in Seq(Bufs)
      BY <2>1, EnqueueFacts
    <3>2. pool' \in Seq(Bufs)
      BY <2>1, <3>1
    <3> QED
      BY <2>1, <3>2
  <2> QED
    BY <2>1, <2>2 DEF WStates
<1>6. CASE CloseQuit
  BY <1>6 DEF CloseQuit, WStates, reader
<1>7. CASE Return
  BY <1>7 DEF Return, WStates, reader, channels
<1>8. CASE End
  BY <1>8 DEF End, WStates, reader, channels
<1>9. CASE Exit
  BY <1>9 DEF Exit, WStates, reader, channels
<1> QED
  BY <1>1, <1>2, <1>3, <1>4, <1>5, <1>6, <1>7, <1>8, <1>9 DEF Main

\* The types are an invariant of dd.
THEOREM DdTypes == Spec => []DdTypeOK
<1>1. DdTypeOK /\ [Next]_vars => DdTypeOK'
  <2> SUFFICES ASSUME DdTypeOK, [Next]_vars PROVE DdTypeOK'
    OBVIOUS
  <2>1. CASE Reader
    BY <2>1, ReaderTypes
  <2>2. CASE Main
    BY <2>2, MainTypes
  <2>3. CASE Tick \/ Show \/ Quit \/ UNCHANGED vars
    <3>1. UNCHANGED <<opt, len, reader, channels, writer>>
      BY <2>3 DEF Tick, Show, Quit, vars
    <3> QED
      BY <3>1 DEF DdTypeOK, reader, channels, writer
  <2> QED
    BY <2>1, <2>2, <2>3 DEF Next
<1> QED
  BY <1>1, DdTypeInit, PTL DEF Spec

-----------------------------------------------------------------------------
(***************************************************************************)
(* The buffers.                                                            *)
(***************************************************************************)

\* The channels hold buffers.
LEMMA BufFacts ==
    ASSUME DdTypeOK
    PROVE  /\ NoBuf \notin Bufs /\ ready \in Seq(Bufs) /\ pool \in Seq(Bufs)
           /\ DOMAIN ready = 1..Len(ready) /\ DOMAIN pool = 1..Len(pool)
           /\ \A k \in 1..Len(ready) : ready[k] \in Bufs
           /\ \A k \in 1..Len(pool) : pool[k] \in Bufs
<1>1. opt \in Options /\ len \in Lengths /\ ready \in Seq(Bufs) /\ pool \in Seq(Bufs)
  BY DEF DdTypeOK
<1>2. NoBuf \notin Bufs
  BY <1>1, ConstFacts
<1>3. ASSUME NEW q \in Seq(Bufs) PROVE DOMAIN q = 1..Len(q) /\ \A k \in 1..Len(q) : q[k] \in Bufs
  BY LenProperties
<1> QED
  BY <1>1, <1>2, <1>3

\* Steps that move no buffer.
LEMMA OwnSame ==
    ASSUME OwnInv, UNCHANGED <<ready, pool, wbuf>>, rbuf' \in {rbuf, NoBuf}, DdTypeOK
    PROVE  OwnInv'
<1>1. NoBuf \notin Bufs /\ (\A k \in 1..Len(ready) : ready[k] \in Bufs) /\ (\A k \in 1..Len(pool) : pool[k] \in Bufs)
  BY BufFacts
<1> QED
  BY <1>1 DEF OwnInv

\* The reader takes a buffer of the pool or a new one, and gives it to the channel
\* or to the writer.
LEMMA OwnReader ==
    ASSUME DdTypeOK, OwnInv, Reader
    PROVE  OwnInv'
<1>0. /\ NoBuf \notin Bufs /\ ready \in Seq(Bufs) /\ pool \in Seq(Bufs)
      /\ \A k \in 1..Len(ready) : ready[k] \in Bufs
      /\ \A k \in 1..Len(pool) : pool[k] \in Bufs
      /\ DOMAIN ready = 1..Len(ready) /\ DOMAIN pool = 1..Len(pool)
  BY BufFacts
<1>1. CASE Select
  <2>1. UNCHANGED <<ready, wbuf>> /\ rbuf = NoBuf
    BY <1>1 DEF Select, writer, DdTypeOK
  <2>2. CASE UNCHANGED <<rbuf, pool>>
    BY <2>1, <2>2, OwnSame
  <2>3. CASE pool # <<>> /\ rbuf' = Head(pool) /\ pool' = Tail(pool)
    <3>1. /\ rbuf' = pool[1] /\ 1 \in 1..Len(pool)
          /\ \A k \in 1..Len(pool') : pool'[k] = pool[k + 1] /\ k + 1 \in 1..Len(pool) /\ k + 1 # 1
          /\ Len(pool') = Len(pool) - 1 /\ Len(pool) \in Nat
      BY <1>0, <2>3, QueueFacts
    <3>2. \A k \in 1..Len(pool') : pool'[k] # rbuf' /\ pool'[k] # wbuf
      BY <3>1 DEF OwnInv
    <3>3. \A j, k \in 1..Len(pool') : pool'[j] = pool'[k] => j = k
      <4> SUFFICES ASSUME NEW j \in 1..Len(pool'), NEW k \in 1..Len(pool'), pool'[j] = pool'[k]
                   PROVE  j = k
        OBVIOUS
      <4>1. j + 1 = k + 1
        BY <3>1 DEF OwnInv
      <4> QED
        BY <3>1, <4>1
    <3>4. \A j \in 1..Len(ready), k \in 1..Len(pool') : ready[j] # pool'[k]
      BY <3>1 DEF OwnInv
    <3>5. (\A j \in 1..Len(ready) : ready[j] # rbuf') /\ rbuf' # wbuf
      BY <3>1 DEF OwnInv
    <3> QED
      BY <2>1, <3>2, <3>3, <3>4, <3>5 DEF OwnInv
  <2>4. CASE pool' = pool /\ rbuf' \in Fresh
    <3>1. rbuf' # wbuf /\ rbuf' \notin Range(ready) /\ rbuf' \notin Range(pool)
      BY <2>4 DEF Fresh
    <3>2. /\ \A j \in 1..Len(ready) : ready[j] # rbuf'
          /\ \A j \in 1..Len(pool) : pool[j] # rbuf'
      BY <1>0, <3>1 DEF Range
    <3> QED
      BY <2>1, <2>4, <3>1, <3>2 DEF OwnInv
  <2> QED
    BY <1>1, <2>2, <2>3, <2>4 DEF Select
<1>2. CASE Read \/ AfterRead \/ WgDone \/ CloseReady
  <2>1. UNCHANGED <<ready, pool, wbuf>> /\ rbuf' \in {rbuf, NoBuf}
    BY <1>2 DEF Read, AfterRead, WgDone, CloseReady, writer, channels
  <2> QED
    BY <2>1, OwnSame
<1>3. CASE Send
  <2>1. rbuf' = NoBuf /\ rbuf \in Bufs /\ pool' = pool /\ rbuf # NoBuf
    BY <1>0, <1>3 DEF Send, DdTypeOK
  <2>2. CASE ready' = Append(ready, rbuf) /\ wbuf' = wbuf
    <3>1. /\ Len(ready') = Len(ready) + 1 /\ Len(ready) \in Nat /\ ready'[Len(ready) + 1] = rbuf
          /\ \A k \in 1..Len(ready) : ready'[k] = ready[k]
          /\ \A k \in 1..Len(ready') : k \in 1..Len(ready) \/ k = Len(ready) + 1
      BY <1>0, <2>1, <2>2, EnqueueFacts
    <3>2. \A j, k \in 1..Len(ready') : ready'[j] = ready'[k] => j = k
      BY <3>1 DEF OwnInv
    <3>3. \A j \in 1..Len(ready'), k \in 1..Len(pool) : ready'[j] # pool[k]
      BY <3>1 DEF OwnInv
    <3>4. \A j \in 1..Len(ready') : ready'[j] # NoBuf /\ ready'[j] # wbuf
      BY <1>0, <2>1, <3>1 DEF OwnInv
    <3>5. \A j \in 1..Len(pool) : pool[j] # NoBuf /\ pool[j] # wbuf
      BY <1>0 DEF OwnInv
    <3> QED
      BY <2>1, <2>2, <3>2, <3>3, <3>4, <3>5 DEF OwnInv
  <2>3. CASE wbuf' = rbuf /\ ready' = ready
    BY <1>0, <2>1, <2>3 DEF OwnInv
  <2> QED
    BY <1>3, <2>2, <2>3 DEF Send
<1> QED
  BY <1>1, <1>2, <1>3 DEF Reader

\* The writer takes a buffer of the channel and puts it into the pool.
LEMMA OwnMain ==
    ASSUME DdTypeOK, OwnInv, Main
    PROVE  OwnInv'
<1>0. /\ NoBuf \notin Bufs /\ ready \in Seq(Bufs) /\ pool \in Seq(Bufs)
      /\ \A k \in 1..Len(ready) : ready[k] \in Bufs
      /\ \A k \in 1..Len(pool) : pool[k] \in Bufs
  BY BufFacts
<1>1. CASE Receive
  <2>1. UNCHANGED <<rbuf, pool>> /\ wbuf' = Head(ready) /\ ready' = Tail(ready) /\ ready # <<>>
    BY <1>1 DEF Receive, reader
  <2>2. /\ wbuf' = ready[1] /\ 1 \in 1..Len(ready)
        /\ \A k \in 1..Len(ready') : ready'[k] = ready[k + 1] /\ k + 1 \in 1..Len(ready) /\ k + 1 # 1
        /\ Len(ready') = Len(ready) - 1 /\ Len(ready) \in Nat
    BY <1>0, <2>1, QueueFacts
  <2>3. \A j, k \in 1..Len(ready') : ready'[j] = ready'[k] => j = k
    <3> SUFFICES ASSUME NEW j \in 1..Len(ready'), NEW k \in 1..Len(ready'), ready'[j] = ready'[k]
                 PROVE  j = k
      OBVIOUS
    <3>1. j + 1 = k + 1
      BY <2>2 DEF OwnInv
    <3> QED
      BY <2>2, <3>1
  <2>4. \A j \in 1..Len(ready') : ready'[j] # rbuf /\ ready'[j] # wbuf'
    BY <2>2 DEF OwnInv
  <2>5. \A j \in 1..Len(ready'), k \in 1..Len(pool) : ready'[j] # pool[k]
    BY <2>2 DEF OwnInv
  <2>6. (\A j \in 1..Len(pool) : pool[j] # wbuf') /\ (rbuf # NoBuf => rbuf # wbuf')
    BY <2>2 DEF OwnInv
  <2> QED
    BY <2>1, <2>3, <2>4, <2>5, <2>6 DEF OwnInv
<1>2. CASE Put
  <2>1. UNCHANGED <<rbuf, ready>> /\ wbuf' = NoBuf /\ wbuf \in Bufs
        /\ (pool' = Append(pool, wbuf) \/ pool' = pool)
    BY <1>2 DEF Put, reader, DdTypeOK
  <2>2. CASE pool' = Append(pool, wbuf)
    <3>1. /\ Len(pool') = Len(pool) + 1 /\ Len(pool) \in Nat /\ pool'[Len(pool) + 1] = wbuf
          /\ \A k \in 1..Len(pool) : pool'[k] = pool[k]
          /\ \A k \in 1..Len(pool') : k \in 1..Len(pool) \/ k = Len(pool) + 1
      BY <1>0, <2>1, <2>2, EnqueueFacts
    <3>2. \A j, k \in 1..Len(pool') : pool'[j] = pool'[k] => j = k
      BY <3>1 DEF OwnInv
    <3>3. \A j \in 1..Len(ready), k \in 1..Len(pool') : ready[j] # pool'[k]
      BY <3>1 DEF OwnInv
    <3>4. \A j \in 1..Len(pool') : pool'[j] # NoBuf /\ pool'[j] # rbuf
      BY <1>0, <2>1, <3>1 DEF OwnInv
    <3>5. \A j \in 1..Len(ready) : ready[j] # NoBuf /\ ready[j] # rbuf
      BY <1>0 DEF OwnInv
    <3> QED
      BY <2>1, <3>2, <3>3, <3>4, <3>5 DEF OwnInv
  <2>3. CASE pool' = pool
    BY <1>0, <2>1, <2>3 DEF OwnInv
  <2> QED
    BY <2>1, <2>2, <2>3
<1>3. CASE Start \/ RangeEnds \/ WriteBlock \/ CloseQuit \/ Return \/ End \/ Exit
  <2>1. UNCHANGED <<ready, pool, wbuf, rbuf>>
    BY <1>3 DEF Start, RangeEnds, WriteBlock, CloseQuit, Return, End, Exit, reader, channels
  <2> QED
    BY <2>1, OwnSame
<1> QED
  BY <1>1, <1>2, <1>3 DEF Main

\* OwnInv is an invariant of dd.
THEOREM OwnInvariance == Spec => []OwnInv
<1>1. Init => OwnInv
  <2> SUFFICES ASSUME Init PROVE OwnInv
    OBVIOUS
  <2>1. ready = <<>> /\ pool = <<>> /\ rbuf = NoBuf
    BY DEF Init
  <2>2. Len(ready) = 0 /\ Len(pool) = 0
    BY <2>1, EmptySeq
  <2> QED
    BY <2>1, <2>2 DEF OwnInv
<1>2. DdTypeOK /\ OwnInv /\ [Next]_vars => OwnInv'
  <2> SUFFICES ASSUME DdTypeOK, OwnInv, [Next]_vars PROVE OwnInv'
    OBVIOUS
  <2>1. CASE Tick \/ Show \/ Quit \/ UNCHANGED vars
    <3>1. UNCHANGED <<ready, pool, wbuf, rbuf>>
      BY <2>1 DEF Tick, Show, Quit, vars, reader, channels, writer
    <3> QED
      BY <3>1, OwnSame
  <2> QED
    BY <2>1, OwnReader, OwnMain DEF Next
<1> QED
  BY <1>1, <1>2, DdTypes, PTL DEF Spec

\* bufferPool, readyBufs and the two goroutines: no buffer is in two hands, so that
\* nothing is read into a buffer that is still to be written.
THEOREM OneOwner == Spec => []BuffersHaveOneOwner
<1>1. DdTypeOK /\ OwnInv => BuffersHaveOneOwner
  <2> SUFFICES ASSUME DdTypeOK, OwnInv PROVE BuffersHaveOneOwner
    OBVIOUS
  <2>1. /\ NoBuf \notin Bufs /\ DOMAIN ready = 1..Len(ready) /\ DOMAIN pool = 1..Len(pool)
        /\ \A k \in 1..Len(ready) : ready[k] \in Bufs
        /\ \A k \in 1..Len(pool) : pool[k] \in Bufs
    BY BufFacts
  <2>2. IsInjective(ready) /\ IsInjective(pool)
    BY <2>1 DEF OwnInv, IsInjective
  <2>3. Range(ready) \cap Range(pool) = {}
    BY <2>1 DEF OwnInv, Range
  <2>4. rbuf # NoBuf => rbuf \notin Range(ready) \cup Range(pool) \cup {wbuf}
    BY <2>1 DEF OwnInv, Range
  <2>5. wbuf \notin Range(ready) \cup Range(pool)
    BY <2>1 DEF OwnInv, Range
  <2> QED
    BY <2>2, <2>3, <2>4, <2>5 DEF BuffersHaveOneOwner
<1> QED
  BY <1>1, DdTypes, OwnInvariance, PTL

-----------------------------------------------------------------------------
(***************************************************************************)
(* The bytes in flight.                                                    *)
(***************************************************************************)

\* The section of the input does not change, nor the depth of the channels.
LEMMA SectionSame ==
    ASSUME UNCHANGED <<opt, len>>
    PROVE  /\ Base' = Base /\ ReadLimit' = ReadLimit /\ Depth' = Depth
           /\ off' = off => SkipTo' = SkipTo
<1>1. Base' = Base /\ MaxRead' = MaxRead /\ Depth' = Depth
  BY DEF Base, MaxRead, Depth
<1> QED
  BY <1>1 DEF ReadLimit, SkipTo

\* The lengths that occur are natural numbers.
LEMMA FlowTypes ==
    ASSUME DdTypeOK
    PROVE  /\ SkipTo \in Nat /\ Base \in Nat /\ ReadLimit \in Int /\ len \in Nat
           /\ Len(out) \in Nat /\ Len(ready) \in Nat /\ woff \in Nat
           /\ \A b \in Bufs : Len(data[b]) \in Nat /\ \A k \in 1..Len(data[b]) : data[b][k] \in Nat
           /\ \A k \in 1..Len(ready) : ready[k] \in Bufs
           /\ \A k \in 1..Len(out) : out[k] \in Nat
<1>1. SkipTo \in Nat /\ Base \in Nat /\ ReadLimit \in Int /\ len \in Nat
  BY SkipToNat, ReadLimitInt, ConstFacts DEF DdTypeOK
<1>2. /\ Len(out) \in Nat /\ Len(ready) \in Nat /\ woff \in Nat
      /\ \A k \in 1..Len(ready) : ready[k] \in Bufs
      /\ \A k \in 1..Len(out) : out[k] \in Nat
  BY LenProperties DEF DdTypeOK
<1>3. \A b \in Bufs : data[b] \in Seq(Nat)
  BY DEF DdTypeOK
<1>4. \A b \in Bufs : Len(data[b]) \in Nat /\ \A k \in 1..Len(data[b]) : data[b][k] \in Nat
  BY <1>3, LenProperties
<1> QED
  BY <1>1, <1>2, <1>4

\* Steps that move no byte.
LEMMA FlowSame ==
    ASSUME FlowInv, UNCHANGED <<opt, len, off, data, ready, out, woff, wbuf, werr>>,
           wpc' = "write" <=> wpc = "write", rpc' = "send" <=> rpc = "send",
           rpc = "send" => rbuf' = rbuf, wpc = "start" => Len(ready) = 0
    PROVE  FlowInv'
<1>1. Base' = Base /\ ReadLimit' = ReadLimit /\ SkipTo' = SkipTo /\ Depth' = Depth
  BY SectionSame
<1>2. Written' = Written
  BY <1>1 DEF Written
<1>3. \A i \in 0..Len(ready) : Reached(i)' = Reached(i)
  BY <1>2 DEF Reached, Last
<1>4. Reached(Len(ready))' = Reached(Len(ready))
  BY <1>2 DEF Reached, Last
<1>5. InOrder => InOrder'
  <2> SUFFICES ASSUME InOrder PROVE InOrder'
    OBVIOUS
  <2>1. ASSUME NEW i \in 1..Len(ready)
        PROVE  Len(data[ready[i]]) > 0 /\ Holds(ready[i], Reached(i - 1))'
    <3>1. Reached(i - 1)' = Reached(i - 1)
      BY <1>2 DEF Reached, Last
    <3> QED
      BY <3>1 DEF InOrder, Holds
  <2>2. rpc' = "send" => /\ Len(data[rbuf])' > 0 /\ Holds(rbuf, Reached(Len(ready)))'
                         /\ Last(rbuf)' = SkipTo
    BY <1>4 DEF InOrder, Holds, Last
  <2> QED
    BY <1>1, <1>4, <2>1, <2>2 DEF InOrder
<1>6. wpc = "write" => Holds(wbuf, Base + Len(out) - woff)' 
  BY <1>1 DEF FlowInv, Holds
<1> QED
  BY <1>1, <1>5, <1>6 DEF FlowInv

\* Read puts the next bytes of the input into the buffer of the reader.
LEMMA FlowRead ==
    ASSUME DdTypeOK, OwnInv, FlowInv, Read
    PROVE  FlowInv'
<1>1. /\ UNCHANGED <<opt, len, rbuf, ready, wpc, wbuf, woff, werr, out>> /\ rpc = "read" /\ rbuf \in Bufs
      /\ wpc # "start" /\ Bufs' = Bufs
  BY DEF Read, writer, DdTypeOK, Started, Bufs
<1>2. PICK n \in Nat :
             /\ data' = [data EXCEPT ![rbuf] = [k \in 1..n |-> SkipTo + k]]
             /\ Len([k \in 1..n |-> SkipTo + k]) = n
             /\ off' = SkipTo + n /\ SkipTo' = SkipTo + n
             /\ n > 0 => SkipTo + n <= len /\ SkipTo + n <= ReadLimit
             /\ rpc' = IF n > 0 THEN "send" ELSE "after"
  BY ReadEffect
<1>3. Base' = Base /\ ReadLimit' = ReadLimit /\ Depth' = Depth
  BY <1>1, SectionSame
<1>4. /\ SkipTo \in Nat /\ Base \in Nat /\ ReadLimit \in Int /\ len \in Nat /\ Len(ready) \in Nat
      /\ \A b \in Bufs : Len(data[b]) \in Nat /\ \A k \in 1..Len(data[b]) : data[b][k] \in Nat
      /\ \A k \in 1..Len(ready) : ready[k] \in Bufs
      /\ \A k \in 1..Len(out) : out[k] \in Nat
  BY FlowTypes
<1>5. /\ \A b \in Bufs : b # rbuf => data'[b] = data[b]
      /\ Len(data'[rbuf]) = n /\ \A k \in 1..n : data'[rbuf][k] = SkipTo + k
  <2> DEFINE f == [k \in 1..n |-> SkipTo + k]
  <2>1. Len(f) = n /\ \A k \in 1..n : f[k] = SkipTo + k
    BY <1>2
  <2>2. data' = [data EXCEPT ![rbuf] = f]
    BY <1>2
  <2> HIDE DEF f
  <2>3. data'[rbuf] = f /\ \A b \in Bufs : b # rbuf => data'[b] = data[b]
    BY <1>1, <2>2 DEF DdTypeOK
  <2> QED
    BY <2>1, <2>3
<1>6. wpc = "write" => data'[wbuf] = data[wbuf]
  <2>1. wpc = "write" => wbuf \in Bufs /\ wbuf # rbuf
    BY <1>1, ConstFacts DEF DdTypeOK, OwnInv
  <2> QED
    BY <1>5, <2>1
<1>7. \A i \in 1..Len(ready) : data'[ready[i]] = data[ready[i]]
  BY <1>4, <1>5 DEF OwnInv
<1>8. Written' = Written
  BY <1>1, <1>3, <1>6 DEF Written
<1>9. \A i \in 0..Len(ready) : Reached(i)' = Reached(i)
  BY <1>1, <1>7, <1>8 DEF Reached, Last
<1>10. \A k \in 1..Len(out') : out'[k] = Base' + k /\ out'[k] <= SkipTo'
  BY <1>1, <1>2, <1>3, <1>4 DEF FlowInv
<1>11. ASSUME NEW b \in Bufs, NEW k \in 1..Len(data'[b]) PROVE data'[b][k] <= SkipTo'
  <2>1. CASE b = rbuf
    BY <1>2, <1>4, <1>5, <2>1
  <2>2. CASE b # rbuf
    <3>1. data'[b] = data[b] /\ data[b][k] <= SkipTo /\ data[b][k] \in Nat
      BY <1>4, <1>5, <2>2 DEF FlowInv
    <3> QED
      BY <1>2, <1>4, <3>1
  <2> QED
    BY <2>1, <2>2
<1>12. SkipTo' >= Base' /\ (SkipTo' = Base' \/ (SkipTo' <= len' /\ SkipTo' <= ReadLimit'))
  BY <1>1, <1>2, <1>3, <1>4 DEF FlowInv
<1>13. wpc' = "write" => woff' <= Len(data[wbuf])' /\ woff' <= Len(out') /\ Holds(wbuf, Base + Len(out) - woff)'
  BY <1>1, <1>3, <1>6 DEF FlowInv, Holds
<1>14. ASSUME ~werr' PROVE InOrder'
  <2>0. InOrder
    BY <1>1, <1>14 DEF FlowInv
  <2>1. ASSUME NEW i \in 1..Len(ready)
        PROVE  Len(data'[ready[i]]) > 0 /\ Holds(ready[i], Reached(i - 1))'
    <3>1. i - 1 \in 0..Len(ready)
      BY <1>4
    <3>2. Reached(i - 1)' = Reached(i - 1)
      BY <1>9, <3>1
    <3>3. Len(data[ready[i]]) > 0 /\ \A k \in 1..Len(data[ready[i]]) : data[ready[i]][k] = Reached(i - 1) + k
      BY <2>0 DEF InOrder, Holds
    <3> QED
      BY <1>1, <1>7, <3>2, <3>3 DEF Holds
  <2>2. Reached(Len(ready))' = SkipTo /\ Reached(Len(ready)) = SkipTo
    <3>1. Reached(Len(ready)) = SkipTo
      BY <1>1, <2>0 DEF InOrder
    <3>2. Reached(Len(ready))' = Reached(Len(ready))
      BY <1>1, <1>4, <1>9
    <3> QED
      BY <3>1, <3>2
  <2>3. CASE n > 0
    <3>1. rpc' = "send" /\ Len(data[rbuf])' > 0 /\ Holds(rbuf, Reached(Len(ready)))' /\ Last(rbuf)' = SkipTo'
      BY <1>1, <1>2, <1>5, <2>2, <2>3 DEF Holds, Last
    <3> QED
      BY <1>1, <2>1, <3>1 DEF InOrder
  <2>4. CASE n = 0
    <3>1. rpc' = "after" /\ Reached(Len(ready))' = SkipTo'
      BY <1>2, <1>4, <2>2, <2>4
    <3> QED
      BY <1>1, <2>1, <3>1 DEF InOrder
  <2> QED
    BY <1>2, <2>3, <2>4
<1> QED
  BY <1>1, <1>3, <1>10, <1>11, <1>12, <1>13, <1>14 DEF FlowInv

\* A channel without room takes no buffer: the capacity is a number.
LEMMA DepthInt ==
    ASSUME DdTypeOK, opt.ibs # 0
    PROVE  Depth \in Int
<1>1. opt.ibs \in Nat \ {0} /\ GiB \in Nat /\ MaxDepth \in Nat
  BY ConstFacts, DdAssumption DEF DdTypeOK
<1>2. GiB \div opt.ibs \in Int
  BY <1>1
<1> QED
  BY <1>1, <1>2 DEF Depth, Least

\* Send: the buffer goes to the end of the channel, or to a writer that waits.
LEMMA FlowSend ==
    ASSUME DdTypeOK, FlowInv, ~werr, Send
    PROVE  FlowInv'
<1>0. InOrder
  BY DEF FlowInv
<1>1. /\ UNCHANGED <<opt, len, off, data, werr, out>> /\ rpc = "send" /\ rpc' = "after" /\ rbuf \in Bufs
      /\ wpc # "start" /\ opt.ibs # 0 /\ Bufs' = Bufs /\ ready \in Seq(Bufs)
  BY DEF Send, DdTypeOK, Started, Bufs
<1>2. Base' = Base /\ ReadLimit' = ReadLimit /\ SkipTo' = SkipTo /\ Depth' = Depth /\ Depth \in Int
  BY <1>1, SectionSame, DepthInt
<1>3. /\ SkipTo \in Nat /\ Base \in Nat /\ Len(ready) \in Nat /\ Len(out) \in Nat
      /\ \A b \in Bufs : Len(data[b]) \in Nat
  BY FlowTypes
<1>4. /\ Len(data[rbuf]) > 0 /\ Holds(rbuf, Reached(Len(ready))) /\ Last(rbuf) = SkipTo
  BY <1>0, <1>1 DEF InOrder
<1>5. CASE Len(ready) < Depth /\ ready' = Append(ready, rbuf) /\ UNCHANGED <<wpc, wbuf, woff>>
  <2>1. /\ Len(ready') = Len(ready) + 1 /\ ready'[Len(ready) + 1] = rbuf
        /\ \A k \in 1..Len(ready) : ready'[k] = ready[k]
        /\ \A k \in 1..Len(ready') : k \in 1..Len(ready) \/ k = Len(ready) + 1
    BY <1>1, <1>5, EnqueueFacts
  <2>2. Written' = Written
    BY <1>1, <1>2, <1>5 DEF Written
  <2>3. \A i \in 0..Len(ready) : Reached(i)' = Reached(i)
    BY <1>1, <1>3, <2>1, <2>2 DEF Reached, Last
  <2>4. ASSUME NEW i \in 1..Len(ready')
        PROVE  Len(data'[ready'[i]]) > 0 /\ Holds(ready[i], Reached(i - 1))'
    <3>1. i - 1 \in 0..Len(ready)
      BY <1>3, <2>1
    <3>2. Reached(i - 1)' = Reached(i - 1)
      BY <2>3, <3>1
    <3>3. CASE i \in 1..Len(ready)
      <4>1. Len(data[ready[i]]) > 0 /\ Holds(ready[i], Reached(i - 1))
        BY <1>0, <3>3 DEF InOrder
      <4> QED
        BY <1>1, <2>1, <3>2, <3>3, <4>1 DEF Holds
    <3>4. CASE i = Len(ready) + 1
      <4>1. i - 1 = Len(ready) /\ ready'[i] = rbuf
        BY <1>3, <2>1, <3>4
      <4>2. \A k \in 1..Len(data[rbuf]) : data[rbuf][k] = Reached(i - 1) + k
        BY <1>4, <4>1 DEF Holds
      <4> QED
        BY <1>1, <1>4, <3>2, <4>1, <4>2 DEF Holds
    <3> QED
      BY <2>1, <3>3, <3>4
  <2>5. Reached(Len(ready))' = SkipTo'
    <3>1. Len(ready') # 0 /\ ready'[Len(ready')] = rbuf
      BY <1>3, <2>1
    <3> QED
      BY <1>1, <1>2, <1>4, <3>1 DEF Reached, Last
  <2>6. InOrder'
    BY <1>1, <2>4, <2>5 DEF InOrder
  <2>7. Len(ready') <= Depth'
    BY <1>2, <1>3, <1>5, <2>1
  <2>8. wpc' = "write" => woff' <= Len(data[wbuf])' /\ woff' <= Len(out') /\ Holds(wbuf, Base + Len(out) - woff)'
    BY <1>1, <1>2, <1>5 DEF FlowInv, Holds
  <2> QED
    BY <1>1, <1>2, <2>6, <2>7, <2>8 DEF FlowInv
<1>6. CASE Depth = 0 /\ wpc = "range" /\ wpc' = "write" /\ wbuf' = rbuf /\ woff' = 0 /\ UNCHANGED ready
  <2>1. Len(ready) = 0
    BY <1>2, <1>3, <1>6 DEF FlowInv
  <2>2. Reached(Len(ready)) = Base + Len(out)
    BY <1>6, <2>1 DEF Reached, Written
  <2>3. \A k \in 1..Len(data[rbuf]) : data[rbuf][k] = Base + Len(out) + k
    BY <1>4, <2>2 DEF Holds
  <2>4. SkipTo = Base + Len(out) + Len(data[rbuf])
    <3>1. Len(data[rbuf]) \in 1..Len(data[rbuf])
      BY <1>1, <1>3, <1>4
    <3> QED
      BY <1>4, <2>3, <3>1 DEF Last
  <2>5. Written' = SkipTo
    <3>1. Written' = Base + Len(out) - 0 + Len(data[rbuf])
      BY <1>1, <1>2, <1>6 DEF Written
    <3> QED
      BY <1>1, <1>3, <2>4, <3>1
  <2>6. Reached(Len(ready))' = SkipTo'
    BY <1>2, <1>6, <2>1, <2>5 DEF Reached
  <2>7. InOrder'
    BY <1>1, <1>6, <2>1, <2>6 DEF InOrder
  <2>8. Holds(wbuf, Base + Len(out) - woff)'
    <3>1. Base' + Len(out') - woff' = Base + Len(out)
      BY <1>1, <1>2, <1>3, <1>6
    <3>2. \A k \in 1..Len(data'[wbuf']) : data'[wbuf'][k] = Base' + Len(out') - woff' + k
      BY <1>1, <1>6, <2>3, <3>1
    <3> QED
      BY <3>2 DEF Holds
  <2>9. woff' <= Len(data'[wbuf']) /\ woff' <= Len(out')
    BY <1>1, <1>3, <1>6
  <2> QED
    BY <1>1, <1>2, <1>6, <2>1, <2>7, <2>8, <2>9 DEF FlowInv
<1> QED
  BY <1>5, <1>6 DEF Send

\* Receive: the writer goes on with the first buffer of the channel.
LEMMA FlowReceive ==
    ASSUME DdTypeOK, FlowInv, ~werr, Receive
    PROVE  FlowInv'
<1>0. InOrder
  BY DEF FlowInv
<1>1. /\ UNCHANGED <<opt, len, off, rpc, rbuf, data, werr, out>> /\ wpc = "range" /\ wpc' = "write" /\ woff' = 0
      /\ ready # <<>> /\ ready' = Tail(ready) /\ wbuf' = Head(ready) /\ Bufs' = Bufs /\ ready \in Seq(Bufs)
  BY DEF Receive, DdTypeOK, Bufs, reader
<1>2. Base' = Base /\ ReadLimit' = ReadLimit /\ SkipTo' = SkipTo /\ Depth' = Depth
  BY <1>1, SectionSame
<1>3. /\ SkipTo \in Nat /\ Base \in Nat /\ Len(ready) \in Nat /\ Len(out) \in Nat
      /\ \A b \in Bufs : Len(data[b]) \in Nat
      /\ \A k \in 1..Len(ready) : ready[k] \in Bufs
  BY FlowTypes
<1>4. /\ wbuf' = ready[1] /\ 1 \in 1..Len(ready) /\ Len(ready') = Len(ready) - 1
      /\ \A k \in 1..Len(ready') : ready'[k] = ready[k + 1] /\ k + 1 \in 1..Len(ready)
  BY <1>1, QueueFacts
<1> DEFINE b == ready[1]
<1>5. Len(data[b]) > 0 /\ b \in Bufs /\ \A k \in 1..Len(data[b]) : data[b][k] = Base + Len(out) + k
  <2>1. Len(data[ready[1]]) > 0 /\ Holds(ready[1], Reached(1 - 1))
    BY <1>0, <1>4 DEF InOrder
  <2>2. Reached(1 - 1) = Base + Len(out)
    BY <1>1 DEF Reached, Written
  <2> QED
    BY <1>3, <1>4, <2>1, <2>2 DEF Holds
<1>6. Written' = Last(b)
  <2>1. Written' = Base + Len(out) - 0 + Len(data[b])
    BY <1>1, <1>2, <1>4 DEF Written
  <2>2. Len(data[b]) \in 1..Len(data[b])
    BY <1>3, <1>5
  <2>3. Last(b) = Base + Len(out) + Len(data[b])
    BY <1>5, <2>2 DEF Last
  <2> QED
    BY <1>3, <1>5, <2>1, <2>3
<1>7. ASSUME NEW i \in 0..Len(ready') PROVE Reached(i)' = Reached(i + 1)
  <2>1. CASE i = 0
    BY <1>6, <2>1 DEF Reached
  <2>2. CASE i # 0
    <3>1. i \in 1..Len(ready') /\ i + 1 # 0
      BY <1>3, <1>4, <2>2
    <3>2. ready'[i] = ready[i + 1]
      BY <1>4, <3>1
    <3> QED
      BY <1>1, <2>2, <3>1, <3>2 DEF Reached, Last
  <2> QED
    BY <2>1, <2>2
<1>8. ASSUME NEW i \in 1..Len(ready')
      PROVE  Len(data'[ready'[i]]) > 0 /\ Holds(ready[i], Reached(i - 1))'
  <2>1. i - 1 \in 0..Len(ready') /\ (i - 1) + 1 = i /\ (i + 1) - 1 = i
    BY <1>3, <1>4
  <2>2. Reached(i - 1)' = Reached(i)
    BY <1>7, <2>1
  <2>3. Len(data[ready[i + 1]]) > 0 /\ Holds(ready[i + 1], Reached((i + 1) - 1))
    BY <1>0, <1>4 DEF InOrder
  <2>4. \A k \in 1..Len(data[ready[i + 1]]) : data[ready[i + 1]][k] = Reached(i) + k
    BY <2>1, <2>3 DEF Holds
  <2> QED
    BY <1>1, <1>4, <2>2, <2>3, <2>4 DEF Holds
<1>9. Reached(Len(ready))' = Reached(Len(ready))
  <2>1. Len(ready') \in 0..Len(ready') /\ Len(ready') + 1 = Len(ready)
    BY <1>3, <1>4
  <2>2. \A i \in 0..Len(ready') : i = Len(ready') => Reached(Len(ready))' = Reached(i + 1)
    <3> SUFFICES ASSUME NEW i \in 0..Len(ready'), i = Len(ready') PROVE Reached(Len(ready))' = Reached(i + 1)
      OBVIOUS
    <3>1. Reached(i)' = Reached(i + 1)
      BY <1>7
    <3>2. Reached(i)' = Reached(Len(ready))'
      BY DEF Reached
    <3> QED
      BY <3>1, <3>2
  <2> QED
    BY <2>1, <2>2
<1>10. InOrder'
  <2>1. rpc' = "send" => /\ Len(data[rbuf])' > 0 /\ Holds(rbuf, Reached(Len(ready)))'
                         /\ Last(rbuf)' = SkipTo'
    BY <1>0, <1>1, <1>2, <1>9 DEF InOrder, Holds, Last
  <2>2. rpc' # "send" => Reached(Len(ready))' = SkipTo'
    BY <1>0, <1>1, <1>2, <1>9 DEF InOrder
  <2> QED
    BY <1>8, <2>1, <2>2 DEF InOrder
<1>11. Holds(wbuf, Base + Len(out) - woff)'
  <2>1. Base' + Len(out') - woff' = Base + Len(out)
    BY <1>1, <1>2, <1>3
  <2>2. \A k \in 1..Len(data'[wbuf']) : data'[wbuf'][k] = Base' + Len(out') - woff' + k
    BY <1>1, <1>4, <1>5, <2>1
  <2> QED
    BY <2>2 DEF Holds
<1>12. woff' <= Len(data'[wbuf']) /\ woff' <= Len(out')
  BY <1>1, <1>3, <1>4, <1>5
<1>13. Len(ready') # 0 => Len(ready') <= Depth'
  <2>1. Len(ready) # 0 /\ opt.ibs # 0 /\ wpc # "start"
    BY <1>1, <1>4 DEF DdTypeOK
  <2>2. Len(ready) <= Depth /\ Depth \in Int
    BY <2>1, DepthInt DEF FlowInv
  <2> QED
    BY <1>2, <1>3, <1>4, <2>2
<1> QED
  BY <1>1, <1>2, <1>10, <1>11, <1>12, <1>13 DEF FlowInv

\* WriteBlock: the output goes on with the bytes of the buffer.
LEMMA FlowWrite ==
    ASSUME DdTypeOK, FlowInv, WriteBlock
    PROVE  FlowInv'
<1>1. /\ UNCHANGED <<opt, len, off, rpc, rbuf, data, ready, wbuf>> /\ wpc = "write" /\ wbuf \in Bufs /\ Bufs' = Bufs
  BY DEF WriteBlock, DdTypeOK, Bufs, reader, channels
<1>2. PICK n \in Nat :
             /\ woff + n <= Len(data[wbuf]) /\ woff' = woff + n
             /\ Len(out') = Len(out) + n
             /\ \A k \in 1..Len(out) : out'[k] = out[k]
             /\ \A k \in 1..n : out'[Len(out) + k] = data[wbuf][woff + k]
             /\ (wpc' = "write" /\ werr' = werr) \/ (wpc' = "close" /\ werr' = TRUE)
  BY WriteEffect
<1>3. Base' = Base /\ ReadLimit' = ReadLimit /\ SkipTo' = SkipTo /\ Depth' = Depth
  BY <1>1, SectionSame
<1>4. /\ SkipTo \in Nat /\ Base \in Nat /\ Len(ready) \in Nat /\ Len(out) \in Nat /\ woff \in Nat
      /\ Len(data[wbuf]) \in Nat
  BY <1>1, FlowTypes
<1>5. /\ \A k \in 1..Len(data[wbuf]) : data[wbuf][k] = Base + Len(out) - woff + k
      /\ woff <= Len(out)
  BY <1>1 DEF FlowInv, Holds
<1>6. ASSUME NEW k \in 1..Len(out') PROVE out'[k] = Base + k /\ out'[k] <= SkipTo
  <2>1. CASE k \in 1..Len(out)
    BY <1>2, <2>1 DEF FlowInv
  <2>2. CASE k \notin 1..Len(out)
    <3> DEFINE j == k - Len(out)
    <3>1. j \in 1..n /\ k = Len(out) + j /\ woff + j \in 1..Len(data[wbuf])
      BY <1>2, <1>4, <2>2
    <3> HIDE DEF j
    <3>2. out'[k] = data[wbuf][woff + j]
      BY <1>2, <3>1
    <3>3. data[wbuf][woff + j] = Base + Len(out) - woff + (woff + j) /\ data[wbuf][woff + j] <= SkipTo
      BY <1>1, <1>5, <3>1 DEF FlowInv
    <3> QED
      BY <1>4, <3>1, <3>2, <3>3
  <2> QED
    BY <2>1, <2>2
<1>7. Base + Len(out') - woff' = Base + Len(out) - woff
  BY <1>2, <1>4
<1>8. wpc' = "write" => woff' <= Len(data'[wbuf']) /\ woff' <= Len(out') /\ Holds(wbuf, Base + Len(out) - woff)'
  <2>1. \A k \in 1..Len(data'[wbuf']) : data'[wbuf'][k] = Base' + Len(out') - woff' + k
    BY <1>1, <1>3, <1>5, <1>7
  <2>2. woff' <= Len(data'[wbuf']) /\ woff' <= Len(out')
    BY <1>1, <1>2, <1>4, <1>5
  <2> QED
    BY <2>1, <2>2 DEF Holds
<1>9. ASSUME ~werr' PROVE InOrder'
  <2>1. wpc' = "write" /\ InOrder
    BY <1>2, <1>9 DEF FlowInv
  <2>2. Written' = Written
    BY <1>1, <1>3, <1>7, <2>1 DEF Written
  <2>3. Reached(Len(ready))' = Reached(Len(ready))
    BY <1>1, <2>2 DEF Reached, Last
  <2>4. ASSUME NEW i \in 1..Len(ready)
        PROVE  Len(data'[ready[i]]) > 0 /\ Holds(ready[i], Reached(i - 1))'
    <3>1. Reached(i - 1)' = Reached(i - 1)
      BY <1>1, <2>2 DEF Reached, Last
    <3> QED
      BY <1>1, <2>1, <3>1 DEF InOrder, Holds
  <2>5. rpc' = "send" => /\ Len(data[rbuf])' > 0 /\ Holds(rbuf, Reached(Len(ready)))'
                         /\ Last(rbuf)' = SkipTo'
    BY <1>1, <1>3, <2>1, <2>3 DEF InOrder, Holds, Last
  <2>6. rpc' # "send" => Reached(Len(ready))' = SkipTo'
    BY <1>1, <1>3, <2>1, <2>3 DEF InOrder
  <2> QED
    BY <1>1, <2>4, <2>5, <2>6 DEF InOrder
<1> QED
  BY <1>1, <1>3, <1>6, <1>8, <1>9 DEF FlowInv

\* Put: the whole buffer is in the output.
LEMMA FlowPut ==
    ASSUME DdTypeOK, FlowInv, Put
    PROVE  FlowInv' /\ woff = Len(data[wbuf])
<1>1. /\ UNCHANGED <<opt, len, off, rpc, rbuf, data, ready, out, werr>> /\ wpc = "write" /\ wbuf \in Bufs
      /\ wpc' = "range" /\ woff >= Len(data[wbuf]) /\ Bufs' = Bufs
  BY DEF Put, DdTypeOK, Bufs, reader
<1>2. Base' = Base /\ ReadLimit' = ReadLimit /\ SkipTo' = SkipTo /\ Depth' = Depth
  BY <1>1, SectionSame
<1>3. Base \in Nat /\ Len(out) \in Nat /\ woff \in Nat /\ Len(data[wbuf]) \in Nat
  BY <1>1, FlowTypes
<1>4. woff = Len(data[wbuf])
  BY <1>1, <1>3 DEF FlowInv
<1>5. Written' = Written
  <2>1. Written = Base + Len(out) - woff + Len(data[wbuf]) /\ Written' = Base + Len(out)
    BY <1>1, <1>2 DEF Written
  <2> QED
    BY <1>3, <1>4, <2>1
<1>6. ASSUME ~werr' PROVE InOrder'
  <2>1. InOrder
    BY <1>1, <1>6 DEF FlowInv
  <2>3. Reached(Len(ready))' = Reached(Len(ready))
    BY <1>1, <1>5 DEF Reached, Last
  <2>4. ASSUME NEW i \in 1..Len(ready)
        PROVE  Len(data'[ready[i]]) > 0 /\ Holds(ready[i], Reached(i - 1))'
    <3>1. Reached(i - 1)' = Reached(i - 1)
      BY <1>1, <1>5 DEF Reached, Last
    <3> QED
      BY <1>1, <2>1, <3>1 DEF InOrder, Holds
  <2>5. rpc' = "send" => /\ Len(data[rbuf])' > 0 /\ Holds(rbuf, Reached(Len(ready)))'
                         /\ Last(rbuf)' = SkipTo'
    BY <1>1, <1>2, <2>1, <2>3 DEF InOrder, Holds, Last
  <2>6. rpc' # "send" => Reached(Len(ready))' = SkipTo'
    BY <1>1, <1>2, <2>1, <2>3 DEF InOrder
  <2> QED
    BY <1>1, <2>4, <2>5, <2>6 DEF InOrder
<1> QED
  BY <1>1, <1>2, <1>4, <1>6 DEF FlowInv

-----------------------------------------------------------------------------
(***************************************************************************)
(* How the goroutines end.                                                 *)
(***************************************************************************)

\* The reader keeps FlowInv and EndInv.
LEMMA FlowReader ==
    ASSUME DdTypeOK, OwnInv, FlowInv, EndInv, Reader
    PROVE  FlowInv' /\ EndInv'
<1>0. UNCHANGED <<opt, len, result, werr, out, bytesWritten>> /\ Started
  BY DEF Reader, Select, Read, Send, AfterRead, WgDone, CloseReady, writer
<1>1. ReadLimit' = ReadLimit
  BY <1>0, SectionSame
<1>2. wpc # "start"
  BY <1>0 DEF Started
<1>3. CASE Select
  <2>1. /\ UNCHANGED <<rerr, off, data, ready, readyClosed, quit, errs, wpc, wbuf, woff>> /\ rpc = "select"
        /\ (quit /\ rpc' = "return") \/ rpc' = "read"
    BY <1>3 DEF Select, writer
  <2>2. FlowInv'
    BY <1>0, <1>2, <2>1, FlowSame
  <2>3. SkipTo' = SkipTo
    BY <1>0, <2>1, SectionSame
  <2>4. quit => werr
    <3>1. quit => wpc \in {"wait", "end", "again", "total", "printed"}
      BY <1>0 DEF EndInv, DdTypeOK, WStates, Started
    <3> QED
      BY <2>1, <3>1 DEF EndInv
  <2>5. EndInv'
    BY <1>0, <1>1, <2>1, <2>3, <2>4 DEF EndInv
  <2> QED
    BY <2>2, <2>5
<1>4. CASE Read
  <2>1. FlowInv'
    BY <1>4, FlowRead
  <2>2. PICK n \in Nat : /\ rerr' = "eof" => SkipTo' >= len \/ SkipTo' >= ReadLimit
                         /\ rpc' = IF n > 0 THEN "send" ELSE "after"
    BY <1>4, ReadEffect
  <2>3. rpc' \in {"send", "after"}
    BY <2>2
  <2>4. UNCHANGED <<ready, readyClosed, quit, errs, wpc, wbuf, woff>> /\ rpc = "read"
    BY <1>4 DEF Read, writer
  <2>5. EndInv'
    BY <1>0, <1>1, <2>2, <2>3, <2>4 DEF EndInv
  <2> QED
    BY <2>1, <2>5
<1>5. CASE Send
  <2>1. UNCHANGED <<rerr, off, readyClosed, quit, errs>> /\ rpc = "send" /\ rpc' = "after"
    BY <1>5 DEF Send
  <2>2. SkipTo' = SkipTo
    BY <1>0, <2>1, SectionSame
  <2>3. CASE UNCHANGED <<wpc, wbuf, woff>> /\ ready' = Append(ready, rbuf)
    <3>1. ~(wpc \in {"close", "wait", "end", "again", "total", "printed"} \/ result = "nil") \/ werr
      BY <2>1 DEF EndInv
    <3>2. EndInv'
      BY <1>0, <1>1, <1>2, <2>1, <2>2, <2>3, <3>1 DEF EndInv
    <3>3. CASE ~werr
      BY <1>5, <3>2, <3>3, FlowSend
    <3>4. CASE werr
      <4>1. Len(ready') <= Depth'
        <5>1. Len(ready) < Depth /\ Len(ready) \in Nat /\ Depth \in Int /\ Depth' = Depth
          <6>1. opt.ibs # 0
            BY <1>0 DEF DdTypeOK, Started
          <6>2. ~(Depth = 0 /\ wpc = "range")
            BY <3>4 DEF EndInv
          <6> QED
            BY <1>0, <1>5, <6>1, <6>2, DepthInt, FlowTypes, SectionSame DEF Send
        <5>2. Len(ready') = Len(ready) + 1
          BY <1>5, <2>3, EnqueueFacts DEF Send, DdTypeOK
        <5> QED
          BY <5>1, <5>2
      <4>2. Base' = Base /\ data' = data /\ wpc # "write" /\ Bufs' = Bufs
        BY <1>0, <1>5, <3>4, SectionSame DEF Send, EndInv, Bufs
      <4>3. FlowInv'
        BY <1>0, <1>1, <2>2, <2>3, <3>4, <4>1, <4>2 DEF FlowInv
      <4> QED
        BY <3>2, <4>3
    <3> QED
      BY <3>3, <3>4
  <2>4. CASE Depth = 0 /\ wpc = "range" /\ wpc' = "write" /\ wbuf' = rbuf /\ woff' = 0 /\ UNCHANGED ready
    <3>1. ~werr
      BY <2>4 DEF EndInv
    <3>2. bytesWritten = Len(out) /\ result \notin {"nil", "read", "write"} /\ ~quit /\ bytesWritten \in Nat
      BY <2>4, <3>1 DEF EndInv, DdTypeOK
    <3>3. EndInv'
      BY <1>0, <1>1, <2>1, <2>2, <2>4, <3>1, <3>2 DEF EndInv
    <3> QED
      BY <1>5, <3>1, <3>3, FlowSend
  <2> QED
    BY <1>5, <2>3, <2>4 DEF Send
<1>6. CASE AfterRead
  <2>1. /\ UNCHANGED <<rerr, off, data, ready, readyClosed, quit, wpc, wbuf, woff>> /\ rpc = "after"
        /\ rpc' = IF rerr = "nil" THEN "select" ELSE "return"
        /\ errs' = IF rerr = "error" THEN "full" ELSE errs
    BY <1>6 DEF AfterRead, writer
  <2>2. rpc' # "send"
    BY <2>1
  <2>3. FlowInv'
    BY <1>0, <1>2, <2>1, <2>2, FlowSame
  <2>4. SkipTo' = SkipTo
    BY <1>0, <2>1, SectionSame
  <2>5. result # "nil"
    BY <2>1 DEF EndInv
  <2>6. rpc' = "return" => errs' = "full" \/ rerr = "eof"
    BY <2>1 DEF DdTypeOK
  <2>7. rpc' \in {"select", "return"}
    BY <2>1
  <2>8. ~(result \in {"nil", "read", "write"}) /\ ~readyClosed
    BY <2>1 DEF EndInv
  <2>9. wpc \in {"close", "wait", "end", "again", "total", "printed"} => werr
    BY <2>1 DEF EndInv
  <2>10. wpc \notin {"end", "again", "total", "printed"}
    BY <2>8 DEF EndInv
  <2>11. EndInv'
    BY <1>0, <1>1, <2>1, <2>4, <2>5, <2>6, <2>7, <2>8, <2>9, <2>10 DEF EndInv
  <2> QED
    BY <2>3, <2>11
<1>7. CASE WgDone \/ CloseReady
  <2>1. /\ UNCHANGED <<rerr, off, data, ready, quit, errs, wpc, wbuf, woff>>
        /\ (rpc = "return" /\ rpc' = "done" /\ UNCHANGED readyClosed) \/ (rpc = "done" /\ rpc' = "gone")
    BY <1>7 DEF WgDone, CloseReady, channels, writer
  <2>2. FlowInv'
    BY <1>0, <1>2, <2>1, FlowSame
  <2>3. SkipTo' = SkipTo
    BY <1>0, <2>1, SectionSame
  <2>4. EndInv'
    BY <1>0, <1>1, <2>1, <2>3 DEF EndInv
  <2> QED
    BY <2>2, <2>4
<1> QED
  BY <1>3, <1>4, <1>5, <1>6, <1>7 DEF Reader

\* What the steps of the main goroutine other than Receive, WriteBlock and Put
\* leave alone.
LEMMA MainLeaves ==
    ASSUME Start \/ RangeEnds \/ CloseQuit \/ Return \/ End \/ Exit
    PROVE  /\ UNCHANGED <<opt, len, rpc, rbuf, rerr, off, data, ready, readyClosed, errs>>
           /\ UNCHANGED <<wbuf, woff, werr, out, bytesWritten>>
           /\ wpc # "write" /\ wpc' # "write"
<1>1. CASE Start
  BY <1>1 DEF Start, reader, channels
<1>2. CASE RangeEnds
  BY <1>2 DEF RangeEnds, reader, channels
<1>3. CASE CloseQuit
  BY <1>3 DEF CloseQuit, reader
<1>4. CASE Return
  BY <1>4 DEF Return, reader, channels
<1>5. CASE End
  BY <1>5 DEF End, reader, channels
<1>6. CASE Exit
  BY <1>6 DEF Exit, reader, channels
<1> QED
  BY <1>1, <1>2, <1>3, <1>4, <1>5, <1>6

\* The main goroutine keeps FlowInv and EndInv.
LEMMA FlowMain ==
    ASSUME DdTypeOK, OwnInv, FlowInv, EndInv, Main
    PROVE  FlowInv' /\ EndInv'
<1>0. bytesWritten \in Nat /\ woff \in Nat /\ Len(out) \in Nat /\ ready \in Seq(Bufs)
  BY FlowTypes DEF DdTypeOK
<1>1. CASE Start \/ RangeEnds \/ CloseQuit \/ Return \/ End \/ Exit
  <2>1. /\ UNCHANGED <<opt, len, rpc, rbuf, rerr, off, data, ready, readyClosed, errs>>
        /\ UNCHANGED <<wbuf, woff, werr, out, bytesWritten>>
        /\ wpc # "write" /\ wpc' # "write"
    BY <1>1, MainLeaves
  <2>2. ReadLimit' = ReadLimit /\ SkipTo' = SkipTo
    BY <2>1, SectionSame
  <2>3. FlowInv'
    <3>1. wpc = "start" => Len(ready) = 0
      BY <1>0, EmptySeq DEF EndInv
    <3> QED
      BY <2>1, <3>1, FlowSame
  <2>4. CASE Start
    <3>1. wpc = "start" /\ UNCHANGED quit /\ wpc' \in {"exit", "range"} /\ result' \in {"size", result} /\ ~quit /\ ~werr
      BY <2>4 DEF Start, channels, EndInv
    <3>2. result \notin {"nil", "read", "write"}
      BY <3>1 DEF EndInv
    <3> QED
      BY <2>1, <2>2, <2>3, <3>1, <3>2 DEF EndInv
  <2>5. CASE RangeEnds
    <3>1. wpc = "range" /\ UNCHANGED <<quit, result>> /\ wpc' = "close" /\ ready = <<>> /\ readyClosed /\ ~quit
      BY <2>5 DEF RangeEnds, channels, EndInv
    <3>2. result \notin {"nil", "read", "write"}
      BY <3>1 DEF EndInv
    <3> QED
      BY <2>1, <2>2, <2>3, <3>1, <3>2 DEF EndInv
  <2>6. CASE CloseQuit
    <3>1. wpc = "close" /\ UNCHANGED result /\ wpc' = "wait" /\ quit'
      BY <2>6 DEF CloseQuit
    <3>2. result \notin {"nil", "read", "write"}
      BY <3>1 DEF EndInv
    <3>3. rpc \in {"return", "done", "gone"} => errs = "full" \/ rerr = "eof" \/ werr
      BY DEF EndInv
    <3> QED
      BY <2>1, <2>2, <2>3, <3>1, <3>2, <3>3 DEF EndInv
  <2>7. CASE Return
    <3>1. /\ wpc = "wait" /\ UNCHANGED quit /\ rpc \in {"done", "gone"}
          /\ result' = IF errs = "full" THEN "read" ELSE IF werr THEN "write" ELSE "nil"
          /\ wpc' = IF result' = "nil" THEN "end" ELSE "exit"
      BY <2>7 DEF Return, channels
    <3>2. result' = "nil" => errs = "empty" /\ ~werr
      BY <3>1 DEF DdTypeOK
    <3>3. wpc' \in {"end", "exit"} /\ (wpc' = "end" => result' = "nil") /\ (werr \/ (rpc = "gone" /\ ready = <<>>))
      BY <3>1 DEF EndInv
    <3> QED
      BY <2>1, <2>2, <2>3, <3>1, <3>2, <3>3 DEF EndInv
  <2>8. CASE End \/ Exit
    <3>1. /\ wpc \in {"end", "again", "total", "printed"} /\ wpc' \in {"again", "total", "printed", "exit"}
          /\ UNCHANGED <<quit, result>>
      BY <2>8 DEF End, Exit, channels
    <3>2. result = "nil"
      BY <3>1 DEF EndInv
    <3> QED
      BY <2>1, <2>2, <2>3, <3>1, <3>2 DEF EndInv
  <2> QED
    BY <1>1, <2>4, <2>5, <2>6, <2>7, <2>8
<1>2. CASE Receive
  <2>1. /\ UNCHANGED <<opt, len, rpc, rerr, off, readyClosed, quit, errs, werr, result, out, bytesWritten>>
        /\ wpc = "range" /\ wpc' = "write" /\ woff' = 0
    BY <1>2 DEF Receive, reader
  <2>2. ~werr /\ ~quit /\ result \notin {"nil", "read", "write"} /\ bytesWritten = Len(out)
    BY <2>1 DEF EndInv
  <2>3. ReadLimit' = ReadLimit /\ SkipTo' = SkipTo
    BY <2>1, SectionSame
  <2>4. bytesWritten' + woff' = Len(out')
    BY <1>0, <2>1, <2>2
  <2>5. EndInv'
    BY <2>1, <2>2, <2>3, <2>4 DEF EndInv
  <2> QED
    BY <1>2, <2>2, <2>5, FlowReceive
<1>3. CASE WriteBlock
  <2>1. /\ UNCHANGED <<opt, len, rpc, rerr, off, ready, readyClosed, quit, errs, result, bytesWritten>>
        /\ wpc = "write"
    BY <1>3 DEF WriteBlock, reader, channels
  <2>2. PICK n \in Nat : /\ woff' = woff + n /\ Len(out') = Len(out) + n
                         /\ (wpc' = "write" /\ werr' = werr) \/ (wpc' = "close" /\ werr' = TRUE)
    BY <1>3, WriteEffect
  <2>3. ~werr /\ ~quit /\ result \notin {"nil", "read", "write"} /\ bytesWritten + woff = Len(out)
    BY <2>1 DEF EndInv
  <2>4. ReadLimit' = ReadLimit /\ SkipTo' = SkipTo
    BY <2>1, SectionSame
  <2>5. bytesWritten' + woff' = Len(out')
    BY <1>0, <2>1, <2>2, <2>3
  <2>6. EndInv'
    BY <2>1, <2>2, <2>3, <2>4, <2>5 DEF EndInv
  <2> QED
    BY <1>3, <2>6, FlowWrite
<1>4. CASE Put
  <2>1. /\ UNCHANGED <<opt, len, rpc, rerr, off, ready, readyClosed, quit, errs, werr, result, out>>
        /\ wpc = "write" /\ wpc' = "range" /\ bytesWritten' = bytesWritten + woff
    BY <1>4 DEF Put, reader
  <2>2. ~werr /\ ~quit /\ result \notin {"nil", "read", "write"} /\ bytesWritten + woff = Len(out)
    BY <2>1 DEF EndInv
  <2>3. ReadLimit' = ReadLimit /\ SkipTo' = SkipTo
    BY <2>1, SectionSame
  <2>4. EndInv'
    BY <2>1, <2>2, <2>3 DEF EndInv
  <2> QED
    BY <1>4, <2>4, FlowPut
<1> QED
  BY <1>1, <1>2, <1>3, <1>4 DEF Main

\* FlowInv and EndInv hold when the two goroutines begin.
LEMMA FlowInit == Init => FlowInv /\ EndInv
<1> SUFFICES ASSUME Init PROVE FlowInv /\ EndInv
  OBVIOUS
<1>1. DdTypeOK
  BY DdTypeInit
<1>2. /\ ready = <<>> /\ out = <<>> /\ wpc = "start" /\ rpc = "select" /\ ~werr /\ bytesWritten = 0
      /\ data = [b \in Bufs |-> <<>>] /\ off = IF opt.named THEN Base ELSE 0
  BY DEF Init
<1>3. Len(ready) = 0 /\ Len(out) = 0 /\ \A b \in Bufs : Len(data[b]) = 0
  BY <1>2, EmptySeq
<1>4. SkipTo = Base /\ Base \in Nat
  BY <1>1, <1>2, SkipToNat DEF SkipTo
<1>5. Reached(Len(ready)) = SkipTo
  BY <1>2, <1>3, <1>4 DEF Reached, Written
<1>6. FlowInv
  BY <1>2, <1>3, <1>4, <1>5 DEF FlowInv, InOrder
<1>7. EndInv
  BY <1>2, <1>3 DEF EndInv, Init
<1> QED
  BY <1>6, <1>7

\* The bytes in flight are consecutive and the goroutines end in the order that
\* wg and the channels impose, in every state of dd.
THEOREM FlowInvariance == Spec => [](FlowInv /\ EndInv)
<1>1. DdTypeOK /\ OwnInv /\ FlowInv /\ EndInv /\ [Next]_vars => FlowInv' /\ EndInv'
  <2> SUFFICES ASSUME DdTypeOK, OwnInv, FlowInv, EndInv, [Next]_vars PROVE FlowInv' /\ EndInv'
    OBVIOUS
  <2>1. CASE Tick \/ Show \/ Quit \/ UNCHANGED vars
    <3>1. /\ UNCHANGED <<opt, len, rpc, rbuf, rerr, off, data, ready, readyClosed, quit, errs>>
          /\ UNCHANGED <<wpc, wbuf, woff, werr, result, out, bytesWritten>>
      BY <2>1 DEF Tick, Show, Quit, vars, reader, channels, writer
    <3>2. ReadLimit' = ReadLimit /\ SkipTo' = SkipTo
      BY <3>1, SectionSame
    <3>3. wpc = "start" => Len(ready) = 0
      BY EmptySeq DEF EndInv
    <3>4. FlowInv'
      BY <3>1, <3>3, FlowSame
    <3>5. EndInv'
      BY <3>1, <3>2 DEF EndInv
    <3> QED
      BY <3>4, <3>5
  <2> QED
    BY <2>1, FlowReader, FlowMain DEF Next
<1> QED
  BY <1>1, FlowInit, DdTypes, OwnInvariance, PTL DEF Spec

-----------------------------------------------------------------------------
(***************************************************************************)
(* What dd promises.                                                       *)
(***************************************************************************)

\* The section that inFile gives to the copy is what -skip and -count ask for, also
\* where the end of the section overflows and newStreamSectionReader replaces it.
LEMMA SectionIsWanted ==
    ASSUME ProductsFit, opt \in Options, len \in Lengths
    PROVE  Wanted = {k \in 1..len : k > Base /\ k <= ReadLimit}
<1>1. /\ opt.ibs \in Nat /\ opt.skip \in Nat /\ opt.count \in Nat /\ len \in Nat /\ len <= MaxInt
      /\ MaxInt \in Nat /\ Base \in Nat /\ MaxRead \in Nat /\ Base = opt.ibs * opt.skip
  BY ConstFacts DEF Base
<1>2. Base <= MaxInt /\ MaxRead <= MaxInt
  <2>1. opt.ibs * opt.skip <= MaxInt /\ (opt.count # MaxInt => opt.count * opt.ibs <= MaxInt)
    BY DEF ProductsFit
  <2> QED
    BY <1>1, <2>1 DEF MaxRead
<1>3. ReadLimit = IF Base + MaxRead > MaxInt THEN MaxInt ELSE Base + MaxRead
  BY <1>1, <1>2 DEF ReadLimit, Wrap
<1>4. CASE opt.count = MaxInt
  <2>1. ReadLimit = MaxInt
    BY <1>1, <1>3, <1>4 DEF MaxRead
  <2>2. \A k \in 1..len : k <= ReadLimit
    BY <1>1, <2>1
  <2> QED
    BY <1>1, <1>4, <2>2 DEF Wanted
<1>5. CASE opt.count # MaxInt
  <2>1. opt.ibs * (opt.skip + opt.count) = Base + MaxRead
    <3>1. MaxRead = opt.count * opt.ibs
      BY <1>5 DEF MaxRead
    <3>2. \A a, b, c \in Nat : a * (b + c) = a * b + c * a
      OBVIOUS
    <3> QED
      BY <1>1, <3>1, <3>2
  <2>2. \A k \in 1..len : k <= Base + MaxRead <=> k <= ReadLimit
    BY <1>1, <1>3
  <2> QED
    BY <1>1, <1>5, <2>1, <2>2 DEF Wanted
<1> QED
  BY <1>4, <1>5

\* Whatever the two goroutines do, the output is the beginning of what -skip and
\* -count ask for: no byte is lost, repeated, or overwritten in a buffer that the
\* pool gives out again.
THEOREM WritesAPrefix ==
    ASSUME ProductsFit
    PROVE  Spec => []OutputIsPrefix
<1>1. DdTypeOK /\ FlowInv => OutputIsPrefix
  <2> SUFFICES ASSUME DdTypeOK, FlowInv, NEW k \in DOMAIN out
               PROVE  out[k] = Base + k /\ out[k] \in Wanted
    BY DEF OutputIsPrefix
  <2>1. k \in 1..Len(out) /\ Len(out) \in Nat
    BY LenProperties DEF DdTypeOK
  <2>2. out[k] = Base + k /\ out[k] <= SkipTo
    BY <2>1 DEF FlowInv
  <2>3. SkipTo \in Nat /\ Base \in Nat /\ len \in Nat /\ ReadLimit \in Int
    BY FlowTypes
  <2>4. SkipTo <= len /\ SkipTo <= ReadLimit
    BY <2>1, <2>2, <2>3 DEF FlowInv
  <2>5. out[k] \in 1..len /\ out[k] > Base /\ out[k] <= ReadLimit
    BY <2>1, <2>2, <2>3, <2>4
  <2> QED
    BY <2>2, <2>5, SectionIsWanted DEF DdTypeOK
<1> QED
  BY <1>1, DdTypes, FlowInvariance, PTL

\* parallelChunkedCopy: nil is returned only if all that was asked for is in the
\* output and counted, and whatever is returned the reader is past wg.Done.
THEOREM NilIsCopied ==
    ASSUME ProductsFit
    PROVE  Spec => []NilMeansCopied
<1>1. DdTypeOK /\ FlowInv /\ EndInv => NilMeansCopied
  <2> SUFFICES ASSUME DdTypeOK, FlowInv, EndInv PROVE NilMeansCopied
    OBVIOUS
  <2>1. result \in {"nil", "read", "write"} => rpc \in {"done", "gone"}
    BY DEF EndInv
  <2>2. ASSUME result = "nil" PROVE Range(out) = Wanted /\ bytesWritten = Len(out)
    <3>1. ~werr /\ errs = "empty" /\ rpc = "gone" /\ ready = <<>> /\ wpc # "write"
      BY <2>2 DEF EndInv
    <3>2. bytesWritten = Len(out) /\ rerr = "eof"
      BY <3>1 DEF EndInv
    <3>3. SkipTo \in Nat /\ Base \in Nat /\ len \in Nat /\ ReadLimit \in Int /\ Len(out) \in Nat
      BY FlowTypes
    <3>4. SkipTo >= len \/ SkipTo >= ReadLimit
      BY <3>2 DEF EndInv
    <3>5. SkipTo = Base + Len(out)
      <4>1. Len(ready) = 0
        BY <3>1, EmptySeq
      <4> QED
        BY <3>1, <4>1 DEF FlowInv, InOrder, Reached, Written
    <3>6. SkipTo = Base \/ (SkipTo <= len /\ SkipTo <= ReadLimit)
      BY DEF FlowInv
    <3>7. \A x : x \in Range(out) <=> \E k \in 1..Len(out) : x = Base + k
      <4>1. DOMAIN out = 1..Len(out)
        BY LenProperties DEF DdTypeOK
      <4> QED
        BY <4>1 DEF FlowInv, Range
    <3>8. ASSUME NEW x \in Range(out) PROVE x \in Wanted
      <4>1. PICK k \in 1..Len(out) : x = Base + k
        BY <3>7
      <4>2. x \in 1..len /\ x > Base /\ x <= ReadLimit
        BY <3>3, <3>5, <3>6, <4>1
      <4> QED
        BY <4>2, SectionIsWanted DEF DdTypeOK
    <3>9. ASSUME NEW x \in Wanted PROVE x \in Range(out)
      <4>1. x \in 1..len /\ x > Base /\ x <= ReadLimit
        BY SectionIsWanted DEF DdTypeOK
      <4>2. x - Base \in 1..Len(out) /\ x = Base + (x - Base)
        BY <3>3, <3>4, <3>5, <4>1
      <4> QED
        BY <3>7, <4>2
    <3> QED
      BY <3>2, <3>8, <3>9
  <2> QED
    BY <2>1, <2>2 DEF NilMeansCopied
<1> QED
  BY <1>1, DdTypes, FlowInvariance, PTL

\* The goroutine of pkg/progress and End keep ShowInv: the second quit is taken into
\* the channel only when the first one was received, and then nothing is printed.
LEMMA ShowStep ==
    ASSUME DdTypeOK, EndInv, ShowInv, [Next]_vars
    PROVE  ShowInv'
<1>1. CASE Reader
  <2>1. /\ UNCHANGED <<opt, ppc, pquit, screen, bytesWritten, result>>
        /\ wpc' = wpc \/ (wpc = "range" /\ wpc' = "write")
    BY <1>1 DEF Reader, Select, Read, Send, AfterRead, WgDone, CloseReady, writer, printer
  <2> QED
    BY <2>1 DEF ShowInv
<1>2. CASE Start \/ Receive \/ RangeEnds \/ CloseQuit
  <2>1. /\ UNCHANGED <<opt, ppc, pquit, screen, bytesWritten>> /\ result' # "nil"
        /\ wpc' \in {"exit", "range", "write", "close", "wait"}
    BY <1>2 DEF Start, Receive, RangeEnds, CloseQuit, printer, EndInv
  <2> QED
    BY <2>1 DEF ShowInv
<1>3. CASE WriteBlock \/ Put
  <2>1. /\ UNCHANGED <<opt, ppc, pquit, screen>> /\ wpc' \in {"write", "range", "close"}
    BY <1>3 DEF WriteBlock, Put, printer
  <2> QED
    BY <2>1 DEF ShowInv
<1>4. CASE Return
  <2>1. /\ UNCHANGED <<opt, ppc, pquit, screen, bytesWritten>>
        /\ wpc' = "end" \/ (wpc' = "exit" /\ result' # "nil")
    BY <1>4 DEF Return, printer
  <2> QED
    BY <2>1 DEF ShowInv
<1>5. CASE End
  <2>1. UNCHANGED <<opt, bytesWritten, ppc>>
    BY <1>5 DEF End
  <2>2. CASE wpc = "end" /\ opt.progress /\ pquit' = 1 /\ wpc' = "again" /\ UNCHANGED screen
    BY <2>1, <2>2 DEF ShowInv
  <2>3. CASE wpc = "again" /\ pquit = 0 /\ pquit' = 1 /\ wpc' = "total" /\ UNCHANGED screen
    BY <2>1, <2>3 DEF ShowInv
  <2>4. CASE wpc = "end" /\ ~opt.progress /\ wpc' = "total" /\ UNCHANGED <<pquit, screen>>
    BY <2>1, <2>4 DEF ShowInv
  <2>5. CASE wpc = "total" /\ screen' = bytesWritten /\ wpc' = "printed" /\ UNCHANGED pquit
    BY <2>1, <2>5 DEF ShowInv
  <2> QED
    BY <1>5, <2>2, <2>3, <2>4, <2>5 DEF End
<1>6. CASE Exit
  <2>1. UNCHANGED <<opt, ppc, pquit, screen, bytesWritten>> /\ wpc = "printed" /\ wpc' = "exit"
    BY <1>6 DEF Exit, printer
  <2> QED
    BY <2>1 DEF ShowInv
<1>7. CASE Tick \/ Show \/ Quit
  <2>1. UNCHANGED <<opt, wpc, result, bytesWritten>> /\ wpc # "exit"
    BY <1>7 DEF Tick, Show, Quit, writer
  <2>2. CASE Tick
    BY <2>1, <2>2 DEF Tick, ShowInv
  <2>3. CASE Show
    BY <2>1, <2>3 DEF Show, ShowInv
  <2>4. CASE Quit
    BY <2>1, <2>4 DEF Quit, ShowInv
  <2> QED
    BY <1>7, <2>2, <2>3, <2>4
<1>8. CASE UNCHANGED vars
  BY <1>8 DEF ShowInv, vars, writer, printer
<1> QED
  BY <1>1, <1>2, <1>3, <1>4, <1>5, <1>6, <1>7, <1>8 DEF Next, Main

\* "Once at the end so the final value is accurate": what dd leaves on the screen when
\* it ends well is the number of bytes in the output.
THEOREM ShowsTheTotal == Spec => []FinalValueIsAccurate
<1>1. Init => ShowInv
  <2> SUFFICES ASSUME Init PROVE ShowInv
    OBVIOUS
  <2>1. /\ wpc = "start" /\ ppc = IF opt.progress THEN "select" ELSE "none"
    BY DEF Init
  <2> QED
    BY <2>1 DEF ShowInv
<1>2. DdTypeOK /\ EndInv /\ ShowInv /\ [Next]_vars => ShowInv'
  BY ShowStep
<1>3. EndInv /\ ShowInv => FinalValueIsAccurate
  BY DEF EndInv, ShowInv, FinalValueIsAccurate
<1> QED
  BY <1>1, <1>2, <1>3, DdTypes, FlowInvariance, PTL DEF Spec

=============================================================================
