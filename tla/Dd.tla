--------------------------------- MODULE Dd ---------------------------------
(***************************************************************************)
(* cmds/core/dd: parallelChunkedCopy with its reading goroutine, the pool  *)
(* of buffers and the channels, the section of the input that is read, and *)
(* the goroutine of pkg/progress that shows how far the copy is.           *)
(*                                                                         *)
(* The main goroutine writes.  A byte of the input is known by its place.  *)
(* A buffer has an identity, since what is at stake is its reuse.          *)
(***************************************************************************)
EXTENDS Integers, Sequences, Functions

CONSTANTS
    MaxInt,     \* math.MaxInt64
    GiB,        \* how much data the channels may hold
    MaxDepth,   \* 8192
    OutChunk,   \* the output block size
    Lengths,    \* how long the input may be
    Options     \* the command lines

ASSUME DdAssumption ==
    /\ MaxInt \in Nat \ {0} /\ GiB \in Nat /\ MaxDepth \in Nat
    /\ OutChunk \in Nat \ {0}
    /\ Lengths \subseteq 0..MaxInt
    /\ Options \subseteq [named : BOOLEAN, ibs : 0..MaxInt, skip : 0..MaxInt, count : 0..MaxInt,
                          progress : BOOLEAN, readFails : BOOLEAN, writeFails : BOOLEAN]

VARIABLES
    opt, len,            \* the command line and the length of the input
    rpc, rbuf, rerr,     \* the reading goroutine, its buffer, and the error of its last read
    off,                 \* how far the input has been read
    data,                \* the bytes in each buffer
    ready, readyClosed,  \* the channel readyBufs
    pool,                \* the channel of the buffer pool
    quit, errs,          \* the channels quit (is it closed?) and errs
    wpc, wbuf, woff,     \* the main goroutine, its buffer, and how much of it is written
    werr, result,        \* writeErr, and what parallelChunkedCopy returns
    out, bytesWritten,   \* the output, and the counter for the progress
    ppc, pval, pquit,    \* the progress goroutine, what it prints, and how full its channel is
    screen               \* the number of bytes that was printed last

reader == <<rpc, rbuf, rerr, off>>
channels == <<data, ready, readyClosed, pool, quit, errs>>
writer == <<wpc, wbuf, woff, werr, result, out, bytesWritten>>
printer == <<ppc, pval, pquit, screen>>
vars == <<opt, len, reader, channels, writer, printer>>

Least(a, b) == IF a < b THEN a ELSE b
Wrap(x) == IF x > MaxInt THEN x - 2 * (MaxInt + 1) ELSE x

\* The capacity of readyBufs and of the pool.
Depth == Least(GiB \div opt.ibs, MaxDepth)
Bufs == 1..2 * MaxDepth + 2
NoBuf == 0

-----------------------------------------------------------------------------
(***************************************************************************)
(* The section of the input: inFile.                                       *)
(***************************************************************************)

Base == opt.ibs * opt.skip
MaxRead == IF opt.count = MaxInt THEN MaxInt ELSE opt.count * opt.ibs

\* newStreamSectionReader; io.NewSectionReader does the same.
ReadLimit == IF Wrap(Base + MaxRead) < 0 THEN MaxInt ELSE Wrap(Base + MaxRead)

Init ==
    /\ opt \in Options /\ len \in Lengths
    /\ rpc = "select" /\ rbuf = NoBuf /\ rerr = "nil"
    /\ off = IF opt.named THEN Base ELSE 0
    /\ data = [b \in Bufs |-> <<>>]
    /\ ready = <<>> /\ readyClosed = FALSE /\ pool = <<>>
    /\ quit = FALSE /\ errs = "empty"
    /\ wpc = "start" /\ wbuf = NoBuf /\ woff = 0 /\ werr = FALSE /\ result = "none"
    /\ out = <<>> /\ bytesWritten = 0
    /\ ppc = (IF opt.progress THEN "select" ELSE "none") /\ pval = 0 /\ pquit = 0 /\ screen = 0

\* parallelChunkedCopy refuses an input block size of zero.
Start ==
    /\ wpc = "start"
    /\ \/ opt.ibs = 0 /\ wpc' = "exit" /\ result' = "size"
       \/ opt.ibs # 0 /\ wpc' = "range" /\ UNCHANGED result
    /\ UNCHANGED <<opt, len, reader, channels, wbuf, woff, werr, out, bytesWritten, printer>>

Started == wpc \notin {"start", "exit"}

-----------------------------------------------------------------------------
(***************************************************************************)
(* The reading goroutine.                                                  *)
(***************************************************************************)

\* A new buffer: one that nobody has.
Fresh == {b \in Bufs : b # wbuf /\ b \notin Range(ready) /\ b \notin Range(pool)}

\* The select on quit, and bufferPool.Get.
Select ==
    /\ Started /\ rpc = "select"
    /\ \/ quit /\ rpc' = "return" /\ UNCHANGED <<rbuf, pool>>
       \/ /\ ~quit /\ rpc' = "read"
          /\ \/ pool # <<>> /\ rbuf' = Head(pool) /\ pool' = Tail(pool)
             \/ /\ pool = <<>> /\ UNCHANGED pool
                /\ rbuf' \in {b \in Fresh : \A c \in Fresh : b <= c}
    /\ UNCHANGED <<opt, len, rerr, off, data, ready, readyClosed, quit, errs, writer, printer>>

\* sectionReader.Read skips what comes before the section when it is first called.
Skips == ~opt.named /\ off = 0 /\ Base # 0
SkipTo == IF off = 0 THEN Base ELSE off

\* What n, err := r.Read may be with room for max bytes at p.  A named file is
\* read until the room is filled, a stream as far as there is something.  To skip
\* is to read, too: it may fail although there is no room.
Reads(p, max) ==
    LET left == IF p > len THEN 0 ELSE len - p
        n == Least(max, left)
    IN  (IF n = 0 THEN {<<0, "eof">>}
         ELSE IF opt.named THEN {<<n, IF n < max THEN "eof" ELSE "nil">>}
         ELSE {<<k, "nil">> : k \in 1..n})
          \cup {<<k, "error">> : k \in {k \in 0..n : /\ opt.readFails /\ (max > 0 \/ Skips)
                                                     /\ opt.named \/ k = 0}}

\* ReadFrom
Read ==
    /\ Started /\ rpc = "read"
    /\ LET p == SkipTo
           max == IF p >= ReadLimit THEN 0 ELSE Least(opt.ibs, ReadLimit - p)
       IN  \E rd \in Reads(p, max) :
             /\ data' = [data EXCEPT ![rbuf] = [k \in 1..rd[1] |-> p + k]]
             /\ off' = p + rd[1] /\ rerr' = rd[2]
             /\ rpc' = IF rd[1] > 0 THEN "send" ELSE "after"
    /\ UNCHANGED <<opt, len, rbuf, ready, readyClosed, pool, quit, errs, writer, printer>>

\* readyBufs <- buf.  Without a buffer in the channel the writer must be there.
Send ==
    /\ Started /\ rpc = "send" /\ rpc' = "after"
    /\ \/ /\ Len(ready) < Depth /\ ready' = Append(ready, rbuf)
          /\ UNCHANGED <<wpc, wbuf, woff>>
       \/ /\ Depth = 0 /\ wpc = "range"
          /\ wpc' = "write" /\ wbuf' = rbuf /\ woff' = 0
          /\ UNCHANGED ready
    /\ rbuf' = NoBuf
    /\ UNCHANGED <<opt, len, rerr, off, data, readyClosed, pool, quit, errs, werr, result, out, bytesWritten, printer>>

\* The end of the input, or an error, ends the loop.
AfterRead ==
    /\ Started /\ rpc = "after"
    /\ rpc' = IF rerr = "nil" THEN "select" ELSE "return"
    /\ errs' = IF rerr = "error" THEN "full" ELSE errs
    /\ rbuf' = NoBuf
    /\ UNCHANGED <<opt, len, rerr, off, data, ready, readyClosed, pool, quit, writer, printer>>

\* The deferred calls: wg.Done first, then close(readyBufs).
WgDone ==
    /\ Started /\ rpc = "return" /\ rpc' = "done"
    /\ UNCHANGED <<opt, len, rbuf, rerr, off, channels, writer, printer>>

\* Mutant: the goroutine returns without the deferred close.
CloseReady_Forgotten ==
    /\ Started /\ rpc = "done" /\ rpc' = "gone"
    /\ UNCHANGED <<opt, len, rbuf, rerr, off, channels, writer, printer>>

CloseReady ==
    /\ Started /\ rpc = "done" /\ rpc' = "gone" /\ readyClosed' = TRUE
    /\ UNCHANGED <<opt, len, rbuf, rerr, off, data, ready, pool, quit, errs, writer, printer>>

Reader == Select \/ Read \/ Send \/ AfterRead \/ WgDone \/ CloseReady

-----------------------------------------------------------------------------
(***************************************************************************)
(* The main goroutine.                                                     *)
(***************************************************************************)

\* Mutant: the buffer is given back before it is written.
Receive_PutsFirst ==
    /\ wpc = "range" /\ ready # <<>>
    /\ ready' = Tail(ready) /\ wbuf' = Head(ready) /\ woff' = 0 /\ wpc' = "write"
    /\ pool' = IF Len(pool) < Depth THEN Append(pool, Head(ready)) ELSE pool
    /\ UNCHANGED <<opt, len, reader, data, readyClosed, quit, errs, werr, result, out, bytesWritten, printer>>

\* for buf := range readyBufs
Receive ==
    /\ wpc = "range" /\ ready # <<>>
    /\ ready' = Tail(ready) /\ wbuf' = Head(ready) /\ woff' = 0 /\ wpc' = "write"
    /\ UNCHANGED <<opt, len, reader, data, readyClosed, pool, quit, errs, werr, result, out, bytesWritten, printer>>

RangeEnds ==
    /\ wpc = "range" /\ ready = <<>> /\ readyClosed
    /\ wpc' = "close"
    /\ UNCHANGED <<opt, len, reader, channels, wbuf, woff, werr, result, out, bytesWritten, printer>>

\* WriteTo: one round of its loop.  A write that fails may have written a part.
Block == SubSeq(data[wbuf], woff + 1, Least(woff + OutChunk, Len(data[wbuf])))

WriteBlock ==
    /\ wpc = "write" /\ woff < Len(data[wbuf])
    /\ \/ /\ out' = out \o Block /\ woff' = woff + Len(Block)
          /\ UNCHANGED <<wpc, werr>>
       \/ /\ opt.writeFails
          /\ \E n \in 0..Len(Block) - 1 : out' = out \o SubSeq(Block, 1, n) /\ woff' = woff + n
          /\ werr' = TRUE /\ wpc' = "close"
    /\ UNCHANGED <<opt, len, reader, channels, wbuf, result, bytesWritten, printer>>

\* The bytes are counted, and bufferPool.Put.
Put ==
    /\ wpc = "write" /\ woff >= Len(data[wbuf])
    /\ bytesWritten' = bytesWritten + woff
    /\ pool' = IF Len(pool) < Depth THEN Append(pool, wbuf) ELSE pool
    /\ wpc' = "range" /\ wbuf' = NoBuf
    /\ UNCHANGED <<opt, len, reader, data, ready, readyClosed, quit, errs, woff, werr, result, out, printer>>

CloseQuit ==
    /\ wpc = "close" /\ quit' = TRUE /\ wpc' = "wait"
    /\ UNCHANGED <<opt, len, reader, data, ready, readyClosed, pool, errs, wbuf, woff, werr, result, out, bytesWritten, printer>>

\* Mutant: nobody waits for the goroutine.
Return_NoWait ==
    /\ wpc = "wait"
    /\ result' = IF errs = "full" THEN "read" ELSE IF werr THEN "write" ELSE "nil"
    /\ wpc' = IF result' = "nil" THEN "end" ELSE "exit"
    /\ UNCHANGED <<opt, len, reader, channels, wbuf, woff, werr, out, bytesWritten, printer>>

\* wg.Wait, the result, and main, which exits if it is an error.
Return ==
    /\ wpc = "wait" /\ rpc \in {"done", "gone"}
    /\ result' = IF errs = "full" THEN "read" ELSE IF werr THEN "write" ELSE "nil"
    /\ wpc' = IF result' = "nil" THEN "end" ELSE "exit"
    /\ UNCHANGED <<opt, len, reader, channels, wbuf, woff, werr, out, bytesWritten, printer>>

-----------------------------------------------------------------------------
(***************************************************************************)
(* pkg/progress.                                                           *)
(***************************************************************************)

\* Mutant: quit is sent only once.
End_SendsOnce ==
    /\ wpc \in {"end", "total"}
    /\ \/ wpc = "end" /\ opt.progress /\ pquit = 0 /\ pquit' = 1 /\ wpc' = "total" /\ UNCHANGED screen
       \/ wpc = "end" /\ ~opt.progress /\ wpc' = "total" /\ UNCHANGED <<pquit, screen>>
       \/ wpc = "total" /\ screen' = bytesWritten /\ wpc' = "printed" /\ UNCHANGED pquit
    /\ UNCHANGED <<opt, len, reader, channels, wbuf, woff, werr, result, out, bytesWritten, ppc, pval>>

\* End sends quit twice on a channel with room for one, and prints the total.
End ==
    /\ wpc \in {"end", "again", "total"}
    /\ \/ wpc = "end" /\ opt.progress /\ pquit = 0 /\ pquit' = 1 /\ wpc' = "again" /\ UNCHANGED screen
       \/ wpc = "again" /\ pquit = 0 /\ pquit' = 1 /\ wpc' = "total" /\ UNCHANGED screen
       \/ wpc = "end" /\ ~opt.progress /\ wpc' = "total" /\ UNCHANGED <<pquit, screen>>
       \/ wpc = "total" /\ screen' = bytesWritten /\ wpc' = "printed" /\ UNCHANGED pquit
    /\ UNCHANGED <<opt, len, reader, channels, wbuf, woff, werr, result, out, bytesWritten, ppc, pval>>

\* The process ends, and its goroutines with it.
Exit ==
    /\ wpc = "printed" /\ wpc' = "exit"
    /\ UNCHANGED <<opt, len, reader, channels, wbuf, woff, werr, result, out, bytesWritten, printer>>

Main == Start \/ Receive \/ RangeEnds \/ WriteBlock \/ Put \/ CloseQuit \/ Return \/ End \/ Exit

\* The goroutine prints once a second: it reads the counter, then it writes.
Tick ==
    /\ wpc # "exit" /\ ppc = "select"
    /\ pval' = bytesWritten /\ ppc' = "print"
    /\ UNCHANGED <<opt, len, reader, channels, writer, pquit, screen>>

Show ==
    /\ wpc # "exit" /\ ppc = "print"
    /\ screen' = pval /\ ppc' = "select"
    /\ UNCHANGED <<opt, len, reader, channels, writer, pval, pquit>>

Quit ==
    /\ wpc # "exit" /\ ppc = "select" /\ pquit = 1
    /\ pquit' = 0 /\ ppc' = "gone"
    /\ UNCHANGED <<opt, len, reader, channels, writer, pval, screen>>

Next == Reader \/ Main \/ Tick \/ Show \/ Quit

Spec == Init /\ [][Next]_vars

\* Goroutines that can run do run.  A select in which a tick and quit are ready
\* again and again does not choose the tick for ever.
FairSpec ==
    /\ Spec
    /\ WF_vars(Reader) /\ WF_vars(Main)
    /\ WF_vars(Show) /\ SF_vars(Quit)

-----------------------------------------------------------------------------
(***************************************************************************)
(* Properties.                                                             *)
(***************************************************************************)

\* A buffer is in one place: with the reader, in a channel, or with the writer.
BuffersHaveOneOwner ==
    opt.ibs # 0 =>
        /\ IsInjective(ready) /\ IsInjective(pool) /\ Range(ready) \cap Range(pool) = {}
        /\ rbuf # NoBuf => rbuf \notin Range(ready) \cup Range(pool) \cup {wbuf}
        /\ wbuf \notin Range(ready) \cup Range(pool)

\* "-skip n: skip n ibs-sized input blocks", "-count n: copy only n ibs-sized
\* input blocks": the bytes that are to be copied.
Wanted == {k \in 1..len : k > opt.ibs * opt.skip /\ (opt.count = MaxInt \/ k <= opt.ibs * (opt.skip + opt.count))}

\* Whatever the goroutines do, the output is the beginning of what is to be
\* copied: no byte is lost, repeated or overwritten in a buffer that is used again.
OutputIsPrefix == \A k \in DOMAIN out : out[k] = Base + k /\ out[k] \in Wanted

\* parallelChunkedCopy returns nil only if everything was copied and counted, and
\* when it returns the goroutine no longer reads, nor uses the pool or errs.
NilMeansCopied ==
    /\ result = "nil" => Range(out) = Wanted /\ bytesWritten = Len(out)
    /\ result \in {"nil", "read", "write"} => rpc \in {"done", "gone"}

\* "Once at the end so the final value is accurate": what is left on the screen
\* when dd ends well is the grand total ("Properly synchronize goroutine").
FinalValueIsAccurate == wpc = "exit" /\ result = "nil" => screen = Len(out)

\* dd ends, unless the output fails while it writes.
CopyEnds == <>(wpc = "exit" \/ werr)

\* "This will force the goroutine to quit if an error occurred writing": also then.
AlwaysEnds == <>(wpc = "exit")

=============================================================================
