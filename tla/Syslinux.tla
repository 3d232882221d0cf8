------------------------------ MODULE Syslinux ------------------------------
(***************************************************************************)
(* pkg/boot/syslinux: ParseConfigFile and the parser that it drives.       *)
(*                                                                         *)
(* The configuration is read line by line; which line comes next is open,  *)
(* so that every configuration of at most MaxLines lines is parsed, with   *)
(* files that include others and with files that cannot be found.  What    *)
(* the lines say is kept in text, to compare it with what the parser made  *)
(* of it.                                                                  *)
(***************************************************************************)
EXTENDS Integers, Sequences, SequencesExt

CONSTANTS
    Labels,    \* the labels in the configuration
    Appends,   \* the arguments of APPEND
    MaxLines,  \* the length of the configuration
    MaxDepth   \* how deep files are included

Empty == ""   \* the empty string: no entry, no argument, no command line

\* A kernel command line may name an initrd: one that can be fetched later, one
\* with a scheme that is not known, or nothing at all ("initrd" without "=").
Fetchable == {"i1", "i2"}
Cmdlines == {Empty, "plain", "noscheme", "bare"} \cup Fetchable
Entries == Labels \cup {Empty}    \* c.curEntry is "" before the first label

ASSUME SyslinuxAssumption ==
    /\ Empty \notin Labels
    /\ Appends \subseteq (Cmdlines \ {Empty}) \cup {"-", "---"}
    /\ MaxLines \in Nat /\ MaxDepth \in Nat

VARIABLES
    linux, mb,                  \* linuxEntries and mbEntries: the entries that exist
    labelOrder,
    defaultEntry, nerfDefaultEntry,
    globalAppend, scope, curEntry,
    depth,                      \* the number of files being parsed
    status,                     \* "parsing", or how ParseConfigFile ended
    ranked,                     \* how many labels ParseConfigFile has ranked
    images,                     \* what it returns
    text,                       \* the lines that were parsed
    included                    \* has a file been included to its end?

parser == <<linux, mb, labelOrder, defaultEntry, nerfDefaultEntry, globalAppend, scope, curEntry>>
vars == <<parser, depth, status, ranked, images, text, included>>

NoEntry == [exists |-> FALSE]
LinuxEntry(cmdline) == [exists |-> TRUE, cmdline |-> cmdline, kernel |-> FALSE, initrd |-> "nil", dtb |-> FALSE]
MbEntry == [exists |-> TRUE, cmdline |-> Empty, kernel |-> FALSE]

Init ==
    /\ linux = [l \in Entries |-> NoEntry] /\ mb = [l \in Entries |-> NoEntry]
    /\ labelOrder = <<>> /\ defaultEntry = Empty /\ nerfDefaultEntry = Empty
    /\ globalAppend = Empty /\ scope = "global" /\ curEntry = Empty
    /\ depth = 1 /\ status = "parsing" /\ ranked = 0 /\ images = <<>> /\ text = <<>> /\ included = FALSE

Parsing == status = "parsing" /\ depth > 0
Line(op, arg) == Parsing /\ Len(text) < MaxLines /\ text' = Append(text, <<op, arg>>)
e == linux[curEntry]

-----------------------------------------------------------------------------
(***************************************************************************)
(* The directives.                                                         *)
(***************************************************************************)

Default(l) ==
    /\ Line("default", l) /\ defaultEntry' = l
    /\ UNCHANGED <<linux, mb, labelOrder, nerfDefaultEntry, globalAppend, scope, curEntry, depth, status, ranked, images, included>>

NerfDefault(l) ==
    /\ Line("nerfdefault", l) /\ nerfDefaultEntry' = l
    /\ UNCHANGED <<linux, mb, labelOrder, defaultEntry, globalAppend, scope, curEntry, depth, status, ranked, images, included>>

MenuDefault ==
    /\ Line("menudefault", Empty)
    /\ defaultEntry' = IF scope = "entry" THEN curEntry ELSE defaultEntry
    /\ UNCHANGED <<linux, mb, labelOrder, nerfDefaultEntry, globalAppend, scope, curEntry, depth, status, ranked, images, included>>

\* INCLUDE of a file that is there; one that is not there is ignored.
Include ==
    /\ depth < MaxDepth /\ Line("include", Empty) /\ depth' = depth + 1
    /\ UNCHANGED <<parser, status, ranked, images, included>>

IncludeMissing ==
    /\ Line("missing", Empty)
    /\ UNCHANGED <<parser, depth, status, ranked, images, included>>

Label(l) ==
    /\ Line("label", l)
    /\ scope' = "entry" /\ curEntry' = l
    /\ linux' = [linux EXCEPT ![l] = LinuxEntry(globalAppend)]
    /\ labelOrder' = Append(labelOrder, l)
    /\ UNCHANGED <<mb, defaultEntry, nerfDefaultEntry, globalAppend, depth, status, ranked, images, included>>

\* KERNEL mboot.c32
Mboot ==
    /\ Line("mboot", Empty)
    /\ linux' = [linux EXCEPT ![curEntry] = NoEntry]
    /\ mb' = [mb EXCEPT ![curEntry] = MbEntry]
    /\ UNCHANGED <<labelOrder, defaultEntry, nerfDefaultEntry, globalAppend, scope, curEntry, depth, status, ranked, images, included>>

\* KERNEL and LINUX, FDT, INITRD with a file of the current entry.
SetFile(op, entry) ==
    /\ Line(op, Empty)
    /\ linux' = IF e.exists THEN [linux EXCEPT ![curEntry] = entry] ELSE linux
    /\ UNCHANGED <<mb, labelOrder, defaultEntry, nerfDefaultEntry, globalAppend, scope, curEntry, depth, status, ranked, images, included>>

Kernel == SetFile("kernel", [e EXCEPT !.kernel = TRUE])
Fdt == SetFile("fdt", [e EXCEPT !.dtb = TRUE])
Initrd == SetFile("initrd", [e EXCEPT !.initrd = "directive"])

\* Mutant: a second APPEND is ignored.
Overridden_First(entry, arg) == IF entry.cmdline = Empty THEN arg ELSE entry.cmdline

\* "we explicitly _override_, not concatenate"
Overridden(entry, arg) == IF arg = "-" THEN Empty ELSE arg

\* APPEND.  In a multiboot entry it holds the kernel and the modules: without a
\* kernel the parser panics, and a file with a bad URL ends it (FileFails).
AppendLine(arg) ==
    /\ Line("append", arg)
    /\ globalAppend' = IF scope = "global" THEN arg ELSE globalAppend
    /\ scope = "entry" /\ mb[curEntry].exists => arg # "---"
    /\ mb' = IF scope = "entry" /\ mb[curEntry].exists
             THEN [mb EXCEPT ![curEntry].kernel = TRUE, ![curEntry].cmdline = arg] ELSE mb
    /\ linux' = IF scope = "entry" /\ e.exists
                THEN [linux EXCEPT ![curEntry].cmdline = Overridden(e, arg)] ELSE linux
    /\ UNCHANGED <<labelOrder, defaultEntry, nerfDefaultEntry, scope, curEntry, depth, status, ranked, images, included>>

\* An index out of range.
AppendPanics ==
    /\ Parsing /\ Len(text) < MaxLines
    /\ scope = "entry" /\ mb[curEntry].exists /\ "---" \in Appends
    /\ status' = "panic"
    /\ UNCHANGED <<parser, depth, ranked, images, text, included>>

-----------------------------------------------------------------------------
(***************************************************************************)
(* The end of a file, and errors.                                          *)
(***************************************************************************)

\* An error in a file that is included ends that file only if it is about a URL:
\* it is taken for a file that was not found.
Returns(err) ==
    IF depth > 1 /\ err = "url"
    THEN depth' = depth - 1 /\ UNCHANGED status
    ELSE depth' = 0 /\ status' = err

\* getFile fails: a URL with an unknown scheme, or one that cannot be parsed.  The
\* kernel of a multiboot entry is set if it was a module.
FileFails ==
    /\ Parsing /\ Len(text) < MaxLines
    /\ \/ e.exists /\ UNCHANGED mb
       \/ /\ scope = "entry" /\ mb[curEntry].exists
          /\ mb' \in {mb, [mb EXCEPT ![curEntry].kernel = TRUE]}
    /\ \E err \in {"url", "other"} : Returns(err)
    /\ UNCHANGED <<linux, labelOrder, defaultEntry, nerfDefaultEntry, globalAppend, scope, curEntry, ranked, images, text, included>>

\* INCLUDE of a URL that cannot be parsed, or of a file that cannot be read to its
\* end.  No entry is needed for that, and the error is not taken for a missing file.
IncludeFails ==
    /\ Parsing /\ Len(text) < MaxLines
    /\ Returns("other")
    /\ UNCHANGED <<parser, ranked, images, text, included>>

\* The entries without an initrd whose command line asks for one.
Asking == {l \in Entries : linux[l].exists /\ linux[l].initrd = "nil"
                             /\ linux[l].cmdline \in Fetchable \cup {"noscheme", "bare"}}

\* Mutant: the initrd of the last label only.
EndOfFile_LastLabel ==
    /\ Parsing /\ \A l \in Asking : linux[l].cmdline \in Fetchable
    /\ linux' = [l \in Entries |-> IF l \in Asking /\ l = curEntry
                                   THEN [linux[l] EXCEPT !.initrd = linux[l].cmdline] ELSE linux[l]]
    /\ depth' = depth - 1 /\ included' = (included \/ depth > 1)
    /\ UNCHANGED <<mb, labelOrder, defaultEntry, nerfDefaultEntry, globalAppend, scope, curEntry, status, ranked, images, text>>

\* The loop at the end of append, which is that of each included file, too.
EndOfFile ==
    /\ Parsing /\ \A l \in Asking : linux[l].cmdline \in Fetchable
    /\ linux' = [l \in Entries |-> IF l \in Asking
                                   THEN [linux[l] EXCEPT !.initrd = linux[l].cmdline] ELSE linux[l]]
    /\ depth' = depth - 1 /\ included' = (included \/ depth > 1)
    /\ UNCHANGED <<mb, labelOrder, defaultEntry, nerfDefaultEntry, globalAppend, scope, curEntry, status, ranked, images, text>>

\* The loop meets an initrd that cannot be had, after some of the others: the
\* order of a map is random.
EndOfFileFails ==
    /\ Parsing
    /\ \E l \in Asking : \E done \in SUBSET (Asking \ {l}) :
         /\ linux[l].cmdline \in {"noscheme", "bare"}
         /\ \A k \in done : linux[k].cmdline \in Fetchable
         /\ linux' = [k \in Entries |-> IF k \in done
                                        THEN [linux[k] EXCEPT !.initrd = linux[k].cmdline] ELSE linux[k]]
         /\ IF linux[l].cmdline = "noscheme" THEN Returns("url") ELSE status' = "panic" /\ UNCHANGED depth
    /\ included' = (included \/ depth > 1)
    /\ UNCHANGED <<mb, labelOrder, defaultEntry, nerfDefaultEntry, globalAppend, scope, curEntry, ranked, images, text>>

\* Mutant: the default entry is put last.
Order_DefaultLast ==
    (IF nerfDefaultEntry # Empty THEN <<nerfDefaultEntry>> ELSE <<>>) \o labelOrder
      \o (IF defaultEntry # Empty THEN <<defaultEntry>> ELSE <<>>)

\* "Intended order": the default entries, then the labels as they came.
Order ==
    (IF nerfDefaultEntry # Empty THEN <<nerfDefaultEntry>> ELSE <<>>)
      \o (IF defaultEntry # Empty THEN <<defaultEntry>> ELSE <<>>) \o labelOrder

\* dedupStrings: the k-th label has been seen.
Seen(k) == \E j \in 1..k - 1 : Order[j] = Order[k]

\* The images of one label.
ImagesOf(l) ==
    (IF linux[l].exists /\ linux[l].kernel THEN <<<<"linux", l>>>> ELSE <<>>)
      \o (IF mb[l].exists /\ mb[l].kernel THEN <<<<"multiboot", l>>>> ELSE <<>>)

\* ParseConfigFile after the parser: one turn of its loop for each label that has
\* not been seen.  A default that no label defines names no entry.
RankLabel ==
    /\ status = "parsing" /\ depth = 0 /\ ranked' = ranked + 1
    /\ \/ labelOrder = <<>> /\ status' = "ok" /\ UNCHANGED images
       \/ /\ labelOrder # <<>>
          /\ images' = IF Seen(ranked') THEN images ELSE images \o ImagesOf(Order[ranked'])
          /\ status' = IF ranked' = Len(Order) THEN "ok" ELSE status
    /\ UNCHANGED <<parser, depth, text, included>>

Next ==
    \/ \E l \in Labels : Default(l) \/ NerfDefault(l) \/ Label(l)
    \/ MenuDefault \/ Include \/ IncludeMissing \/ Mboot \/ Kernel \/ Fdt \/ Initrd
    \/ \E arg \in Appends : AppendLine(arg)
    \/ AppendPanics \/ FileFails \/ IncludeFails \/ EndOfFile \/ EndOfFileFails \/ RankLabel

Spec == Init /\ [][Next]_vars

-----------------------------------------------------------------------------
(***************************************************************************)
(* Properties.                                                             *)
(***************************************************************************)

\* What the text says of label l, without looking at the parser: its section is
\* what follows the last LABEL line with its name, up to the next LABEL line.
Is(k, op) == text[k][1] = op
Section(l) ==
    {k \in DOMAIN text :
        \E j \in 1..k - 1 : /\ text[j] = <<"label", l>>
                            /\ \A i \in j + 1..Len(text) : text[i] # <<"label", l>>
                            /\ \A i \in j + 1..k : ~Is(i, "label")}
Latest(S) == CHOOSE k \in S : \A j \in S : j <= k
Global == {k \in DOMAIN text : Is(k, "append") /\ \A j \in 1..k : ~Is(j, "label")}
Effective(l) ==
    LET own == {k \in Section(l) : Is(k, "append")}
    IN  IF own # {} THEN (IF text[Latest(own)][2] = "-" THEN Empty ELSE text[Latest(own)][2])
        ELSE IF Global # {} THEN text[Latest(Global)][2] ELSE Empty

\* "If a specific append directive is present, a global append directive is
\* ignored", and of several in a label only the last one is used, wherever files
\* are included (the case "append").
CmdlineIsLastAppend ==
    status = "ok" => \A l \in Labels : linux[l].exists => linux[l].cmdline = Effective(l)

InitrdOfCmdline(l) ==
    IF \E k \in Section(l) : Is(k, "initrd") THEN "directive"
    ELSE IF Effective(l) \in Fetchable THEN Effective(l) ELSE "nil"

\* The initrd of an entry is that of its INITRD line or of its command line, if
\* no file was included (append, the loop at its end).
InitrdFollowsCmdline ==
    status = "ok" /\ ~included => \A l \in Labels : linux[l].exists => linux[l].initrd = InitrdOfCmdline(l)

\* "only the last one will be used": also if files are included.
LastAppendWins ==
    status = "ok" => \A l \in Labels : linux[l].exists => linux[l].initrd = InitrdOfCmdline(l)

\* Where the text asks for a default entry, and for which.
NerfWishes == {k \in DOMAIN text : Is(k, "nerfdefault")}
Wishes == {k \in DOMAIN text : \/ Is(k, "default")
                               \/ Is(k, "menudefault") /\ \E j \in 1..k : Is(j, "label")}
Wish(k) == IF Is(k, "menudefault") THEN text[Latest({j \in 1..k : Is(j, "label")})][2] ELSE text[k][2]

Bootable(l) == linux[l].exists /\ linux[l].kernel
ComesFirst(l) == Bootable(l) => Head(images) = <<"linux", l>>

\* In s, x comes before the first y.
Precedes(s, x, y) == \E j \in DOMAIN s : s[j] = x /\ \A i \in 1..j : s[i] # y

\* "Intended order: 1. nerfDefaultEntry 2. defaultEntry 3. labels in order they
\* appeared in config": no image comes twice, every Linux entry with a kernel has
\* its image, what the last NERFDEFAULT asks for is the first, and what the last DEFAULT
\* or MENU DEFAULT asks for if there is none, and the others keep the order of the
\* text.
Ranked ==
    status = "ok" =>
        /\ IsInjective(images)
        /\ \A l \in Labels : Bootable(l) => Contains(images, <<"linux", l>>)
        /\ NerfWishes # {} => ComesFirst(text[Latest(NerfWishes)][2])
        /\ NerfWishes = {} /\ Wishes # {} => ComesFirst(Wish(Latest(Wishes)))
        /\ \A l, m \in Labels \ {nerfDefaultEntry, defaultEntry} :
              l # m /\ Bootable(l) /\ Precedes(text, <<"label", l>>, <<"label", m>>) =>
                  Precedes(images, <<"linux", l>>, <<"linux", m>>)

=============================================================================
