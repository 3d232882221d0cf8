--------------------------- MODULE SyslinuxProofs ---------------------------
(***************************************************************************)
(* Proofs about Syslinux: for any number of labels, lines and included     *)
(* files, what the parser leaves in an entry is what the text of the       *)
(* configuration says of its label.                                        *)
(*                                                                         *)
(* The properties look at the whole text when the parser is done.  The     *)
(* invariant says what the parser knows of the part it has read: where it  *)
(* is (CurInv), the last APPEND before all labels (GlobalInv), the last    *)
(* APPEND of each label (OwnInv), its INITRD (InitrdInv), the order of the *)
(* labels and the defaults asked for (RankInv).                            *)
(***************************************************************************)
EXTENDS Syslinux, SequenceTheorems, TLAPS

Ops == {"default", "nerfdefault", "menudefault", "include", "missing", "label",
        "mboot", "kernel", "fdt", "initrd", "append"}
Words == Labels \cup Appends \cup {Empty}

Entry == [exists : {TRUE}, cmdline : Appends \cup {Empty}, kernel : BOOLEAN,
          initrd : {"nil", "directive"} \cup Fetchable, dtb : BOOLEAN]

\* The state has its types.
SyslinuxTypeOK ==
    /\ linux \in [Entries -> {NoEntry} \cup Entry]
    /\ globalAppend \in Appends \cup {Empty} /\ scope \in {"global", "entry"} /\ curEntry \in Entries
    /\ depth \in Nat /\ status \in {"parsing", "ok", "panic", "url", "other"} /\ included \in BOOLEAN
    /\ text \in Seq(Ops \X Words)

\* c.scope and c.curEntry: the parser is before all labels, or in the section of the
\* last one.
CurInv ==
    /\ scope = "global" =>
          /\ \A k \in DOMAIN text : ~Is(k, "label")
          /\ \A l \in Labels : ~linux[l].exists
    /\ scope = "entry" =>
          /\ curEntry \in Labels
          /\ \E j \in DOMAIN text : /\ text[j] = <<"label", curEntry>>
                                    /\ \A i \in DOMAIN text : i > j => ~Is(i, "label")

\* k is the last line of S.
IsLast(k, S) == k \in S /\ \A j \in S : j <= k

\* globalAppend is the argument of the last APPEND before all labels.
GlobalInv ==
    \/ Global = {} /\ globalAppend = Empty
    \/ \E k \in Global : IsLast(k, Global) /\ globalAppend = text[k][2]

\* The lines "op" in the section of l.
Own(l, op) == {k \in Section(l) : Is(k, op)}

\* The command line of an entry is that of its last APPEND.
OwnInv ==
    \A l \in Labels : linux[l].exists =>
        \/ Own(l, "append") = {} /\ linux[l].cmdline = globalAppend
        \/ \E k \in Own(l, "append") :
             /\ IsLast(k, Own(l, "append"))
             /\ linux[l].cmdline = IF text[k][2] = "-" THEN Empty ELSE text[k][2]

\* Until the end of a file, only INITRD sets an initrd; at the end of the only file,
\* the command lines that ask for one have it.
InitrdInv ==
    ~included =>
        /\ status = "parsing" /\ depth > 0 =>
              \A l \in Labels : linux[l].exists =>
                  linux[l].initrd = IF Own(l, "initrd") # {} THEN "directive" ELSE "nil"
        /\ (status = "parsing" /\ depth = 0) \/ status = "ok" =>
              \A l \in Labels : linux[l].exists => linux[l].initrd = InitrdOfCmdline(l)

SyslinuxInv == SyslinuxTypeOK /\ CurInv /\ GlobalInv /\ OwnInv

-----------------------------------------------------------------------------
(***************************************************************************)
(* What a further line changes in what the text says.                      *)
(***************************************************************************)

\* The largest element of a set of lines is what Latest chooses.
LEMMA LatestIs ==
    ASSUME NEW S, S \subseteq Nat, NEW k, IsLast(k, S)
    PROVE  Latest(S) = k
<1>1. \A m \in S : (\A j \in S : j <= m) => m = k
  BY DEF IsLast
<1> QED
  BY <1>1 DEF IsLast, Latest

\* The text grows at its end.
LEMMA LineAdded ==
    ASSUME SyslinuxTypeOK, NEW op \in Ops, NEW arg \in Words, Line(op, arg)
    PROVE  /\ text' \in Seq(Ops \X Words)
           /\ Len(text) \in Nat /\ DOMAIN text = 1..Len(text) /\ DOMAIN text' = 1..Len(text) + 1
           /\ Len(text') = Len(text) + 1
           /\ \A k \in 1..Len(text) : text'[k] = text[k]
           /\ text'[Len(text) + 1] = <<op, arg>>
<1>1. text \in Seq(Ops \X Words) /\ <<op, arg>> \in Ops \X Words /\ text' = Append(text, <<op, arg>>)
  BY DEF SyslinuxTypeOK, Line
<1> QED
  BY <1>1, AppendProperties, LenProperties

\* A line that is no LABEL belongs to the section the parser is in.
LEMMA SectionGrows ==
    ASSUME SyslinuxTypeOK, CurInv, NEW op \in Ops \ {"label"}, NEW arg \in Words, Line(op, arg)
    PROVE  \A l \in Labels : \A k :
              k \in Section(l)' <=> k \in Section(l) \/ (k = Len(text) + 1 /\ scope = "entry" /\ l = curEntry)
<1> DEFINE n == Len(text)
<1>1. /\ n \in Nat /\ DOMAIN text = 1..n /\ DOMAIN text' = 1..n + 1 /\ Len(text') = n + 1
      /\ \A k \in 1..n : text'[k] = text[k]
      /\ text'[n + 1] = <<op, arg>>
  BY LineAdded
<1> SUFFICES ASSUME NEW l \in Labels, NEW k
             PROVE  k \in Section(l)' <=> k \in Section(l) \/ (k = n + 1 /\ scope = "entry" /\ l = curEntry)
  OBVIOUS
<1>2. text'[n + 1] # <<"label", l>> /\ text'[n + 1][1] # "label"
  BY <1>1
<1> HIDE DEF n
<1>3. ASSUME k \in Section(l)'
      PROVE  k \in Section(l) \/ (k = n + 1 /\ scope = "entry" /\ l = curEntry)
  <2>1. PICK j \in 1..k - 1 : /\ text'[j] = <<"label", l>>
                              /\ \A i \in j + 1..n + 1 : text'[i] # <<"label", l>>
                              /\ \A i \in j + 1..k : text'[i][1] # "label"
    BY <1>1, <1>3 DEF Section, Is
  <2>2. k \in 1..n + 1 /\ j \in 1..n /\ text[j] = <<"label", l>>
    BY <1>1, <1>3, <2>1 DEF Section
  <2>3. CASE k \in 1..n
    <3>1. /\ \A i \in j + 1..n : text[i] # <<"label", l>>
          /\ \A i \in j + 1..k : text[i][1] # "label"
      BY <1>1, <2>1, <2>2, <2>3
    <3> QED
      BY <1>1, <2>1, <2>2, <2>3, <3>1 DEF Section, Is, n
  <2>4. CASE k = n + 1
    <3>1. \A i \in j + 1..n : text[i][1] # "label"
      BY <1>1, <2>1, <2>2, <2>4
    <3>2. text[j][1] = "label" /\ text[j][2] = l
      BY <2>2
    <3>3. scope = "entry"
      BY <1>1, <2>2, <3>2 DEF CurInv, Is, SyslinuxTypeOK
    <3>4. PICK h \in 1..n : text[h] = <<"label", curEntry>> /\ \A i \in 1..n : i > h => text[i][1] # "label"
      BY <1>1, <3>3 DEF CurInv, Is
    <3>5. text[h][1] = "label" /\ text[h][2] = curEntry
      BY <3>4
    <3>6. h = j
      BY <1>1, <2>2, <3>1, <3>2, <3>4, <3>5
    <3> QED
      BY <2>4, <3>2, <3>3, <3>5, <3>6
  <2> QED
    BY <1>1, <2>2, <2>3, <2>4
<1>4. ASSUME k \in Section(l)
      PROVE  k \in Section(l)'
  <2>1. PICK j \in 1..k - 1 : /\ text[j] = <<"label", l>>
                              /\ \A i \in j + 1..n : text[i] # <<"label", l>>
                              /\ \A i \in j + 1..k : text[i][1] # "label"
    BY <1>1, <1>4 DEF Section, Is, n
  <2>2. k \in 1..n /\ j \in 1..n
    BY <1>1, <1>4, <2>1 DEF Section
  <2>3. /\ text'[j] = <<"label", l>>
        /\ \A i \in j + 1..n + 1 : text'[i] # <<"label", l>>
        /\ \A i \in j + 1..k : text'[i][1] # "label"
    BY <1>1, <1>2, <2>1, <2>2
  <2>4. k \in DOMAIN text' /\ j \in 1..k - 1 /\ \A i \in j + 1..Len(text') : text'[i] # <<"label", l>>
    BY <1>1, <2>1, <2>2, <2>3
  <2> QED
    BY <2>3, <2>4 DEF Section, Is
<1>5. ASSUME k = n + 1, scope = "entry", l = curEntry
      PROVE  k \in Section(l)'
  <2>1. PICK h \in 1..n : text[h] = <<"label", l>> /\ \A i \in 1..n : i > h => text[i][1] # "label"
    BY <1>1, <1>5 DEF CurInv, Is
  <2>2. \A i \in 1..n : text[i] = <<"label", l>> => text[i][1] = "label"
    OBVIOUS
  <2>3. /\ text'[h] = <<"label", l>>
        /\ \A i \in h + 1..n + 1 : text'[i] # <<"label", l>>
        /\ \A i \in h + 1..k : text'[i][1] # "label"
    BY <1>1, <1>2, <1>5, <2>1, <2>2
  <2>4. k \in DOMAIN text' /\ h \in 1..k - 1 /\ \A i \in h + 1..Len(text') : text'[i] # <<"label", l>>
    BY <1>1, <1>5, <2>1, <2>3
  <2> QED
    BY <2>3, <2>4 DEF Section, Is
<1> QED
  BY <1>3, <1>4, <1>5

\* A LABEL line starts the section of its label anew, and no other changes.
LEMMA SectionStarts ==
    ASSUME SyslinuxTypeOK, NEW m \in Labels, Line("label", m)
    PROVE  /\ \A k : k \notin Section(m)'
           /\ \A l \in Labels \ {m} : \A k : k \in Section(l)' <=> k \in Section(l)
<1> DEFINE n == Len(text)
<1>1. /\ n \in Nat /\ DOMAIN text = 1..n /\ DOMAIN text' = 1..n + 1 /\ Len(text') = n + 1
      /\ \A k \in 1..n : text'[k] = text[k]
      /\ text'[n + 1] = <<"label", m>>
  BY LineAdded DEF Ops, Words
<1>2. text'[n + 1][1] = "label" /\ \A l \in Labels \ {m} : text'[n + 1] # <<"label", l>>
  BY <1>1
<1> HIDE DEF n
<1>3. ASSUME NEW k, k \in Section(m)' PROVE FALSE
  <2>1. PICK j \in 1..k - 1 : \A i \in j + 1..n + 1 : text'[i] # <<"label", m>>
    BY <1>1, <1>3 DEF Section, Is
  <2>2. k \in 1..n + 1
    BY <1>1, <1>3 DEF Section
  <2> QED
    BY <1>1, <2>1, <2>2
<1>4. ASSUME NEW l \in Labels \ {m}, NEW k, k \in Section(l)' PROVE k \in Section(l)
  <2>1. PICK j \in 1..k - 1 : /\ text'[j] = <<"label", l>>
                              /\ \A i \in j + 1..n + 1 : text'[i] # <<"label", l>>
                              /\ \A i \in j + 1..k : text'[i][1] # "label"
    BY <1>1, <1>4 DEF Section, Is
  <2>2. k \in 1..n + 1
    BY <1>1, <1>4 DEF Section
  <2>3. k # n + 1
    BY <1>1, <1>2, <2>1, <2>2
  <2>4. k \in 1..n /\ j \in 1..n
    BY <1>1, <2>1, <2>2, <2>3
  <2>5. /\ text[j] = <<"label", l>>
        /\ \A i \in j + 1..n : text[i] # <<"label", l>>
        /\ \A i \in j + 1..k : text[i][1] # "label"
    BY <1>1, <2>1, <2>4
  <2> QED
    BY <1>1, <2>1, <2>4, <2>5 DEF Section, Is, n
<1>5. ASSUME NEW l \in Labels \ {m}, NEW k, k \in Section(l) PROVE k \in Section(l)'
  <2>1. PICK j \in 1..k - 1 : /\ text[j] = <<"label", l>>
                              /\ \A i \in j + 1..n : text[i] # <<"label", l>>
                              /\ \A i \in j + 1..k : text[i][1] # "label"
    BY <1>1, <1>5 DEF Section, Is, n
  <2>2. k \in 1..n /\ j \in 1..n
    BY <1>1, <1>5, <2>1 DEF Section
  <2>3. /\ text'[j] = <<"label", l>>
        /\ \A i \in j + 1..n + 1 : text'[i] # <<"label", l>>
        /\ \A i \in j + 1..k : text'[i][1] # "label"
    BY <1>1, <1>2, <2>1, <2>2
  <2>4. k \in DOMAIN text' /\ j \in 1..k - 1 /\ \A i \in j + 1..Len(text') : text'[i] # <<"label", l>>
    BY <1>1, <2>1, <2>2, <2>3
  <2> QED
    BY <2>3, <2>4 DEF Section, Is
<1> QED
  BY <1>3, <1>4, <1>5

\* So do its lines of one kind.
LEMMA OwnGrows ==
    ASSUME SyslinuxTypeOK, CurInv, NEW op \in Ops \ {"label"}, NEW arg \in Words, Line(op, arg)
    PROVE  \A l \in Labels : \A o : \A k :
              k \in Own(l, o)' <=> \/ k \in Own(l, o)
                                   \/ k = Len(text) + 1 /\ scope = "entry" /\ l = curEntry /\ o = op
<1>1. /\ Len(text) \in Nat /\ DOMAIN text = 1..Len(text)
      /\ \A k \in 1..Len(text) : text'[k] = text[k]
      /\ text'[Len(text) + 1] = <<op, arg>>
  BY LineAdded
<1>2. \A l \in Labels : \A k : k \in Section(l)' <=> k \in Section(l) \/ (k = Len(text) + 1 /\ scope = "entry" /\ l = curEntry)
  BY SectionGrows
<1>3. \A l \in Labels : \A k \in Section(l) : k \in 1..Len(text) /\ text'[k] = text[k]
  BY <1>1 DEF Section
<1>4. text'[Len(text) + 1][1] = op
  BY <1>1
<1> SUFFICES ASSUME NEW l \in Labels, NEW o, NEW k
             PROVE  k \in Own(l, o)' <=> \/ k \in Own(l, o)
                                         \/ k = Len(text) + 1 /\ scope = "entry" /\ l = curEntry /\ o = op
  OBVIOUS
<1>5. k \in Own(l, o)' <=> k \in Section(l)' /\ text'[k][1] = o
  BY DEF Own, Is
<1>6. k \in Own(l, o) <=> k \in Section(l) /\ text[k][1] = o
  BY DEF Own, Is
<1> HIDE DEF Own
<1>7. CASE k \in Section(l)
  BY <1>2, <1>3, <1>5, <1>6, <1>7, <1>1
<1>8. CASE k \notin Section(l)
  BY <1>2, <1>4, <1>5, <1>6, <1>8
<1> QED
  BY <1>7, <1>8

\* A LABEL line leaves the section of its label empty.
LEMMA OwnStarts ==
    ASSUME SyslinuxTypeOK, NEW m \in Labels, Line("label", m)
    PROVE  /\ \A o : \A k : k \notin Own(m, o)'
           /\ \A l \in Labels \ {m} : \A o : \A k : k \in Own(l, o)' <=> k \in Own(l, o)
<1>1. /\ DOMAIN text = 1..Len(text)
      /\ \A k \in 1..Len(text) : text'[k] = text[k]
  BY LineAdded DEF Ops, Words
<1>2. \A l \in Labels : \A k \in Section(l) : k \in 1..Len(text) /\ text'[k] = text[k]
  BY <1>1 DEF Section
<1>3. /\ \A k : k \notin Section(m)'
      /\ \A l \in Labels \ {m} : \A k : k \in Section(l)' <=> k \in Section(l)
  BY SectionStarts
<1>4. \A o : \A k : k \notin Own(m, o)'
  BY <1>3 DEF Own
<1>5. ASSUME NEW l \in Labels \ {m}, NEW o, NEW k
      PROVE  k \in Own(l, o)' <=> k \in Own(l, o)
  <2>1. k \in Own(l, o)' <=> k \in Section(l)' /\ text'[k][1] = o
    BY DEF Own, Is
  <2>2. k \in Own(l, o) <=> k \in Section(l) /\ text[k][1] = o
    BY DEF Own, Is
  <2>3. k \in Section(l) => text'[k] = text[k]
    BY <1>2
  <2> QED
    BY <1>3, <2>1, <2>2, <2>3
<1> QED
  BY <1>4, <1>5

\* A line is a global APPEND if it comes before all labels.
LEMMA GlobalGrows ==
    ASSUME SyslinuxTypeOK, CurInv, NEW op \in Ops, NEW arg \in Words, Line(op, arg)
    PROVE  \A k : k \in Global' <=> k \in Global \/ (k = Len(text) + 1 /\ scope = "global" /\ op = "append")
<1> DEFINE n == Len(text)
<1>1. /\ n \in Nat /\ DOMAIN text = 1..n /\ DOMAIN text' = 1..n + 1
      /\ \A k \in 1..n : text'[k] = text[k]
      /\ text'[n + 1][1] = op
  BY LineAdded
<1> HIDE DEF n
<1> SUFFICES ASSUME NEW k
             PROVE  k \in Global' <=> k \in Global \/ (k = n + 1 /\ scope = "global" /\ op = "append")
  BY DEF n
<1>2. k \in Global' <=> k \in 1..n + 1 /\ text'[k][1] = "append" /\ \A j \in 1..k : text'[j][1] # "label"
  BY <1>1 DEF Global, Is
<1>3. k \in Global <=> k \in 1..n /\ text[k][1] = "append" /\ \A j \in 1..k : text[j][1] # "label"
  BY <1>1 DEF Global, Is
<1>4. CASE k \in 1..n
  <2>1. \A j \in 1..k : j \in 1..n /\ text'[j] = text[j]
    BY <1>1, <1>4
  <2>2. text'[k] = text[k] /\ k \in 1..n + 1 /\ k # n + 1
    BY <1>1, <1>4
  <2> QED
    BY <1>2, <1>3, <1>4, <2>1, <2>2
<1>5. CASE k = n + 1
  <2>1. k \notin Global
    BY <1>1, <1>3, <1>5
  <2>2. CASE scope = "global"
    <3>1. \A j \in 1..n : text'[j][1] # "label"
      BY <1>1, <2>2 DEF CurInv, Is
    <3>2. op = "append" => \A j \in 1..k : text'[j][1] # "label"
      BY <1>1, <1>5, <3>1
    <3> QED
      BY <1>1, <1>2, <1>5, <2>1, <2>2, <3>2
  <2>3. CASE scope = "entry"
    <3>1. PICK j \in 1..n : text[j] = <<"label", curEntry>>
      BY <1>1, <2>3 DEF CurInv
    <3>2. text'[j][1] = "label" /\ j \in 1..k
      BY <1>1, <1>5, <3>1
    <3> QED
      BY <1>2, <2>1, <2>3, <3>2
  <2> QED
    BY <2>2, <2>3 DEF SyslinuxTypeOK
<1> QED
  BY <1>1, <1>2, <1>3, <1>4, <1>5

-----------------------------------------------------------------------------
(***************************************************************************)
(* The invariant.                                                          *)
(***************************************************************************)

\* No entry comes to exist, and those there are keep their command lines.
CmdlinesKept == \A l \in Labels : linux'[l].exists => linux[l].exists /\ linux'[l].cmdline = linux[l].cmdline

\* A step that reads no line and sets no command line.
LEMMA SameText ==
    ASSUME SyslinuxInv, UNCHANGED <<text, scope, curEntry, globalAppend>>, CmdlinesKept
    PROVE  CurInv' /\ GlobalInv' /\ OwnInv'
<1>1. Global' = Global /\ \A l : Section(l)' = Section(l) /\ \A o : Own(l, o)' = Own(l, o)
  BY DEF Global, Section, Own, Is
<1>2. CurInv'
  BY DEF SyslinuxInv, CurInv, Is, CmdlinesKept
<1>3. GlobalInv'
  BY <1>1 DEF SyslinuxInv, GlobalInv, IsLast
<1>4. ASSUME NEW l \in Labels, linux'[l].exists
      PROVE  \/ Own(l, "append")' = {} /\ linux'[l].cmdline = globalAppend'
             \/ \E k \in Own(l, "append")' :
                  /\ IsLast(k, Own(l, "append")')
                  /\ linux'[l].cmdline = IF text'[k][2] = "-" THEN Empty ELSE text'[k][2]
  BY <1>1, <1>4 DEF SyslinuxInv, OwnInv, CmdlinesKept
<1>5. OwnInv'
  BY <1>4 DEF OwnInv, IsLast
<1> QED
  BY <1>2, <1>3, <1>5

\* Where the parser is does not change by a line that is no LABEL.
LEMMA CurKept ==
    ASSUME SyslinuxTypeOK, CurInv, NEW op \in Ops \ {"label"}, NEW arg \in Words, Line(op, arg),
           UNCHANGED <<scope, curEntry>>, \A l \in Labels : linux'[l].exists => linux[l].exists
    PROVE  CurInv'
<1> DEFINE n == Len(text)
<1>1. /\ n \in Nat /\ DOMAIN text = 1..n /\ DOMAIN text' = 1..n + 1
      /\ \A k \in 1..n : text'[k] = text[k]
      /\ text'[n + 1][1] # "label"
  BY LineAdded
<1> HIDE DEF n
<1>2. ASSUME scope = "global"
      PROVE  \A k \in DOMAIN text' : text'[k][1] # "label"
  BY <1>1, <1>2 DEF CurInv, Is
<1>3. ASSUME scope = "entry"
      PROVE  \E j \in DOMAIN text' : /\ text'[j] = <<"label", curEntry>>
                                     /\ \A i \in DOMAIN text' : i > j => text'[i][1] # "label"
  <2>1. PICK j \in 1..n : text[j] = <<"label", curEntry>> /\ \A i \in 1..n : i > j => text[i][1] # "label"
    BY <1>1, <1>3 DEF CurInv, Is
  <2>2. j \in DOMAIN text' /\ text'[j] = <<"label", curEntry>>
    BY <1>1, <2>1
  <2>3. \A i \in DOMAIN text' : i > j => text'[i][1] # "label"
    BY <1>1, <2>1
  <2> QED
    BY <2>2, <2>3
<1> QED
  BY <1>2, <1>3 DEF CurInv, Is

\* A line that is neither LABEL nor APPEND.
LEMMA OtherLine ==
    ASSUME SyslinuxInv, NEW op \in Ops \ {"label", "append"}, NEW arg \in Words, Line(op, arg),
           UNCHANGED <<scope, curEntry, globalAppend>>, CmdlinesKept
    PROVE  CurInv' /\ GlobalInv' /\ OwnInv'
<1>1. SyslinuxTypeOK /\ CurInv /\ GlobalInv /\ OwnInv
  BY DEF SyslinuxInv
<1>2. CurInv'
  BY <1>1, CurKept DEF CmdlinesKept
<1>3. DOMAIN text = 1..Len(text) /\ \A k \in 1..Len(text) : text'[k] = text[k]
  BY <1>1, LineAdded
<1>4. Global' = Global /\ \A k \in Global : text'[k] = text[k]
  <2>1. \A k : k \in Global' <=> k \in Global
    BY <1>1, GlobalGrows
  <2> QED
    BY <1>3, <2>1 DEF Global
<1>5. GlobalInv'
  BY <1>1, <1>4 DEF GlobalInv, IsLast
<1>6. \A l \in Labels : Own(l, "append")' = Own(l, "append") /\ \A k \in Own(l, "append") : text'[k] = text[k]
  <2>1. \A l \in Labels : \A k : k \in Own(l, "append")' <=> k \in Own(l, "append")
    BY <1>1, OwnGrows
  <2> QED
    BY <1>3, <2>1 DEF Own, Section
<1>7. ASSUME NEW l \in Labels, linux'[l].exists
      PROVE  \/ Own(l, "append")' = {} /\ linux'[l].cmdline = globalAppend'
             \/ \E k \in Own(l, "append")' :
                  /\ IsLast(k, Own(l, "append")')
                  /\ linux'[l].cmdline = IF text'[k][2] = "-" THEN Empty ELSE text'[k][2]
  BY <1>1, <1>6, <1>7 DEF OwnInv, CmdlinesKept
<1>8. OwnInv'
  BY <1>7 DEF OwnInv, IsLast
<1> QED
  BY <1>2, <1>5, <1>8

\* LABEL: the section of its entry is empty, and its command line is the global one.
LEMMA LabelLine ==
    ASSUME SyslinuxInv, NEW m \in Labels, Label(m)
    PROVE  SyslinuxInv'
<1>1. SyslinuxTypeOK /\ CurInv /\ GlobalInv /\ OwnInv /\ Line("label", m) /\ "label" \in Ops /\ m \in Words
  BY DEF SyslinuxInv, Label, Ops, Words
<1>2. /\ scope' = "entry" /\ curEntry' = m /\ globalAppend' = globalAppend
      /\ linux' = [linux EXCEPT ![m] = LinuxEntry(globalAppend)]
      /\ UNCHANGED <<depth, status, included>>
  BY DEF Label
<1>3. /\ text' \in Seq(Ops \X Words)
      /\ Len(text) \in Nat /\ DOMAIN text = 1..Len(text) /\ DOMAIN text' = 1..Len(text) + 1
      /\ \A k \in 1..Len(text) : text'[k] = text[k]
      /\ text'[Len(text) + 1] = <<"label", m>>
  BY <1>1, LineAdded
<1>4. m \in Entries /\ linux \in [Entries -> {NoEntry} \cup Entry]
  BY <1>1 DEF Entries, SyslinuxTypeOK
<1>5. LinuxEntry(globalAppend) \in Entry
  BY <1>1 DEF LinuxEntry, Entry, SyslinuxTypeOK
<1>6. SyslinuxTypeOK'
  BY <1>1, <1>2, <1>3, <1>4, <1>5 DEF SyslinuxTypeOK
<1>7. CurInv'
  <2>1. PICK j \in DOMAIN text' : j = Len(text) + 1
    BY <1>3
  <2>2. text'[j] = <<"label", curEntry'>> /\ \A i \in DOMAIN text' : i > j => text'[i][1] # "label"
    BY <1>2, <1>3, <2>1
  <2> QED
    BY <1>2, <2>2 DEF CurInv, Is
<1>8. Global' = Global /\ \A k \in Global : text'[k] = text[k]
  <2>1. \A k : k \in Global' <=> k \in Global
    BY <1>1, GlobalGrows
  <2> QED
    BY <1>3, <2>1 DEF Global
<1>9. GlobalInv'
  BY <1>1, <1>2, <1>8 DEF GlobalInv, IsLast
<1>10. /\ Own(m, "append")' = {}
       /\ \A l \in Labels \ {m} : Own(l, "append")' = Own(l, "append") /\ \A k \in Own(l, "append") : text'[k] = text[k]
  <2>1. /\ \A k : k \notin Own(m, "append")'
        /\ \A l \in Labels \ {m} : \A k : k \in Own(l, "append")' <=> k \in Own(l, "append")
    BY <1>1, OwnStarts
  <2> QED
    BY <1>3, <2>1 DEF Own, Section
<1>11. ASSUME NEW l \in Labels, linux'[l].exists
       PROVE  \/ Own(l, "append")' = {} /\ linux'[l].cmdline = globalAppend'
              \/ \E k \in Own(l, "append")' :
                   /\ IsLast(k, Own(l, "append")')
                   /\ linux'[l].cmdline = IF text'[k][2] = "-" THEN Empty ELSE text'[k][2]
  <2>1. CASE l = m
    <3>1. linux'[l] = LinuxEntry(globalAppend)
      BY <1>2, <1>4, <2>1
    <3> QED
      BY <1>2, <1>10, <2>1, <3>1 DEF LinuxEntry
  <2>2. CASE l # m
    <3>1. linux'[l] = linux[l]
      BY <1>2, <1>4, <2>2 DEF Entries
    <3> QED
      BY <1>1, <1>2, <1>10, <1>11, <2>2, <3>1 DEF OwnInv
  <2> QED
    BY <2>1, <2>2
<1>12. OwnInv'
  BY <1>11 DEF OwnInv, IsLast
<1> QED
  BY <1>6, <1>7, <1>9, <1>12 DEF SyslinuxInv

\* APPEND: of the global ones, or of those of the current label, it is the last.
LEMMA AppendsLine ==
    ASSUME SyslinuxInv, NEW arg \in Appends, AppendLine(arg)
    PROVE  SyslinuxInv'
<1> DEFINE n == Len(text)
<1>1. SyslinuxTypeOK /\ CurInv /\ GlobalInv /\ OwnInv /\ Line("append", arg) /\ "append" \in Ops /\ arg \in Words
  BY DEF SyslinuxInv, AppendLine, Ops, Words
<1>2. /\ UNCHANGED <<scope, curEntry, depth, status, included>>
      /\ globalAppend' = IF scope = "global" THEN arg ELSE globalAppend
      /\ linux' = IF scope = "entry" /\ linux[curEntry].exists
                  THEN [linux EXCEPT ![curEntry].cmdline = IF arg = "-" THEN Empty ELSE arg] ELSE linux
  BY DEF AppendLine, Overridden, e
<1>3. /\ text' \in Seq(Ops \X Words)
      /\ n \in Nat /\ DOMAIN text = 1..n /\ DOMAIN text' = 1..n + 1
      /\ \A k \in 1..n : text'[k] = text[k]
      /\ text'[n + 1] = <<"append", arg>>
  BY <1>1, LineAdded
<1>4. text'[n + 1][2] = arg
  BY <1>3
<1>5. /\ linux \in [Entries -> {NoEntry} \cup Entry] /\ curEntry \in Entries /\ Labels \subseteq Entries
      /\ scope \in {"global", "entry"}
  BY <1>1 DEF SyslinuxTypeOK, Entries
<1>6. /\ linux' \in [Entries -> {NoEntry} \cup Entry]
      /\ \A l \in Labels : /\ linux'[l].exists => linux[l].exists
                           /\ linux'[l].exists => linux'[l].cmdline =
                                 IF scope = "entry" /\ l = curEntry THEN (IF arg = "-" THEN Empty ELSE arg)
                                 ELSE linux[l].cmdline
  <2>1. CASE scope = "entry" /\ linux[curEntry].exists
    <3>1. linux[curEntry] \in Entry
      BY <1>5, <2>1 DEF NoEntry
    <3>2. PICK c \in Appends \cup {Empty} : c = IF arg = "-" THEN Empty ELSE arg
      OBVIOUS
    <3>3. linux' = [linux EXCEPT ![curEntry] = [linux[curEntry] EXCEPT !.cmdline = c]]
      BY <1>2, <2>1, <3>2
    <3>4. /\ [linux[curEntry] EXCEPT !.cmdline = c] \in Entry
          /\ [linux[curEntry] EXCEPT !.cmdline = c].cmdline = c
      BY <3>1 DEF Entry
    <3>5. /\ linux'[curEntry] = [linux[curEntry] EXCEPT !.cmdline = c]
          /\ \A l \in Entries : l # curEntry => linux'[l] = linux[l]
      BY <1>5, <3>3
    <3>6. linux' \in [Entries -> {NoEntry} \cup Entry]
      BY <1>5, <3>3, <3>4
    <3>7. linux'[curEntry].cmdline = c
      BY <3>4, <3>5
    <3> QED
      BY <1>5, <2>1, <3>2, <3>5, <3>6, <3>7
  <2>2. CASE ~(scope = "entry" /\ linux[curEntry].exists)
    BY <1>2, <1>5, <2>2
  <2> QED
    BY <2>1, <2>2
<1>7. SyslinuxTypeOK'
  BY <1>1, <1>2, <1>3, <1>6 DEF SyslinuxTypeOK
<1>8. CurInv'
  BY <1>1, <1>2, <1>6, CurKept
<1>9. \A k : k \in Global' <=> k \in Global \/ (k = n + 1 /\ scope = "global")
  BY <1>1, GlobalGrows
<1>10. \A k \in Global : k \in 1..n /\ text'[k] = text[k]
  BY <1>3 DEF Global
<1>11. \A l \in Labels : \A k : k \in Own(l, "append")' <=> \/ k \in Own(l, "append")
                                                            \/ k = n + 1 /\ scope = "entry" /\ l = curEntry
  BY <1>1, OwnGrows
<1>12. \A l \in Labels : \A k \in Own(l, "append") : k \in 1..n /\ text'[k] = text[k]
  BY <1>3 DEF Own, Section
<1> HIDE DEF n
<1>13. GlobalInv'
  <2>1. CASE scope = "global"
    <3>1. n + 1 \in Global' /\ \A j \in Global' : j <= n + 1
      BY <1>3, <1>9, <1>10, <2>1
    <3>2. globalAppend' = text'[n + 1][2]
      BY <1>2, <1>4, <2>1
    <3> QED
      BY <3>1, <3>2 DEF GlobalInv, IsLast
  <2>2. CASE scope = "entry"
    <3>1. Global' = Global /\ globalAppend' = globalAppend
      BY <1>2, <1>9, <2>2
    <3> QED
      BY <1>1, <1>10, <3>1 DEF GlobalInv, IsLast
  <2> QED
    BY <1>5, <2>1, <2>2
<1>14. ASSUME NEW l \in Labels, linux'[l].exists
       PROVE  \/ Own(l, "append")' = {} /\ linux'[l].cmdline = globalAppend'
              \/ \E k \in Own(l, "append")' :
                   /\ IsLast(k, Own(l, "append")')
                   /\ linux'[l].cmdline = IF text'[k][2] = "-" THEN Empty ELSE text'[k][2]
  <2>1. linux[l].exists /\ scope = "entry"
    BY <1>1, <1>5, <1>6, <1>14 DEF CurInv
  <2>2. CASE l = curEntry
    <3>1. n + 1 \in Own(l, "append")' /\ \A j \in Own(l, "append")' : j <= n + 1
      BY <1>3, <1>11, <1>12, <2>1, <2>2
    <3>2. linux'[l].cmdline = IF text'[n + 1][2] = "-" THEN Empty ELSE text'[n + 1][2]
      BY <1>4, <1>6, <1>14, <2>1, <2>2
    <3> QED
      BY <3>1, <3>2 DEF IsLast
  <2>3. CASE l # curEntry
    <3>1. Own(l, "append")' = Own(l, "append") /\ linux'[l].cmdline = linux[l].cmdline /\ globalAppend' = globalAppend
      BY <1>2, <1>6, <1>11, <1>14, <2>1, <2>3
    <3> QED
      BY <1>1, <1>12, <2>1, <3>1 DEF OwnInv, IsLast
  <2> QED
    BY <2>2, <2>3
<1>15. OwnInv'
  BY <1>14 DEF OwnInv, IsLast
<1> QED
  BY <1>7, <1>8, <1>13, <1>15 DEF SyslinuxInv

\* KERNEL, FDT and INITRD set a file of the current entry, if it is one of Linux.
LEMMA FileLine ==
    ASSUME SyslinuxTypeOK, NEW op \in {"kernel", "fdt", "initrd"},
           \/ op = "kernel" /\ Kernel
           \/ op = "fdt" /\ Fdt
           \/ op = "initrd" /\ Initrd
    PROVE  /\ op \in Ops \ {"label", "append"} /\ Empty \in Words /\ Line(op, Empty)
           /\ UNCHANGED <<scope, curEntry, globalAppend, depth, status, included>>
           /\ linux' \in [Entries -> {NoEntry} \cup Entry]
           /\ \A l \in Entries :
                 /\ linux'[l].exists = linux[l].exists
                 /\ linux[l].exists => /\ linux'[l].cmdline = linux[l].cmdline
                                       /\ linux'[l].initrd = IF l = curEntry /\ op = "initrd" THEN "directive"
                                                             ELSE linux[l].initrd
<1>1. /\ op \in Ops \ {"label", "append"} /\ Empty \in Words /\ Line(op, Empty)
      /\ UNCHANGED <<scope, curEntry, globalAppend, depth, status, included>>
  BY DEF Kernel, Fdt, Initrd, SetFile, Ops, Words
<1>2. linux \in [Entries -> {NoEntry} \cup Entry] /\ curEntry \in Entries
  BY DEF SyslinuxTypeOK
<1>3. CASE ~linux[curEntry].exists
  <2>1. linux' = linux
    BY <1>3 DEF Kernel, Fdt, Initrd, SetFile, e
  <2> QED
    BY <1>1, <1>2, <1>3, <2>1
<1>4. CASE linux[curEntry].exists
  <2>1. linux[curEntry] \in Entry
    BY <1>2, <1>4 DEF NoEntry
  <2>2. PICK x \in Entry : /\ linux' = [linux EXCEPT ![curEntry] = x]
                           /\ x.cmdline = linux[curEntry].cmdline
                           /\ x.initrd = IF op = "initrd" THEN "directive" ELSE linux[curEntry].initrd
    <3>1. CASE op = "kernel"
      <4>1. linux' = [linux EXCEPT ![curEntry] = [linux[curEntry] EXCEPT !.kernel = TRUE]]
        BY <1>4, <3>1 DEF Kernel, SetFile, e
      <4>2. /\ [linux[curEntry] EXCEPT !.kernel = TRUE] \in Entry
            /\ [linux[curEntry] EXCEPT !.kernel = TRUE].cmdline = linux[curEntry].cmdline
            /\ [linux[curEntry] EXCEPT !.kernel = TRUE].initrd = linux[curEntry].initrd
        BY <2>1 DEF Entry
      <4> QED
        BY <3>1, <4>1, <4>2
    <3>2. CASE op = "fdt"
      <4>1. linux' = [linux EXCEPT ![curEntry] = [linux[curEntry] EXCEPT !.dtb = TRUE]]
        BY <1>4, <3>2 DEF Fdt, SetFile, e
      <4>2. /\ [linux[curEntry] EXCEPT !.dtb = TRUE] \in Entry
            /\ [linux[curEntry] EXCEPT !.dtb = TRUE].cmdline = linux[curEntry].cmdline
            /\ [linux[curEntry] EXCEPT !.dtb = TRUE].initrd = linux[curEntry].initrd
        BY <2>1 DEF Entry
      <4> QED
        BY <3>2, <4>1, <4>2
    <3>3. CASE op = "initrd"
      <4>1. linux' = [linux EXCEPT ![curEntry] = [linux[curEntry] EXCEPT !.initrd = "directive"]]
        BY <1>4, <3>3 DEF Initrd, SetFile, e
      <4>2. /\ [linux[curEntry] EXCEPT !.initrd = "directive"] \in Entry
            /\ [linux[curEntry] EXCEPT !.initrd = "directive"].cmdline = linux[curEntry].cmdline
            /\ [linux[curEntry] EXCEPT !.initrd = "directive"].initrd = "directive"
        BY <2>1 DEF Entry
      <4> QED
        BY <3>3, <4>1, <4>2
    <3> QED
      BY <3>1, <3>2, <3>3
  <2>3. linux' \in [Entries -> {NoEntry} \cup Entry] /\ x.exists = TRUE /\ linux[curEntry].exists = TRUE
    BY <1>2, <2>1, <2>2 DEF Entry
  <2>4. linux'[curEntry] = x /\ \A l \in Entries : l # curEntry => linux'[l] = linux[l]
    BY <1>2, <2>2
  <2> QED
    BY <1>1, <2>2, <2>3, <2>4
<1> QED
  BY <1>3, <1>4

\* The end of a file, found or not: no line is read, and an entry is only given an
\* initrd that its command line asks for.
LEMMA FileEnds ==
    ASSUME SyslinuxTypeOK, AppendPanics \/ FileFails \/ IncludeFails \/ EndOfFile \/ EndOfFileFails \/ RankLabel
    PROVE  /\ UNCHANGED <<text, scope, curEntry, globalAppend>> /\ CmdlinesKept
           /\ SyslinuxTypeOK'
<1>1. UNCHANGED <<text, scope, curEntry, globalAppend>>
  BY DEF AppendPanics, FileFails, IncludeFails, EndOfFile, EndOfFileFails, RankLabel, parser
<1>2. ASSUME NEW err \in {"url", "other"}, Parsing, Returns(err)
      PROVE  depth' \in Nat /\ status' \in {"parsing", "url", "other"}
  BY <1>2 DEF SyslinuxTypeOK, Returns, Parsing
<1>3. depth' \in Nat /\ status' \in {"parsing", "ok", "panic", "url", "other"} /\ included' \in BOOLEAN
  <2>1. CASE AppendPanics \/ RankLabel
    BY <2>1 DEF AppendPanics, RankLabel, SyslinuxTypeOK
  <2>2. CASE FileFails
    BY <1>2, <2>2 DEF FileFails, SyslinuxTypeOK
  <2>3. CASE IncludeFails
    BY <1>2, <2>3 DEF IncludeFails, SyslinuxTypeOK
  <2>4. CASE EndOfFile
    BY <2>4 DEF EndOfFile, Parsing, SyslinuxTypeOK
  <2>5. CASE EndOfFileFails
    <3>1. Parsing /\ (Returns("url") \/ (status' = "panic" /\ depth' = depth)) /\ included' = (included \/ depth > 1)
      BY <2>5 DEF EndOfFileFails
    <3>2. depth' \in Nat /\ status' \in {"parsing", "panic", "url", "other"}
      BY <1>2, <3>1 DEF SyslinuxTypeOK
    <3> QED
      BY <3>1, <3>2 DEF SyslinuxTypeOK
  <2> QED
    BY <2>1, <2>2, <2>3, <2>4, <2>5
\* The entries of done have the initrd of their command lines.
<1>4. \/ linux' = linux
      \/ \E done \in SUBSET Asking :
            /\ \A k \in done : linux[k].cmdline \in Fetchable
            /\ linux' = [k \in Entries |-> IF k \in done
                                           THEN [linux[k] EXCEPT !.initrd = linux[k].cmdline] ELSE linux[k]]
  <2>1. CASE AppendPanics \/ FileFails \/ IncludeFails \/ RankLabel
    BY <2>1 DEF AppendPanics, FileFails, IncludeFails, RankLabel, parser
  <2>2. CASE EndOfFile
    BY <2>2 DEF EndOfFile
  <2>3. CASE EndOfFileFails
    <3>1. PICK l \in Asking : \E done \in SUBSET (Asking \ {l}) :
            /\ \A k \in done : linux[k].cmdline \in Fetchable
            /\ linux' = [k \in Entries |-> IF k \in done
                                           THEN [linux[k] EXCEPT !.initrd = linux[k].cmdline] ELSE linux[k]]
      BY <2>3 DEF EndOfFileFails
    <3> QED
      BY <3>1
  <2> QED
    BY <2>1, <2>2, <2>3
<1>5. linux' \in [Entries -> {NoEntry} \cup Entry] /\ CmdlinesKept
  <2>1. CASE linux' = linux
    BY <2>1 DEF SyslinuxTypeOK, CmdlinesKept
  <2>2. CASE linux' # linux
    <3>1. PICK done \in SUBSET Asking :
            /\ \A k \in done : linux[k].cmdline \in Fetchable
            /\ linux' = [k \in Entries |-> IF k \in done
                                           THEN [linux[k] EXCEPT !.initrd = linux[k].cmdline] ELSE linux[k]]
      BY <1>4, <2>2
    <3>2. \A k \in done : k \in Entries /\ linux[k].exists
      BY DEF Asking
    <3>3. \A k \in done : linux[k] \in Entry
      BY <3>2 DEF SyslinuxTypeOK, NoEntry
    <3>4. ASSUME NEW k \in done
          PROVE  /\ [linux[k] EXCEPT !.initrd = linux[k].cmdline] \in Entry
                 /\ [linux[k] EXCEPT !.initrd = linux[k].cmdline].cmdline = linux[k].cmdline
      BY <3>1, <3>3 DEF Entry
    <3>5. \A k \in Entries : /\ linux'[k] \in {NoEntry} \cup Entry
                             /\ linux'[k].exists => linux[k].exists /\ linux'[k].cmdline = linux[k].cmdline
      <4>1. ASSUME NEW k \in done
            PROVE  /\ linux'[k] \in {NoEntry} \cup Entry
                   /\ linux'[k].exists => linux[k].exists /\ linux'[k].cmdline = linux[k].cmdline
        <5>1. linux'[k] = [linux[k] EXCEPT !.initrd = linux[k].cmdline]
          BY <3>1, <3>2, <4>1
        <5> QED
          BY <3>2, <3>4, <5>1
      <4>2. ASSUME NEW k \in Entries \ done
            PROVE  /\ linux'[k] \in {NoEntry} \cup Entry
                   /\ linux'[k].exists => linux[k].exists /\ linux'[k].cmdline = linux[k].cmdline
        <5>1. linux'[k] = linux[k]
          BY <3>1, <4>2
        <5> QED
          BY <5>1 DEF SyslinuxTypeOK
      <4> QED
        BY <4>1, <4>2
    <3>6. linux' \in [Entries -> {NoEntry} \cup Entry]
      BY <3>1, <3>5
    <3> QED
      BY <3>5, <3>6 DEF CmdlinesKept, Entries
  <2> QED
    BY <2>1, <2>2
<1> QED
  BY <1>1, <1>3, <1>5 DEF SyslinuxTypeOK

\* Wherever the parser is in the configuration, it knows of each label what the text
\* so far says.
THEOREM SyslinuxInvariance == Spec => []SyslinuxInv
<1>1. Init => SyslinuxInv
  <2> SUFFICES ASSUME Init PROVE SyslinuxInv
    OBVIOUS
  <2>1. text = <<>> /\ Len(text) = 0 /\ DOMAIN text = {}
    BY DEF Init
  <2>2. SyslinuxTypeOK
    <3>1. text \in Seq(Ops \X Words)
      BY <2>1
    <3> QED
      BY <3>1 DEF Init, SyslinuxTypeOK, Entries
  <2>3. \A l \in Labels : ~linux[l].exists
    BY DEF Init, NoEntry, Entries
  <2>4. CurInv
    BY <2>1, <2>3 DEF Init, CurInv
  <2>5. Global = {} /\ globalAppend = Empty
    BY <2>1 DEF Global, Init
  <2>6. GlobalInv /\ OwnInv
    BY <2>3, <2>5 DEF GlobalInv, OwnInv
  <2> QED
    BY <2>2, <2>4, <2>6 DEF SyslinuxInv
<1>2. SyslinuxInv /\ [Next]_vars => SyslinuxInv'
  <2> SUFFICES ASSUME SyslinuxInv, [Next]_vars PROVE SyslinuxInv'
    OBVIOUS
  <2>0. SyslinuxTypeOK
    BY DEF SyslinuxInv
  \* The lines that only name an entry or a file.
  <2>1. ASSUME NEW op \in Ops \ {"label", "append"}, NEW arg \in Words, Line(op, arg),
               UNCHANGED <<linux, globalAppend, scope, curEntry, status, included>>, depth' \in Nat
        PROVE  SyslinuxInv'
    <3>1. CurInv' /\ GlobalInv' /\ OwnInv'
      BY <2>1, OtherLine DEF CmdlinesKept
    <3>2. text' \in Seq(Ops \X Words)
      BY <2>0, <2>1, LineAdded
    <3> QED
      BY <2>0, <2>1, <3>1, <3>2 DEF SyslinuxInv, SyslinuxTypeOK
  <2>2. ASSUME NEW l \in Labels, Default(l) \/ NerfDefault(l) PROVE SyslinuxInv'
    <3>1. CASE Default(l)
      <4>1. /\ Line("default", l) /\ UNCHANGED <<linux, globalAppend, scope, curEntry, status, included>> /\ depth' \in Nat
            /\ "default" \in Ops \ {"label", "append"} /\ l \in Words
        BY <2>0, <3>1 DEF Default, Ops, Words, SyslinuxTypeOK
      <4> QED
        BY <2>1, <4>1
    <3>2. CASE NerfDefault(l)
      <4>1. /\ Line("nerfdefault", l) /\ UNCHANGED <<linux, globalAppend, scope, curEntry, status, included>> /\ depth' \in Nat
            /\ "nerfdefault" \in Ops \ {"label", "append"} /\ l \in Words
        BY <2>0, <3>2 DEF NerfDefault, Ops, Words, SyslinuxTypeOK
      <4> QED
        BY <2>1, <4>1
    <3> QED
      BY <2>2, <3>1, <3>2
  <2>3. CASE MenuDefault
    <3>1. /\ Line("menudefault", Empty) /\ UNCHANGED <<linux, globalAppend, scope, curEntry, status, included>> /\ depth' \in Nat
          /\ "menudefault" \in Ops \ {"label", "append"} /\ Empty \in Words
      BY <2>0, <2>3 DEF MenuDefault, Ops, Words, SyslinuxTypeOK
    <3> QED
      BY <2>1, <3>1
  <2>4. CASE Include
    <3>1. /\ Line("include", Empty) /\ UNCHANGED <<linux, globalAppend, scope, curEntry, status, included>> /\ depth' \in Nat
          /\ "include" \in Ops \ {"label", "append"} /\ Empty \in Words
      BY <2>0, <2>4 DEF Include, parser, Ops, Words, SyslinuxTypeOK
    <3> QED
      BY <2>1, <3>1
  <2>5. CASE IncludeMissing
    <3>1. /\ Line("missing", Empty) /\ UNCHANGED <<linux, globalAppend, scope, curEntry, status, included>> /\ depth' \in Nat
          /\ "missing" \in Ops \ {"label", "append"} /\ Empty \in Words
      BY <2>0, <2>5 DEF IncludeMissing, parser, Ops, Words, SyslinuxTypeOK
    <3> QED
      BY <2>1, <3>1
  <2>6. CASE Mboot
    <3>1. /\ Line("mboot", Empty) /\ UNCHANGED <<globalAppend, scope, curEntry, depth, status, included>>
          /\ linux' = [linux EXCEPT ![curEntry] = NoEntry]
          /\ "mboot" \in Ops \ {"label", "append"} /\ Empty \in Words
      BY <2>6 DEF Mboot, Ops, Words
    <3>2. linux' \in [Entries -> {NoEntry} \cup Entry] /\ CmdlinesKept
      BY <2>0, <3>1 DEF SyslinuxTypeOK, CmdlinesKept, NoEntry, Entries
    <3>3. CurInv' /\ GlobalInv' /\ OwnInv'
      BY <3>1, <3>2, OtherLine
    <3>4. text' \in Seq(Ops \X Words)
      BY <2>0, <3>1, LineAdded
    <3> QED
      BY <2>0, <3>1, <3>2, <3>3, <3>4 DEF SyslinuxInv, SyslinuxTypeOK
  <2>7. CASE Kernel \/ Fdt \/ Initrd
    <3>1. PICK op \in {"kernel", "fdt", "initrd"} : \/ op = "kernel" /\ Kernel
                                                    \/ op = "fdt" /\ Fdt
                                                    \/ op = "initrd" /\ Initrd
      BY <2>7
    <3>2. /\ op \in Ops \ {"label", "append"} /\ Empty \in Words /\ Line(op, Empty)
          /\ UNCHANGED <<scope, curEntry, globalAppend, depth, status, included>>
          /\ linux' \in [Entries -> {NoEntry} \cup Entry]
          /\ \A l \in Entries : /\ linux'[l].exists = linux[l].exists
                                /\ linux[l].exists => linux'[l].cmdline = linux[l].cmdline
      BY <2>0, <3>1, FileLine
    <3>3. CmdlinesKept
      BY <3>2 DEF CmdlinesKept, Entries
    <3>4. CurInv' /\ GlobalInv' /\ OwnInv'
      BY <3>2, <3>3, OtherLine
    <3>5. text' \in Seq(Ops \X Words)
      BY <2>0, <3>2, LineAdded
    <3> QED
      BY <2>0, <3>2, <3>4, <3>5 DEF SyslinuxInv, SyslinuxTypeOK
  <2>8. CASE AppendPanics \/ FileFails \/ IncludeFails \/ EndOfFile \/ EndOfFileFails \/ RankLabel
    BY <2>0, <2>8, FileEnds, SameText DEF SyslinuxInv
  <2>9. CASE UNCHANGED vars
    <3>1. UNCHANGED <<linux, globalAppend, scope, curEntry, depth, status, included, text>>
      BY <2>9 DEF vars, parser
    <3>2. CurInv' /\ GlobalInv' /\ OwnInv'
      BY <3>1, SameText DEF CmdlinesKept
    <3> QED
      BY <2>0, <3>1, <3>2 DEF SyslinuxInv, SyslinuxTypeOK
  <2> QED
    BY <2>2, <2>3, <2>4, <2>5, <2>6, <2>7, <2>8, <2>9, LabelLine, AppendsLine DEF Next
<1> QED
  BY <1>1, <1>2, PTL DEF Spec

-----------------------------------------------------------------------------
(***************************************************************************)
(* Command lines.                                                          *)
(***************************************************************************)

\* The command line of an entry is the one its APPEND lines ask for, at any time.
LEMMA CmdlineIsEffective ==
    ASSUME SyslinuxInv, NEW l \in Labels, linux[l].exists
    PROVE  linux[l].cmdline = Effective(l)
<1> DEFINE own == Own(l, "append")
<1>1. own \subseteq Nat /\ Global \subseteq Nat
  <2>1. DOMAIN text = 1..Len(text) /\ Len(text) \in Nat
    BY LenProperties DEF SyslinuxInv, SyslinuxTypeOK
  <2> QED
    BY <2>1 DEF Own, Section, Global
<1>2. Effective(l) = IF own # {} THEN (IF text[Latest(own)][2] = "-" THEN Empty ELSE text[Latest(own)][2])
                     ELSE IF Global # {} THEN text[Latest(Global)][2] ELSE Empty
  BY DEF Effective, Own
<1> HIDE DEF own
<1>3. \/ own = {} /\ linux[l].cmdline = globalAppend
      \/ \E k \in own : IsLast(k, own) /\ linux[l].cmdline = IF text[k][2] = "-" THEN Empty ELSE text[k][2]
  BY DEF own, SyslinuxInv, OwnInv
<1>4. CASE own = {} /\ linux[l].cmdline = globalAppend
  <2>1. CASE Global = {} /\ globalAppend = Empty
    BY <1>2, <1>4, <2>1
  <2>2. ASSUME NEW k \in Global, IsLast(k, Global), globalAppend = text[k][2]
        PROVE  linux[l].cmdline = Effective(l)
    <3>1. Latest(Global) = k
      BY <1>1, <2>2, LatestIs
    <3> QED
      BY <1>2, <1>4, <2>2, <3>1
  <2> QED
    BY <2>1, <2>2 DEF SyslinuxInv, GlobalInv
<1>5. ASSUME NEW k \in own, IsLast(k, own), linux[l].cmdline = IF text[k][2] = "-" THEN Empty ELSE text[k][2]
      PROVE  linux[l].cmdline = Effective(l)
  <2>1. Latest(own) = k
    BY <1>1, <1>5, LatestIs
  <2> QED
    BY <1>2, <1>5, <2>1
<1> QED
  BY <1>3, <1>4, <1>5

\* "If a specific append directive is present, a global append directive is ignored":
\* in what ParseConfigFile returns, every command line is the one the last APPEND of
\* its label asks for, for any configuration, with files included or not.
THEOREM CmdlinesAreLast == Spec => []CmdlineIsLastAppend
<1>1. SyslinuxInv => CmdlineIsLastAppend
  BY CmdlineIsEffective DEF CmdlineIsLastAppend
<1> QED
  BY <1>1, SyslinuxInvariance, PTL

-----------------------------------------------------------------------------
(***************************************************************************)
(* Initrds.                                                                *)
(***************************************************************************)

\* A line other than LABEL: only INITRD changes what is said of initrds.
LEMMA InitrdLine ==
    ASSUME SyslinuxInv, InitrdInv, NEW op \in Ops \ {"label"}, NEW arg \in Words, Line(op, arg),
           included' = included, status' = status, depth' \in Nat, depth' > 0,
           \A l \in Labels : linux'[l].exists =>
              /\ linux[l].exists
              /\ linux'[l].initrd = IF l = curEntry /\ op = "initrd" THEN "directive" ELSE linux[l].initrd
    PROVE  InitrdInv'
<1>1. SyslinuxTypeOK /\ CurInv /\ status = "parsing" /\ depth > 0
  BY DEF SyslinuxInv, Line, Parsing
<1>2. \A l \in Labels : \A k :
         k \in Own(l, "initrd")' <=> \/ k \in Own(l, "initrd")
                                     \/ k = Len(text) + 1 /\ scope = "entry" /\ l = curEntry /\ op = "initrd"
  BY <1>1, OwnGrows
<1>3. ASSUME ~included, NEW l \in Labels, linux'[l].exists
      PROVE  linux'[l].initrd = IF Own(l, "initrd")' # {} THEN "directive" ELSE "nil"
  <2>1. linux[l].exists /\ scope = "entry"
    BY <1>1, <1>3 DEF CurInv, SyslinuxTypeOK
  <2>2. linux[l].initrd = IF Own(l, "initrd") # {} THEN "directive" ELSE "nil"
    BY <1>1, <1>3, <2>1 DEF InitrdInv
  <2>3. CASE l = curEntry /\ op = "initrd"
    <3>1. Own(l, "initrd")' # {}
      BY <1>2, <2>1, <2>3
    <3> QED
      BY <1>3, <2>3, <3>1
  <2>4. CASE ~(l = curEntry /\ op = "initrd")
    <3>1. Own(l, "initrd")' = Own(l, "initrd")
      BY <1>2, <2>4
    <3> QED
      BY <1>3, <2>2, <2>4, <3>1
  <2> QED
    BY <2>3, <2>4
<1> QED
  BY <1>1, <1>3 DEF InitrdInv

\* The end of the only file: the entries whose command lines ask for an initrd have it.
LEMMA InitrdAtEnd ==
    ASSUME SyslinuxInv, InitrdInv, EndOfFile, depth = 1, ~included, NEW l \in Labels, linux'[l].exists
    PROVE  linux'[l].initrd = InitrdOfCmdline(l)'
<1>1. l \in Entries /\ linux \in [Entries -> {NoEntry} \cup Entry] /\ text' = text
  BY DEF SyslinuxInv, SyslinuxTypeOK, Entries, EndOfFile
<1>2. InitrdOfCmdline(l)' = InitrdOfCmdline(l)
  BY <1>1 DEF InitrdOfCmdline, Effective, Section, Global, Is
<1>3. linux'[l] = IF l \in Asking THEN [linux[l] EXCEPT !.initrd = linux[l].cmdline] ELSE linux[l]
  BY <1>1 DEF EndOfFile
<1>4. linux[l].exists
  BY <1>3 DEF Asking
<1>5. linux[l] \in Entry
  BY <1>1, <1>4 DEF NoEntry
<1>6. linux[l].initrd = IF Own(l, "initrd") # {} THEN "directive" ELSE "nil"
  BY <1>4 DEF InitrdInv, EndOfFile, Parsing
<1>7. InitrdOfCmdline(l) = IF Own(l, "initrd") # {} THEN "directive"
                           ELSE IF linux[l].cmdline \in Fetchable THEN linux[l].cmdline ELSE "nil"
  <2>1. linux[l].cmdline = Effective(l)
    BY <1>4, CmdlineIsEffective
  <2>2. (\E k \in Section(l) : Is(k, "initrd")) <=> Own(l, "initrd") # {}
    BY DEF Own
  <2> QED
    BY <2>1, <2>2 DEF InitrdOfCmdline
<1>8. CASE l \in Asking
  <2>1. linux[l].cmdline \in Fetchable /\ linux[l].initrd = "nil"
    BY <1>8 DEF EndOfFile, Asking
  <2>2. [linux[l] EXCEPT !.initrd = linux[l].cmdline].initrd = linux[l].cmdline
    BY <1>5 DEF Entry
  <2> QED
    BY <1>2, <1>3, <1>6, <1>7, <1>8, <2>1, <2>2
<1>9. CASE l \notin Asking
  <2>1. linux[l].initrd = "nil" => linux[l].cmdline \notin Fetchable
    BY <1>1, <1>4, <1>9 DEF Asking
  <2>2. linux'[l].initrd = linux[l].initrd
    BY <1>3, <1>9
  <2> QED
    BY <1>2, <1>6, <1>7, <2>1, <2>2
<1> QED
  BY <1>8, <1>9

\* The initrd of an entry is that of its INITRD line or of its command line, whatever
\* APPEND lines came before, as long as no file is included.
THEOREM InitrdsFollow == Spec => []InitrdFollowsCmdline
<1>1. Init => InitrdInv
  BY DEF Init, InitrdInv, NoEntry, Entries
<1>2. SyslinuxInv /\ InitrdInv /\ [Next]_vars => InitrdInv'
  <2> SUFFICES ASSUME SyslinuxInv, InitrdInv, [Next]_vars PROVE InitrdInv'
    OBVIOUS
  <2>0. SyslinuxTypeOK /\ CurInv /\ Labels \subseteq Entries
    BY DEF SyslinuxInv, Entries
  <2>1. ASSUME NEW op \in Ops \ {"label", "initrd"}, NEW arg \in Words, Line(op, arg),
               UNCHANGED <<linux, status, included>>, depth' \in Nat, depth' > 0
        PROVE  InitrdInv'
    BY <2>1, InitrdLine
  <2>2. ASSUME NEW l \in Labels, Default(l) \/ NerfDefault(l) PROVE InitrdInv'
    <3>1. CASE Default(l)
      <4>1. /\ Line("default", l) /\ UNCHANGED <<linux, status, included>> /\ depth' \in Nat /\ depth' > 0
            /\ "default" \in Ops \ {"label", "initrd"} /\ l \in Words
        BY <2>0, <3>1 DEF Default, Ops, Words, SyslinuxTypeOK, Line, Parsing
      <4> QED
        BY <2>1, <4>1
    <3>2. CASE NerfDefault(l)
      <4>1. /\ Line("nerfdefault", l) /\ UNCHANGED <<linux, status, included>> /\ depth' \in Nat /\ depth' > 0
            /\ "nerfdefault" \in Ops \ {"label", "initrd"} /\ l \in Words
        BY <2>0, <3>2 DEF NerfDefault, Ops, Words, SyslinuxTypeOK, Line, Parsing
      <4> QED
        BY <2>1, <4>1
    <3> QED
      BY <2>2, <3>1, <3>2
  <2>3. CASE MenuDefault
    <3>1. /\ Line("menudefault", Empty) /\ UNCHANGED <<linux, status, included>> /\ depth' \in Nat /\ depth' > 0
          /\ "menudefault" \in Ops \ {"label", "initrd"} /\ Empty \in Words
      BY <2>0, <2>3 DEF MenuDefault, Ops, Words, SyslinuxTypeOK, Line, Parsing
    <3> QED
      BY <2>1, <3>1
  <2>4. CASE Include
    <3>1. /\ Line("include", Empty) /\ UNCHANGED <<linux, status, included>> /\ depth' \in Nat /\ depth' > 0
          /\ "include" \in Ops \ {"label", "initrd"} /\ Empty \in Words
      BY <2>0, <2>4 DEF Include, parser, Ops, Words, SyslinuxTypeOK, Line, Parsing
    <3> QED
      BY <2>1, <3>1
  <2>5. CASE IncludeMissing
    <3>1. /\ Line("missing", Empty) /\ UNCHANGED <<linux, status, included>> /\ depth' \in Nat /\ depth' > 0
          /\ "missing" \in Ops \ {"label", "initrd"} /\ Empty \in Words
      BY <2>0, <2>5 DEF IncludeMissing, parser, Ops, Words, SyslinuxTypeOK, Line, Parsing
    <3> QED
      BY <2>1, <3>1
  <2>6. CASE Mboot
    <3>1. /\ Line("mboot", Empty) /\ UNCHANGED <<status, included>> /\ depth' \in Nat /\ depth' > 0
          /\ linux' = [linux EXCEPT ![curEntry] = NoEntry]
          /\ "mboot" \in Ops \ {"label"} /\ Empty \in Words
      BY <2>0, <2>6 DEF Mboot, Ops, Words, SyslinuxTypeOK, Line, Parsing
    <3>2. \A l \in Labels : linux'[l].exists => linux[l].exists /\ linux'[l].initrd = linux[l].initrd
      BY <2>0, <3>1 DEF SyslinuxTypeOK, NoEntry
    <3> QED
      BY <3>1, <3>2, InitrdLine
  <2>7. CASE Kernel \/ Fdt \/ Initrd
    <3>1. PICK op \in {"kernel", "fdt", "initrd"} : \/ op = "kernel" /\ Kernel
                                                    \/ op = "fdt" /\ Fdt
                                                    \/ op = "initrd" /\ Initrd
      BY <2>7
    <3>2. /\ op \in Ops \ {"label"} /\ Empty \in Words /\ Line(op, Empty)
          /\ UNCHANGED <<depth, status, included>>
          /\ \A l \in Entries :
                 /\ linux'[l].exists = linux[l].exists
                 /\ linux[l].exists =>
                       linux'[l].initrd = IF l = curEntry /\ op = "initrd" THEN "directive" ELSE linux[l].initrd
      BY <2>0, <3>1, FileLine
    <3>3. depth' \in Nat /\ depth' > 0
      BY <2>0, <3>2 DEF SyslinuxTypeOK, Line, Parsing
    <3> QED
      BY <2>0, <3>2, <3>3, InitrdLine
  <2>8. ASSUME NEW arg \in Appends, AppendLine(arg) PROVE InitrdInv'
    <3>1. /\ Line("append", arg) /\ UNCHANGED <<depth, status, included>>
          /\ linux' = IF scope = "entry" /\ linux[curEntry].exists
                      THEN [linux EXCEPT ![curEntry].cmdline = Overridden(linux[curEntry], arg)] ELSE linux
          /\ "append" \in Ops \ {"label"} /\ arg \in Words
      BY <2>8 DEF AppendLine, Ops, Words, e
    <3>2. depth' \in Nat /\ depth' > 0
      BY <2>0, <3>1 DEF SyslinuxTypeOK, Line, Parsing
    <3>3. \A l \in Labels : linux'[l].exists => linux[l].exists /\ linux'[l].initrd = linux[l].initrd
      <4>1. CASE scope = "entry" /\ linux[curEntry].exists
        <5>1. linux[curEntry] \in Entry /\ linux \in [Entries -> {NoEntry} \cup Entry] /\ curEntry \in Entries
          BY <2>0, <4>1 DEF SyslinuxTypeOK, NoEntry
        <5>2. /\ linux'[curEntry] = [linux[curEntry] EXCEPT !.cmdline = Overridden(linux[curEntry], arg)]
              /\ \A l \in Entries : l # curEntry => linux'[l] = linux[l]
          BY <3>1, <4>1, <5>1
        <5>3. linux'[curEntry].initrd = linux[curEntry].initrd
          BY <5>1, <5>2 DEF Entry
        <5> QED
          BY <2>0, <4>1, <5>2, <5>3
      <4>2. CASE ~(scope = "entry" /\ linux[curEntry].exists)
        BY <3>1, <4>2
      <4> QED
        BY <4>1, <4>2
    <3> QED
      BY <3>1, <3>2, <3>3, InitrdLine
  <2>9. ASSUME NEW m \in Labels, Label(m) PROVE InitrdInv'
    <3>1. /\ Line("label", m) /\ UNCHANGED <<depth, status, included>> /\ m \in Entries
          /\ linux' = [linux EXCEPT ![m] = LinuxEntry(globalAppend)] /\ status = "parsing" /\ depth > 0
      BY <2>0, <2>9 DEF Label, Line, Parsing
    <3>2. /\ \A k : k \notin Own(m, "initrd")'
          /\ \A l \in Labels \ {m} : \A k : k \in Own(l, "initrd")' <=> k \in Own(l, "initrd")
      BY <2>0, <3>1, OwnStarts
    <3>3. /\ linux'[m] = LinuxEntry(globalAppend)
          /\ \A l \in Labels \ {m} : linux'[l] = linux[l]
      BY <2>0, <3>1 DEF SyslinuxTypeOK
    <3>4. linux'[m].initrd = "nil"
      BY <3>3 DEF LinuxEntry
    <3>5. ASSUME ~included, NEW l \in Labels, linux'[l].exists
          PROVE  linux'[l].initrd = IF Own(l, "initrd")' # {} THEN "directive" ELSE "nil"
      <4>1. CASE l = m
        BY <3>2, <3>4, <4>1
      <4>2. CASE l # m
        <5>1. Own(l, "initrd")' = Own(l, "initrd") /\ linux'[l] = linux[l]
          BY <3>2, <3>3, <4>2
        <5> QED
          BY <3>1, <3>5, <5>1 DEF InitrdInv
      <4> QED
        BY <4>1, <4>2
    <3> QED
      BY <2>0, <3>1, <3>5 DEF InitrdInv, SyslinuxTypeOK
  <2>10. CASE AppendPanics \/ FileFails \/ IncludeFails
    <3>1. UNCHANGED <<text, linux, included>> /\ status = "parsing" /\ depth > 0
      BY <2>10 DEF AppendPanics, FileFails, IncludeFails, parser, Parsing
    <3>2. (status' = "parsing" /\ depth' > 0) \/ status' \in {"panic", "url", "other"}
      <4>1. CASE AppendPanics
        BY <4>1 DEF AppendPanics
      <4>2. CASE FileFails
        <5>1. PICK err \in {"url", "other"} : Returns(err)
          BY <4>2 DEF FileFails
        <5> QED
          BY <2>0, <3>1, <5>1 DEF Returns, SyslinuxTypeOK
      <4>3. CASE IncludeFails
        BY <2>0, <3>1, <4>3 DEF IncludeFails, Returns, SyslinuxTypeOK
      <4> QED
        BY <2>10, <4>1, <4>2, <4>3
    <3>3. \A l : Own(l, "initrd")' = Own(l, "initrd")
      BY <3>1 DEF Own, Section, Is
    <3> QED
      BY <3>1, <3>2, <3>3 DEF InitrdInv
  <2>11. CASE EndOfFile
    <3>1. /\ status = "parsing" /\ status' = status /\ depth > 0 /\ depth \in Nat /\ depth' = depth - 1
          /\ included' = (included \/ depth > 1)
      BY <2>0, <2>11 DEF EndOfFile, Parsing, SyslinuxTypeOK
    <3>2. CASE included'
      BY <3>2 DEF InitrdInv
    <3>3. CASE ~included'
      <4>1. ~included /\ depth = 1 /\ depth' = 0
        <5>1. ~included /\ ~(depth > 1)
          BY <3>1, <3>3, Zenon
        <5> QED
          BY <3>1, <5>1
      <4>2. \A l \in Labels : linux'[l].exists => linux'[l].initrd = InitrdOfCmdline(l)'
        BY <2>11, <4>1, InitrdAtEnd
      <4> QED
        BY <4>1, <4>2 DEF InitrdInv
    <3> QED
      BY <3>2, <3>3
  <2>12. CASE EndOfFileFails
    <3>1. /\ status = "parsing" /\ depth > 0 /\ depth \in Nat /\ included' = (included \/ depth > 1)
          /\ Returns("url") \/ status' = "panic"
      BY <2>0, <2>12 DEF EndOfFileFails, Parsing, SyslinuxTypeOK
    <3>2. included' \/ status' \in {"panic", "url"}
      BY <3>1 DEF Returns
    <3> QED
      BY <3>2 DEF InitrdInv
  <2>13. CASE RankLabel
    <3>1. UNCHANGED <<text, linux, included>> /\ status = "parsing" /\ depth = 0 /\ depth' = 0 /\ status' \in {"parsing", "ok"}
      BY <2>13 DEF RankLabel, parser
    <3>2. \A l : InitrdOfCmdline(l)' = InitrdOfCmdline(l)
      BY <3>1 DEF InitrdOfCmdline, Effective, Section, Global, Is
    <3> QED
      BY <3>1, <3>2 DEF InitrdInv
  <2>14. CASE UNCHANGED vars
    <3>1. UNCHANGED <<linux, depth, status, included, text>>
      BY <2>14 DEF vars, parser
    <3>2. \A l : InitrdOfCmdline(l)' = InitrdOfCmdline(l) /\ Own(l, "initrd")' = Own(l, "initrd")
      BY <3>1 DEF InitrdOfCmdline, Effective, Own, Section, Global, Is
    <3> QED
      BY <3>1, <3>2 DEF InitrdInv
  <2> QED
    BY <2>2, <2>3, <2>4, <2>5, <2>6, <2>7, <2>8, <2>9, <2>10, <2>11, <2>12, <2>13, <2>14 DEF Next
<1>3. InitrdInv => InitrdFollowsCmdline
  BY DEF InitrdInv, InitrdFollowsCmdline
<1> QED
  BY <1>1, <1>2, <1>3, SyslinuxInvariance, PTL DEF Spec

-----------------------------------------------------------------------------
(***************************************************************************)
(* The ranked list.                                                        *)
(***************************************************************************)

LinuxOf(l) == <<"linux", l>>
MbOf(l) == <<"multiboot", l>>

\* After r turns of the loop over the labels of list: what im holds, if B are the
\* labels with a Linux image.
RankedUpTo(im, list, r, B) ==
    /\ im \in Seq({"linux", "multiboot"} \X Labels)
    /\ \A i, k \in 1..Len(im) : im[i] = im[k] => i = k
    /\ \A i \in 1..Len(im) : \E j \in 1..r : im[i] \in {LinuxOf(list[j]), MbOf(list[j])}
    /\ \A j \in 1..r : list[j] \in B => \E i \in 1..Len(im) : im[i] = LinuxOf(list[j])
    /\ r > 0 /\ list[1] \in B => Len(im) > 0 /\ im[1] = LinuxOf(list[1])
    /\ \A m \in Labels : \A j \in 1..r :
          list[j] \in B /\ (\A i \in 1..j : list[i] # m) =>
              \E k \in 1..Len(im) : im[k] = LinuxOf(list[j]) /\ \A i \in 1..k : im[i] # LinuxOf(m)

\* dedupStrings: the turn for a label that has been seen adds nothing.
LEMMA SeenLabel ==
    ASSUME NEW list \in Seq(Labels), NEW r \in Nat, r < Len(list), NEW im, NEW B,
           RankedUpTo(im, list, r, B), NEW h \in 1..r, list[h] = list[r + 1]
    PROVE  RankedUpTo(im, list, r + 1, B)
<1>1. \A j \in 1..r + 1 : j \in 1..r \/ j = r + 1
  OBVIOUS
<1>2. \A j \in 1..r : j \in 1..r + 1
  OBVIOUS
<1>3. \A i \in 1..Len(im) : \E j \in 1..r + 1 : im[i] \in {LinuxOf(list[j]), MbOf(list[j])}
  BY <1>2 DEF RankedUpTo
<1>4. ASSUME NEW j \in 1..r + 1, list[j] \in B
      PROVE  \E i \in 1..Len(im) : im[i] = LinuxOf(list[j])
  <2>1. PICK g \in 1..r : list[g] = list[j]
    BY <1>1
  <2> QED
    BY <1>4, <2>1 DEF RankedUpTo
<1>5. ASSUME NEW m \in Labels, NEW j \in 1..r + 1, list[j] \in B, \A i \in 1..j : list[i] # m
      PROVE  \E k \in 1..Len(im) : im[k] = LinuxOf(list[j]) /\ \A i \in 1..k : im[i] # LinuxOf(m)
  <2>1. PICK g \in 1..r : list[g] = list[j] /\ g <= j
    BY <1>1
  <2>2. \A i \in 1..g : list[i] # m
    BY <1>5, <2>1
  <2>3. list[g] \in B
    BY <1>5, <2>1
  <2>4. \E k \in 1..Len(im) : im[k] = LinuxOf(list[g]) /\ \A i \in 1..k : im[i] # LinuxOf(m)
    BY <2>2, <2>3 DEF RankedUpTo
  <2> QED
    BY <2>1, <2>4
<1>6. r > 0
  OBVIOUS
<1> QED
  BY <1>3, <1>4, <1>5, <1>6 DEF RankedUpTo

\* The turn for a label that has not: it adds the images f of the label.
LEMMA NewLabel ==
    ASSUME NEW list \in Seq(Labels), NEW r \in Nat, r < Len(list), NEW im, NEW B,
           RankedUpTo(im, list, r, B), \A h \in 1..r : list[h] # list[r + 1],
           NEW f \in Seq({LinuxOf(list[r + 1]), MbOf(list[r + 1])}),
           \A i, k \in 1..Len(f) : f[i] = f[k] => i = k,
           list[r + 1] \in B => Len(f) > 0 /\ f[1] = LinuxOf(list[r + 1])
    PROVE  RankedUpTo(im \o f, list, r + 1, B)
<1> DEFINE l == list[r + 1]
           new == im \o f
           a == Len(im)
           b == Len(f)
<1>1. /\ im \in Seq({"linux", "multiboot"} \X Labels)
      /\ \A i, k \in 1..a : im[i] = im[k] => i = k
      /\ \A i \in 1..a : \E j \in 1..r : im[i] \in {LinuxOf(list[j]), MbOf(list[j])}
  BY DEF RankedUpTo
<1>2. l \in Labels /\ \A j \in 1..r : list[j] \in Labels /\ list[j] # l
  OBVIOUS
<1>3. f \in Seq({"linux", "multiboot"} \X Labels)
  <2>1. {LinuxOf(l), MbOf(l)} \subseteq {"linux", "multiboot"} \X Labels
    BY <1>2 DEF LinuxOf, MbOf
  <2> QED
    BY <2>1
<1>4. /\ a \in Nat /\ b \in Nat
      /\ new \in Seq({"linux", "multiboot"} \X Labels) /\ Len(new) = a + b
      /\ \A i \in 1..a : new[i] = im[i]
      /\ \A i \in 1..b : new[a + i] = f[i]
  BY <1>1, <1>3, ConcatProperties, LenProperties
<1>5. \A i \in 1..b : f[i] \in {LinuxOf(l), MbOf(l)}
  OBVIOUS
<1> HIDE DEF l, new, a, b
<1>6. \A i \in 1..a + b : i \in 1..a \/ (i - a \in 1..b /\ new[i] = f[i - a])
  BY <1>4
\* The label is new, and so are its images.
<1>7. ASSUME NEW i \in 1..a
      PROVE  im[i] # LinuxOf(l) /\ im[i] # MbOf(l)
  <2>1. PICK j \in 1..r : im[i] = LinuxOf(list[j]) \/ im[i] = MbOf(list[j])
    BY <1>1
  <2>2. list[j] # l
    BY <1>2
  <2> QED
    BY <2>1, <2>2 DEF LinuxOf, MbOf
<1>8. ASSUME NEW i \in 1..a + b, NEW k \in 1..a + b, new[i] = new[k]
      PROVE  i = k
  <2>1. CASE i \in 1..a /\ k \in 1..a
    BY <1>1, <1>4, <1>8, <2>1
  <2>2. CASE i \notin 1..a /\ k \notin 1..a
    <3>1. f[i - a] = f[k - a] /\ i - a \in 1..b /\ k - a \in 1..b
      BY <1>6, <1>8, <2>2
    <3>2. i - a = k - a
      BY <3>1 DEF b
    <3> QED
      BY <1>4, <3>2
  <2>3. CASE i \in 1..a /\ k \notin 1..a
    <3>1. new[i] = im[i] /\ new[k] \in {LinuxOf(l), MbOf(l)}
      BY <1>4, <1>5, <1>6, <2>3
    <3> QED
      BY <1>7, <1>8, <2>3, <3>1
  <2>4. CASE i \notin 1..a /\ k \in 1..a
    <3>1. new[k] = im[k] /\ new[i] \in {LinuxOf(l), MbOf(l)}
      BY <1>4, <1>5, <1>6, <2>4
    <3> QED
      BY <1>7, <1>8, <2>4, <3>1
  <2> QED
    BY <2>1, <2>2, <2>3, <2>4
<1>9. ASSUME NEW i \in 1..a + b
      PROVE  \E j \in 1..r + 1 : new[i] \in {LinuxOf(list[j]), MbOf(list[j])}
  <2>1. CASE i \in 1..a
    <3>1. PICK j \in 1..r : im[i] \in {LinuxOf(list[j]), MbOf(list[j])}
      BY <1>1, <2>1
    <3>2. j \in 1..r + 1
      OBVIOUS
    <3> QED
      BY <1>4, <2>1, <3>1, <3>2
  <2>2. CASE i \notin 1..a
    <3>1. new[i] \in {LinuxOf(l), MbOf(l)} /\ r + 1 \in 1..r + 1
      BY <1>5, <1>6, <2>2
    <3> QED
      BY <3>1 DEF l
  <2> QED
    BY <2>1, <2>2
<1>10. l \in B => a + 1 \in 1..a + b /\ new[a + 1] = LinuxOf(l)
  <2>1. l \in B => 1 \in 1..b /\ f[1] = LinuxOf(l)
    BY <1>4 DEF l, b
  <2>2. 1 \in 1..b => a + 1 \in 1..a + b /\ new[a + 1] = f[1]
    BY <1>4
  <2> QED
    BY <2>1, <2>2
<1>11. ASSUME NEW j \in 1..r + 1, list[j] \in B
       PROVE  \E i \in 1..a + b : new[i] = LinuxOf(list[j])
  <2>1. CASE j \in 1..r
    <3>1. PICK i \in 1..a : im[i] = LinuxOf(list[j])
      BY <1>11, <2>1 DEF RankedUpTo, a
    <3>2. i \in 1..a + b
      BY <1>4
    <3> QED
      BY <1>4, <3>1, <3>2
  <2>2. CASE j = r + 1
    BY <1>10, <1>11, <2>2 DEF l
  <2> QED
    BY <2>1, <2>2
<1>12. ASSUME list[1] \in B
       PROVE  a + b > 0 /\ new[1] = LinuxOf(list[1])
  <2>1. CASE r > 0
    <3>1. a > 0 /\ im[1] = LinuxOf(list[1])
      BY <1>12, <2>1 DEF RankedUpTo, a
    <3> QED
      BY <1>4, <3>1
  <2>2. CASE r = 0
    <3>1. a = 0
      <4>1. 1 \in 1..a => \E j \in 1..r : TRUE
        BY <1>1
      <4> QED
        BY <1>4, <2>2, <4>1
    <3>2. l = list[1]
      BY <2>2 DEF l
    <3> QED
      BY <1>4, <1>10, <1>12, <3>1, <3>2
  <2> QED
    BY <2>1, <2>2
<1>13. ASSUME NEW m \in Labels, NEW j \in 1..r + 1, list[j] \in B, \A i \in 1..j : list[i] # m
       PROVE  \E k \in 1..a + b : new[k] = LinuxOf(list[j]) /\ \A i \in 1..k : new[i] # LinuxOf(m)
  <2>1. CASE j \in 1..r
    <3>1. PICK k \in 1..a : im[k] = LinuxOf(list[j]) /\ \A i \in 1..k : im[i] # LinuxOf(m)
      BY <1>13, <2>1 DEF RankedUpTo, a
    <3>2. k \in 1..a + b /\ \A i \in 1..k : new[i] = im[i]
      BY <1>4
    <3>3. \A i \in 1..k : new[i] # LinuxOf(m)
      BY <3>1, <3>2
    <3>4. new[k] = LinuxOf(list[j])
      BY <1>4, <3>1
    <3> QED
      BY <3>2, <3>3, <3>4
  <2>2. CASE j = r + 1
    <3>1. \A i \in 1..a : im[i] # LinuxOf(m)
      <4>1. \A h \in 1..r : list[h] # m
        BY <1>13, <2>2
      <4> QED
        BY <1>1, <4>1 DEF LinuxOf, MbOf
    <3>2. list[j] = l /\ l # m
      BY <1>13, <2>2 DEF l
    <3>3. LinuxOf(l) # LinuxOf(m)
      BY <3>2 DEF LinuxOf
    <3>4. a + 1 \in 1..a + b /\ new[a + 1] = LinuxOf(l)
      BY <1>10, <1>13, <3>2
    <3>5. \A i \in 1..a + 1 : i \in 1..a \/ i = a + 1
      BY <1>4
    <3>6. \A i \in 1..a + 1 : new[i] # LinuxOf(m)
      BY <1>4, <3>1, <3>3, <3>4, <3>5
    <3> QED
      BY <3>2, <3>4, <3>6
  <2> QED
    BY <2>1, <2>2
<1>14. RankedUpTo(new, list, r + 1, B)
  BY <1>4, <1>8, <1>9, <1>11, <1>12, <1>13 DEF RankedUpTo
<1> QED
  BY <1>14 DEF new

\* The labels with a Linux image.
Boots == {l \in Labels : Bootable(l)}

\* The labels and the asked-for defaults have their types.
OrderTypeOK ==
    /\ labelOrder \in Seq(Labels) /\ ranked \in Nat
    /\ nerfDefaultEntry \in Entries /\ defaultEntry \in Entries

\* labelOrder has the labels of the text, in their order.
LabelInv ==
    /\ \A l \in Labels : linux[l].exists => \E k \in DOMAIN labelOrder : labelOrder[k] = l
    /\ \A l \in Labels : (\E k \in DOMAIN labelOrder : labelOrder[k] = l)
                             <=> \E k \in DOMAIN text : text[k] = <<"label", l>>
    /\ \A l, m \in Labels : l # m /\ Precedes(text, <<"label", l>>, <<"label", m>>) =>
          Precedes(labelOrder, l, m)

\* Line k asks for l as the default: MENU DEFAULT for the label it is in.
AsksFor(k, l) ==
    /\ k \in DOMAIN text
    /\ IF Is(k, "menudefault")
       THEN \E h \in 1..k : text[h] = <<"label", l>> /\ \A i \in h + 1..k : ~Is(i, "label")
       ELSE text[k][2] = l

\* The default entries are those the text asks for last.
WishInv ==
    /\ \/ NerfWishes = {} /\ nerfDefaultEntry = Empty
       \/ \E k \in NerfWishes : /\ IsLast(k, NerfWishes) /\ nerfDefaultEntry = text[k][2]
                                /\ nerfDefaultEntry \in Labels
    /\ \/ Wishes = {} /\ defaultEntry = Empty
       \/ \E k \in Wishes : IsLast(k, Wishes) /\ AsksFor(k, defaultEntry) /\ defaultEntry \in Labels

\* The loop starts when the parser is done, and ends with the last label.
ImagesInv ==
    /\ depth > 0 => ranked = 0
    /\ ranked = 0 \/ labelOrder = <<>> => images = <<>>
    /\ status \in {"parsing", "ok"} /\ labelOrder # <<>> =>
          /\ RankedUpTo(images, Order, ranked, Boots)
          /\ IF status = "ok" THEN ranked = Len(Order) ELSE ranked < Len(Order)

RankInv == OrderTypeOK /\ LabelInv /\ WishInv /\ ImagesInv

\* Before the first turn there is nothing.
LEMMA NothingRanked ==
    ASSUME NEW list, NEW B
    PROVE  RankedUpTo(<<>>, list, 0, B)
  BY DEF RankedUpTo

\* The list of the loop: p.labelOrder with the default entries before it.
LEMMA OrderIs ==
    ASSUME OrderTypeOK
    PROVE  /\ Order \in Seq(Labels)
           /\ \E p \in Seq(Labels) :
                /\ Order = p \o labelOrder
                /\ \A k \in 1..Len(p) : p[k] \in {nerfDefaultEntry, defaultEntry}
                /\ nerfDefaultEntry # Empty => Len(p) > 0 /\ p[1] = nerfDefaultEntry
                /\ nerfDefaultEntry = Empty /\ defaultEntry # Empty => Len(p) > 0 /\ p[1] = defaultEntry
<1> DEFINE nerf == IF nerfDefaultEntry # Empty THEN <<nerfDefaultEntry>> ELSE <<>>
           def == IF defaultEntry # Empty THEN <<defaultEntry>> ELSE <<>>
           p == nerf \o def
<1>1. nerf \in Seq(Labels) /\ def \in Seq(Labels) /\ labelOrder \in Seq(Labels)
  BY DEF OrderTypeOK, Entries
<1>2. /\ nerfDefaultEntry # Empty => Len(nerf) = 1 /\ nerf[1] = nerfDefaultEntry
      /\ nerfDefaultEntry = Empty => Len(nerf) = 0
      /\ defaultEntry # Empty => Len(def) = 1 /\ def[1] = defaultEntry
      /\ defaultEntry = Empty => Len(def) = 0
  OBVIOUS
<1>3. Order = nerf \o def \o labelOrder
  BY DEF Order
<1> HIDE DEF nerf, def
<1>4. /\ p \in Seq(Labels) /\ Len(p) = Len(nerf) + Len(def) /\ Len(nerf) \in Nat /\ Len(def) \in Nat
      /\ \A k \in 1..Len(nerf) + Len(def) : p[k] = IF k <= Len(nerf) THEN nerf[k] ELSE def[k - Len(nerf)]
  BY <1>1, ConcatProperties, LenProperties
<1> HIDE DEF p
<1>5. Order = p \o labelOrder
  BY <1>3 DEF p
<1>6. Order \in Seq(Labels)
  BY <1>1, <1>4, <1>5, ConcatProperties
<1>7. \A k \in 1..Len(p) : p[k] \in {nerfDefaultEntry, defaultEntry}
  BY <1>2, <1>4
<1>8. nerfDefaultEntry # Empty => Len(p) > 0 /\ p[1] = nerfDefaultEntry
  BY <1>2, <1>4
<1>9. nerfDefaultEntry = Empty /\ defaultEntry # Empty => Len(p) > 0 /\ p[1] = defaultEntry
  BY <1>2, <1>4
<1> QED
  BY <1>4, <1>5, <1>6, <1>7, <1>8, <1>9

\* A further element comes after all others.
LEMMA PrecedesGrows ==
    ASSUME NEW S, NEW s \in Seq(S), NEW z \in S, NEW x, NEW y, x # y
    PROVE  Precedes(Append(s, z), x, y) <=>
              Precedes(s, x, y) \/ (z = x /\ \A i \in DOMAIN s : s[i] # y)
<1> DEFINE n == Len(s)
           t == Append(s, z)
<1>1. /\ n \in Nat /\ DOMAIN s = 1..n /\ DOMAIN t = 1..n + 1
      /\ \A i \in 1..n : t[i] = s[i]
      /\ t[n + 1] = z
  BY AppendProperties, LenProperties
<1> HIDE DEF n, t
<1> SUFFICES Precedes(t, x, y) <=> Precedes(s, x, y) \/ (z = x /\ \A i \in DOMAIN s : s[i] # y)
  BY DEF t
<1>2. ASSUME NEW j \in 1..n
      PROVE  (\A i \in 1..j : t[i] # y) <=> \A i \in 1..j : s[i] # y
  <2>1. \A i \in 1..j : t[i] = s[i]
    BY <1>1
  <2> QED
    BY <2>1
<1>3. ASSUME Precedes(t, x, y)
      PROVE  Precedes(s, x, y) \/ (z = x /\ \A i \in 1..n : s[i] # y)
  <2>1. PICK j \in 1..n + 1 : t[j] = x /\ \A i \in 1..j : t[i] # y
    BY <1>1, <1>3 DEF Precedes
  <2>2. CASE j \in 1..n
    <3>1. s[j] = x /\ \A i \in 1..j : s[i] # y
      BY <1>1, <1>2, <2>1, <2>2
    <3> QED
      BY <1>1, <2>2, <3>1 DEF Precedes
  <2>3. CASE j = n + 1
    BY <1>1, <2>1, <2>3
  <2> QED
    BY <1>1, <2>2, <2>3
<1>4. ASSUME Precedes(s, x, y)
      PROVE  Precedes(t, x, y)
  <2>1. PICK j \in 1..n : s[j] = x /\ \A i \in 1..j : s[i] # y
    BY <1>1, <1>4 DEF Precedes
  <2>2. j \in 1..n + 1 /\ t[j] = x /\ \A i \in 1..j : t[i] # y
    BY <1>1, <1>2, <2>1
  <2> QED
    BY <1>1, <2>2 DEF Precedes
<1>5. ASSUME z = x, \A i \in 1..n : s[i] # y
      PROVE  Precedes(t, x, y)
  <2>1. n + 1 \in 1..n + 1 /\ t[n + 1] = x
    BY <1>1, <1>5
  <2>2. \A i \in 1..n + 1 : i \in 1..n \/ i = n + 1
    BY <1>1
  <2>3. \A i \in 1..n + 1 : t[i] # y
    BY <1>1, <1>5, <2>1, <2>2
  <2> QED
    BY <1>1, <2>1, <2>3 DEF Precedes
<1> QED
  BY <1>1, <1>3, <1>4, <1>5

\* What comes before does not depend on a prefix without it.
LEMMA PrecedesAfter ==
    ASSUME NEW S, NEW p \in Seq(S), NEW s \in Seq(S), NEW x, NEW y, Precedes(s, x, y),
           \A k \in 1..Len(p) : p[k] # x /\ p[k] # y
    PROVE  Precedes(p \o s, x, y)
<1> DEFINE a == Len(p)
           t == p \o s
<1>1. /\ a \in Nat /\ Len(s) \in Nat /\ DOMAIN s = 1..Len(s) /\ DOMAIN t = 1..a + Len(s)
      /\ \A k \in 1..a : t[k] = p[k]
      /\ \A k \in 1..Len(s) : t[a + k] = s[k]
  BY ConcatProperties, LenProperties
<1> HIDE DEF a, t
<1>2. PICK j \in 1..Len(s) : s[j] = x /\ \A i \in 1..j : s[i] # y
  BY <1>1 DEF Precedes
<1>3. a + j \in 1..a + Len(s) /\ t[a + j] = x
  BY <1>1, <1>2
<1>4. ASSUME NEW i \in 1..a + j PROVE t[i] # y
  <2>1. CASE i \in 1..a
    BY <1>1, <2>1 DEF a
  <2>2. CASE i \notin 1..a
    <3>1. i - a \in 1..j /\ i - a \in 1..Len(s) /\ a + (i - a) = i
      BY <1>1, <2>2
    <3>2. t[i] = s[i - a]
      BY <1>1, <3>1
    <3> QED
      BY <1>2, <3>1, <3>2
  <2> QED
    BY <2>1, <2>2
<1>5. Precedes(t, x, y)
  BY <1>1, <1>3, <1>4 DEF Precedes
<1> QED
  BY <1>5 DEF t

\* A LABEL line names a label that labelOrder has, too, and no other line does.
LEMMA LabelInvKept ==
    ASSUME SyslinuxTypeOK, OrderTypeOK, LabelInv, labelOrder' = labelOrder,
           \A l \in Labels : linux'[l].exists => linux[l].exists,
           \/ text' = text
           \/ \E op \in Ops \ {"label"} : \E arg \in Words : Line(op, arg)
    PROVE  LabelInv'
<1>1. text \in Seq(Ops \X Words) /\ DOMAIN text = 1..Len(text) /\ Len(text) \in Nat
  BY LenProperties DEF SyslinuxTypeOK
<1>2. \A l \in Labels : (\E k \in DOMAIN text' : text'[k] = <<"label", l>>)
                            <=> \E k \in DOMAIN text : text[k] = <<"label", l>>
  <2>1. ASSUME NEW op \in Ops \ {"label"}, NEW arg \in Words, Line(op, arg), NEW l \in Labels
        PROVE  (\E k \in DOMAIN text' : text'[k] = <<"label", l>>)
                   <=> \E k \in DOMAIN text : text[k] = <<"label", l>>
    <3>1. /\ DOMAIN text' = 1..Len(text) + 1
          /\ \A k \in 1..Len(text) : text'[k] = text[k]
          /\ text'[Len(text) + 1] # <<"label", l>>
      BY <2>1, LineAdded
    <3>2. \A k \in 1..Len(text) + 1 : k \in 1..Len(text) \/ k = Len(text) + 1
      BY <1>1
    <3>3. \A k \in 1..Len(text) : k \in 1..Len(text) + 1
      BY <1>1
    <3> QED
      BY <1>1, <3>1, <3>2, <3>3
  <2> QED
    BY <2>1
<1>3. \A l, m \in Labels : l # m /\ Precedes(text', <<"label", l>>, <<"label", m>>) =>
          Precedes(text, <<"label", l>>, <<"label", m>>)
  <2>1. ASSUME NEW op \in Ops \ {"label"}, NEW arg \in Words, Line(op, arg), NEW l \in Labels, NEW m \in Labels, l # m
        PROVE  Precedes(text', <<"label", l>>, <<"label", m>>) => Precedes(text, <<"label", l>>, <<"label", m>>)
    <3>1. text' = Append(text, <<op, arg>>) /\ <<op, arg>> \in Ops \X Words
      BY <2>1 DEF Line
    <3>2. <<"label", l>> # <<"label", m>> /\ <<op, arg>> # <<"label", l>>
      BY <2>1
    <3>3. Precedes(text', <<"label", l>>, <<"label", m>>) <=>
             \/ Precedes(text, <<"label", l>>, <<"label", m>>)
             \/ <<op, arg>> = <<"label", l>> /\ \A i \in DOMAIN text : text[i] # <<"label", m>>
      <4> DEFINE x == <<"label", l>>
                 y == <<"label", m>>
                 z == <<op, arg>>
                 S == Ops \X Words
      <4>1. text \in Seq(S) /\ z \in S /\ x # y /\ text' = Append(text, z)
        BY <1>1, <3>1, <3>2
      <4> HIDE DEF x, y, z, S
      <4>2. Precedes(text', x, y) <=> Precedes(text, x, y) \/ (z = x /\ \A i \in DOMAIN text : text[i] # y)
        BY <4>1, PrecedesGrows
      <4> QED
        BY <4>2 DEF x, y, z
    <3> QED
      BY <3>2, <3>3
  <2> QED
    BY <2>1
<1>4. \A l, m \in Labels : l # m /\ Precedes(text', <<"label", l>>, <<"label", m>>) => Precedes(labelOrder', l, m)
  BY <1>3 DEF LabelInv
<1>5. \A l \in Labels : linux'[l].exists => \E k \in DOMAIN labelOrder' : labelOrder'[k] = l
  BY DEF LabelInv
<1>6. \A l \in Labels : (\E k \in DOMAIN labelOrder' : labelOrder'[k] = l)
                            <=> \E k \in DOMAIN text' : text'[k] = <<"label", l>>
  BY <1>2 DEF LabelInv
<1> QED
  BY <1>4, <1>5, <1>6 DEF LabelInv

\* LABEL adds its label at the end of both.
LEMMA LabelInvGrows ==
    ASSUME SyslinuxTypeOK, OrderTypeOK, LabelInv, NEW h \in Labels, Label(h)
    PROVE  OrderTypeOK' /\ LabelInv'
<1>1. /\ Line("label", h) /\ text' = Append(text, <<"label", h>>) /\ labelOrder' = Append(labelOrder, h)
      /\ linux' = [linux EXCEPT ![h] = LinuxEntry(globalAppend)]
      /\ "label" \in Ops /\ h \in Words /\ <<"label", h>> \in Ops \X Words
      /\ UNCHANGED <<nerfDefaultEntry, defaultEntry, ranked>>
  BY DEF Label, Line, Ops, Words
<1>2. text \in Seq(Ops \X Words) /\ labelOrder \in Seq(Labels)
  BY DEF SyslinuxTypeOK, OrderTypeOK
<1>3. /\ DOMAIN text = 1..Len(text) /\ Len(text) \in Nat /\ DOMAIN text' = 1..Len(text) + 1
      /\ \A k \in 1..Len(text) : text'[k] = text[k]
      /\ text'[Len(text) + 1] = <<"label", h>>
  BY <1>1, LineAdded
<1>4. /\ DOMAIN labelOrder = 1..Len(labelOrder) /\ Len(labelOrder) \in Nat
      /\ labelOrder' \in Seq(Labels) /\ DOMAIN labelOrder' = 1..Len(labelOrder) + 1
      /\ \A k \in 1..Len(labelOrder) : labelOrder'[k] = labelOrder[k]
      /\ labelOrder'[Len(labelOrder) + 1] = h
  <2>1. labelOrder' \in Seq(Labels) /\ Len(labelOrder') = Len(labelOrder) + 1
    BY <1>1, <1>2, AppendProperties
  <2> QED
    BY <1>1, <1>2, <2>1, AppendProperties, LenProperties
<1>5. OrderTypeOK'
  BY <1>1, <1>4 DEF OrderTypeOK
<1>6. ASSUME NEW l \in Labels
      PROVE  (\E k \in DOMAIN labelOrder' : labelOrder'[k] = l) <=>
                (\E k \in DOMAIN labelOrder : labelOrder[k] = l) \/ l = h
  <2>1. /\ \A k \in 1..Len(labelOrder) + 1 : k \in 1..Len(labelOrder) \/ k = Len(labelOrder) + 1
        /\ \A k \in 1..Len(labelOrder) : k \in 1..Len(labelOrder) + 1
        /\ Len(labelOrder) + 1 \in 1..Len(labelOrder) + 1
    BY <1>4
  <2> QED
    BY <1>4, <2>1
<1>7. ASSUME NEW l \in Labels
      PROVE  (\E k \in DOMAIN text' : text'[k] = <<"label", l>>) <=>
                (\E k \in DOMAIN text : text[k] = <<"label", l>>) \/ l = h
  <2>1. /\ \A k \in 1..Len(text) + 1 : k \in 1..Len(text) \/ k = Len(text) + 1
        /\ \A k \in 1..Len(text) : k \in 1..Len(text) + 1
        /\ Len(text) + 1 \in 1..Len(text) + 1
    BY <1>3
  <2>2. text'[Len(text) + 1] = <<"label", l>> <=> l = h
    BY <1>3
  <2> QED
    BY <1>3, <2>1, <2>2
<1>8. ASSUME NEW l \in Labels, linux'[l].exists
      PROVE  \E k \in DOMAIN labelOrder' : labelOrder'[k] = l
  <2>1. l # h => linux'[l] = linux[l]
    BY <1>1 DEF SyslinuxTypeOK, Entries
  <2> QED
    BY <1>6, <1>8, <2>1 DEF LabelInv
<1>9. ASSUME NEW l \in Labels, NEW m \in Labels, l # m, Precedes(text', <<"label", l>>, <<"label", m>>)
      PROVE  Precedes(labelOrder', l, m)
  <2>1. Precedes(text', <<"label", l>>, <<"label", m>>) <=>
           \/ Precedes(text, <<"label", l>>, <<"label", m>>)
           \/ <<"label", h>> = <<"label", l>> /\ \A i \in DOMAIN text : text[i] # <<"label", m>>
    BY <1>1, <1>2, <1>9, PrecedesGrows
  <2>2. Precedes(labelOrder', l, m) <=>
           Precedes(labelOrder, l, m) \/ (h = l /\ \A i \in DOMAIN labelOrder : labelOrder[i] # m)
    BY <1>1, <1>2, <1>9, PrecedesGrows
  <2>3. CASE Precedes(text, <<"label", l>>, <<"label", m>>)
    BY <1>9, <2>2, <2>3 DEF LabelInv
  <2>4. CASE <<"label", h>> = <<"label", l>> /\ \A i \in DOMAIN text : text[i] # <<"label", m>>
    <3>1. \A i \in DOMAIN labelOrder : labelOrder[i] # m
      BY <2>4 DEF LabelInv
    <3> QED
      BY <2>2, <2>4, <3>1
  <2> QED
    BY <1>9, <2>1, <2>3, <2>4
<1>10. \A l \in Labels : (\E k \in DOMAIN labelOrder' : labelOrder'[k] = l)
                             <=> \E k \in DOMAIN text' : text'[k] = <<"label", l>>
  BY <1>6, <1>7 DEF LabelInv
<1> QED
  BY <1>5, <1>8, <1>9, <1>10 DEF LabelInv, Precedes

\* What a line asks for does not change by the lines after it.
LEMMA WishesGrow ==
    ASSUME SyslinuxTypeOK, NEW op \in Ops, NEW arg \in Words, Line(op, arg)
    PROVE  /\ \A k : k \in NerfWishes' <=> k \in NerfWishes \/ (k = Len(text) + 1 /\ op = "nerfdefault")
           /\ \A k : k \in Wishes' <=>
                 \/ k \in Wishes
                 \/ k = Len(text) + 1 /\ op = "default"
                 \/ k = Len(text) + 1 /\ op = "menudefault" /\ \E j \in DOMAIN text : Is(j, "label")
           /\ \A k \in Wishes : \A l : AsksFor(k, l) => AsksFor(k, l)'
           /\ \A k \in NerfWishes : text'[k] = text[k]
<1> DEFINE n == Len(text)
<1>1. /\ n \in Nat /\ DOMAIN text = 1..n /\ DOMAIN text' = 1..n + 1
      /\ \A k \in 1..n : text'[k] = text[k]
      /\ text'[n + 1] = <<op, arg>>
  BY LineAdded
<1>2. text'[n + 1][1] = op
  BY <1>1
<1> HIDE DEF n
<1>3. /\ \A k \in 1..n + 1 : k \in 1..n \/ k = n + 1
      /\ \A k \in 1..n : k \in 1..n + 1 /\ k # n + 1
      /\ n + 1 \in 1..n + 1
  BY <1>1
<1>4. \A k \in 1..n : \A j \in 1..k : text'[j] = text[j]
  BY <1>1
<1>5. \A k \in 1..n : (\E j \in 1..k : text'[j][1] = "label") <=> \E j \in 1..k : text[j][1] = "label"
  BY <1>4
<1>6. ASSUME NEW k
      PROVE  k \in NerfWishes' <=> k \in NerfWishes \/ (k = n + 1 /\ op = "nerfdefault")
  <2>1. k \in NerfWishes' <=> k \in 1..n + 1 /\ text'[k][1] = "nerfdefault"
    BY <1>1 DEF NerfWishes, Is
  <2>2. k \in NerfWishes <=> k \in 1..n /\ text[k][1] = "nerfdefault"
    BY <1>1 DEF NerfWishes, Is
  <2> QED
    BY <1>1, <1>2, <1>3, <2>1, <2>2
<1>7. (\E j \in 1..n + 1 : text'[j][1] = "label") <=> op = "label" \/ \E j \in 1..n : text[j][1] = "label"
  BY <1>1, <1>2, <1>3
<1>8. ASSUME NEW k
      PROVE  k \in Wishes' <=>
                 \/ k \in Wishes
                 \/ k = n + 1 /\ op = "default"
                 \/ k = n + 1 /\ op = "menudefault" /\ \E j \in DOMAIN text : Is(j, "label")
  <2>1. k \in Wishes' <=> /\ k \in 1..n + 1
                          /\ \/ text'[k][1] = "default"
                             \/ text'[k][1] = "menudefault" /\ \E j \in 1..k : text'[j][1] = "label"
    BY <1>1 DEF Wishes, Is
  <2>2. k \in Wishes <=> /\ k \in 1..n
                         /\ \/ text[k][1] = "default"
                            \/ text[k][1] = "menudefault" /\ \E j \in 1..k : text[j][1] = "label"
    BY <1>1 DEF Wishes, Is
  <2>3. (\E j \in DOMAIN text : Is(j, "label")) <=> \E j \in 1..n : text[j][1] = "label"
    BY <1>1 DEF Is
  <2>4. CASE k \in 1..n
    BY <1>1, <1>3, <1>5, <2>1, <2>2, <2>4
  <2>5. CASE k = n + 1
    BY <1>1, <1>2, <1>3, <1>7, <2>1, <2>2, <2>3, <2>5
  <2>6. CASE k \notin 1..n + 1
    BY <1>3, <2>1, <2>2, <2>6
  <2> QED
    BY <2>4, <2>5, <2>6, <1>3
<1>9. ASSUME NEW k \in Wishes, NEW l, AsksFor(k, l)
      PROVE  AsksFor(k, l)'
  <2>1. k \in 1..n /\ k \in 1..n + 1
    BY <1>1, <1>3 DEF Wishes
  <2>2. text'[k] = text[k] /\ \A j \in 1..k : text'[j] = text[j]
    BY <1>1, <1>4, <2>1
  <2>3. CASE text[k][1] = "menudefault"
    <3>1. PICK h \in 1..k : text[h] = <<"label", l>> /\ \A i \in h + 1..k : text[i][1] # "label"
      BY <1>9, <2>3 DEF AsksFor, Is
    <3>2. \A i \in h + 1..k : i \in 1..k
      BY <2>1
    <3>3. text'[h] = <<"label", l>> /\ \A i \in h + 1..k : text'[i][1] # "label"
      BY <2>2, <3>1, <3>2
    <3> QED
      BY <1>1, <2>1, <2>2, <2>3, <3>3 DEF AsksFor, Is
  <2>4. CASE text[k][1] # "menudefault"
    BY <1>1, <1>9, <2>1, <2>2, <2>4 DEF AsksFor, Is
  <2> QED
    BY <2>3, <2>4
<1>10. \A k \in NerfWishes : text'[k] = text[k]
  BY <1>1 DEF NerfWishes
<1> QED
  BY <1>6, <1>8, <1>9, <1>10 DEF n


\* What is asked for is what Wish finds in the text.
LEMMA WishIs ==
    ASSUME SyslinuxTypeOK, NEW k \in Wishes, NEW l, AsksFor(k, l)
    PROVE  Wish(k) = l
<1>1. k \in Nat
  BY LenProperties DEF Wishes, SyslinuxTypeOK
<1> DEFINE L == {j \in 1..k : Is(j, "label")}
<1>2. CASE Is(k, "menudefault")
  <2>1. PICK h \in 1..k : text[h] = <<"label", l>> /\ \A i \in h + 1..k : ~Is(i, "label")
    BY <1>2 DEF AsksFor
  <2>2. Is(h, "label") /\ text[h][2] = l
    BY <2>1 DEF Is
  <2>3. \A j \in 1..k : Is(j, "label") => j <= h
    BY <1>1, <2>1
  <2>4. IsLast(h, L)
    BY <2>2, <2>3 DEF IsLast
  <2>5. Latest(L) = h
    BY <1>1, <2>4, LatestIs
  <2> QED
    BY <1>2, <2>2, <2>5 DEF Wish
<1>3. CASE ~Is(k, "menudefault")
  BY <1>3 DEF AsksFor, Wish
<1> QED
  BY <1>2, <1>3

\* A line that asks for no default changes neither of them.
LEMMA WishInvKept ==
    ASSUME SyslinuxTypeOK, WishInv, UNCHANGED <<nerfDefaultEntry, defaultEntry>>,
           \/ text' = text
           \/ \E op \in Ops \ {"default", "nerfdefault", "menudefault"} : \E arg \in Words : Line(op, arg)
           \/ Line("menudefault", Empty) /\ \A j \in DOMAIN text : ~Is(j, "label")
    PROVE  WishInv'
<1>1. CASE text' = text
  BY <1>1 DEF WishInv, NerfWishes, Wishes, AsksFor, Is, IsLast
<1>2. ASSUME NEW op \in Ops, NEW arg \in Words, Line(op, arg), op \notin {"default", "nerfdefault"},
             op = "menudefault" => \A j \in DOMAIN text : ~Is(j, "label")
      PROVE  WishInv'
  <2>1. /\ \A k : k \in NerfWishes' <=> k \in NerfWishes
        /\ \A k : k \in Wishes' <=> k \in Wishes
        /\ \A k \in Wishes : \A l : AsksFor(k, l) => AsksFor(k, l)'
        /\ \A k \in NerfWishes : text'[k] = text[k]
    BY <1>2, WishesGrow
  <2>2. NerfWishes' = NerfWishes /\ Wishes' = Wishes
    BY <2>1
  <2>3. \/ NerfWishes' = {} /\ nerfDefaultEntry' = Empty
        \/ \E k \in NerfWishes' : /\ IsLast(k, NerfWishes') /\ nerfDefaultEntry' = text'[k][2]
                                  /\ nerfDefaultEntry' \in Labels
    BY <2>1, <2>2 DEF WishInv
  <2>4. \/ Wishes' = {} /\ defaultEntry' = Empty
        \/ \E k \in Wishes' : IsLast(k, Wishes') /\ AsksFor(k, defaultEntry)' /\ defaultEntry' \in Labels
    BY <2>1, <2>2 DEF WishInv
  <2> QED
    BY <2>3, <2>4 DEF WishInv, IsLast
<1>3. "menudefault" \in Ops /\ Empty \in Words
  BY DEF Ops, Words
<1> QED
  BY <1>1, <1>2, <1>3

\* DEFAULT and MENU DEFAULT: l is now what the text asks for last.
LEMMA WishInvGrows ==
    ASSUME SyslinuxTypeOK, WishInv, NEW op \in {"default", "menudefault"}, NEW arg \in Words, Line(op, arg),
           NEW l \in Labels, defaultEntry' = l, nerfDefaultEntry' = nerfDefaultEntry,
           op = "default" => l = arg,
           op = "menudefault" => \E h \in DOMAIN text : /\ text[h] = <<"label", l>>
                                                        /\ \A i \in DOMAIN text : i > h => ~Is(i, "label")
    PROVE  WishInv'
<1> SUFFICES ASSUME NEW n, n = Len(text) PROVE WishInv'
  OBVIOUS
<1>0. op \in Ops /\ op # "nerfdefault"
  BY DEF Ops
<1>1. /\ n \in Nat /\ DOMAIN text = 1..n /\ DOMAIN text' = 1..n + 1
      /\ \A k \in 1..n : text'[k] = text[k]
      /\ text'[n + 1] = <<op, arg>>
  BY <1>0, LineAdded
<1>2. /\ \A k : k \in NerfWishes' <=> k \in NerfWishes
      /\ \A k \in NerfWishes : text'[k] = text[k]
  BY <1>0, WishesGrow
<1>3. \A k : k \in Wishes' <=>
         \/ k \in Wishes
         \/ k = n + 1 /\ op = "default"
         \/ k = n + 1 /\ op = "menudefault" /\ \E j \in DOMAIN text : Is(j, "label")
  BY <1>0, WishesGrow
<1>4. AsksFor(n + 1, l)' /\ n + 1 \in Wishes'
  <2>1. n + 1 \in DOMAIN text'
    BY <1>1
  <2>2. CASE op = "default"
    <3>1. text'[n + 1][1] # "menudefault" /\ text'[n + 1][2] = l
      BY <1>1, <2>2
    <3> QED
      BY <1>3, <2>1, <2>2, <3>1 DEF AsksFor, Is
  <2>3. CASE op = "menudefault"
    <3>1. PICK h \in 1..n : text[h] = <<"label", l>> /\ \A i \in 1..n : i > h => text[i][1] # "label"
      BY <1>1, <2>3 DEF Is
    <3>2. text'[n + 1][1] = "menudefault"
      BY <1>1, <2>3
    <3>3. h \in 1..n + 1 /\ text'[h] = <<"label", l>>
      BY <1>1, <3>1
    <3>4. ASSUME NEW i \in h + 1..n + 1 PROVE text'[i][1] # "label"
      <4>1. CASE i \in 1..n
        BY <1>1, <3>1, <3>4, <4>1
      <4>2. CASE i = n + 1
        BY <3>2, <4>2
      <4> QED
        BY <1>1, <3>1, <3>4, <4>1, <4>2
    <3>5. text[h][1] = "label" /\ h \in DOMAIN text
      BY <1>1, <3>1
    <3> QED
      BY <1>3, <2>1, <2>3, <3>2, <3>3, <3>4, <3>5 DEF AsksFor, Is
  <2> QED
    BY <2>2, <2>3
<1>5. \A k \in Wishes' : k <= n + 1
  <2>1. \A k \in Wishes : k <= n + 1
    BY <1>1 DEF Wishes
  <2> QED
    BY <1>1, <1>3, <2>1
<1>6. NerfWishes' = NerfWishes
  BY <1>2
<1>7. \/ NerfWishes' = {} /\ nerfDefaultEntry' = Empty
      \/ \E k \in NerfWishes' : /\ IsLast(k, NerfWishes') /\ nerfDefaultEntry' = text'[k][2]
                                /\ nerfDefaultEntry' \in Labels
  BY <1>2, <1>6 DEF WishInv
<1>8. \E k \in Wishes' : IsLast(k, Wishes') /\ AsksFor(k, l)' /\ l \in Labels
  BY <1>4, <1>5 DEF IsLast
<1> QED
  BY <1>7, <1>8 DEF WishInv, IsLast, AsksFor, Is

\* NERFDEFAULT.
LEMMA WishInvNerf ==
    ASSUME SyslinuxTypeOK, WishInv, NEW l \in Labels, NerfDefault(l)
    PROVE  WishInv'
<1> SUFFICES ASSUME NEW n, n = Len(text) PROVE WishInv'
  OBVIOUS
<1>1. /\ Line("nerfdefault", l) /\ "nerfdefault" \in Ops /\ l \in Words
      /\ nerfDefaultEntry' = l /\ defaultEntry' = defaultEntry
  BY DEF NerfDefault, Ops, Words
<1>2. /\ n \in Nat /\ DOMAIN text = 1..n /\ text'[n + 1][2] = l
  BY <1>1, LineAdded
<1>3. /\ \A k : k \in NerfWishes' <=> k \in NerfWishes \/ k = n + 1
      /\ \A k : k \in Wishes' <=> k \in Wishes
      /\ \A k \in Wishes : \A m : AsksFor(k, m) => AsksFor(k, m)'
  BY <1>1, WishesGrow
<1>4. \A k \in NerfWishes' : k <= n + 1
  BY <1>2, <1>3 DEF NerfWishes
<1>5. \E k \in NerfWishes' : IsLast(k, NerfWishes') /\ nerfDefaultEntry' = text'[k][2] /\ nerfDefaultEntry' \in Labels
  BY <1>1, <1>2, <1>3, <1>4 DEF IsLast
<1>6. Wishes' = Wishes
  BY <1>3
<1>7. \/ Wishes' = {} /\ defaultEntry' = Empty
      \/ \E k \in Wishes' : IsLast(k, Wishes') /\ AsksFor(k, defaultEntry)' /\ defaultEntry' \in Labels
  BY <1>1, <1>3, <1>6 DEF WishInv
<1> QED
  BY <1>5, <1>7 DEF WishInv, IsLast

\* A label has at most one image of each kind, the Linux one first.
LEMMA ImagesOfLabel ==
    ASSUME NEW l
    PROVE  /\ ImagesOf(l) \in Seq({LinuxOf(l), MbOf(l)})
           /\ \A i, k \in 1..Len(ImagesOf(l)) : ImagesOf(l)[i] = ImagesOf(l)[k] => i = k
           /\ Bootable(l) => Len(ImagesOf(l)) > 0 /\ ImagesOf(l)[1] = LinuxOf(l)
<1> DEFINE x == LinuxOf(l)
           y == MbOf(l)
<1>1. x # y
  BY DEF LinuxOf, MbOf
<1> DEFINE a == IF Bootable(l) THEN <<x>> ELSE <<>>
           b == IF mb[l].exists /\ mb[l].kernel THEN <<y>> ELSE <<>>
<1>2. ImagesOf(l) = a \o b
  BY DEF ImagesOf, Bootable, LinuxOf, MbOf
<1>3. /\ a \in Seq({x, y}) /\ b \in Seq({x, y})
      /\ (Bootable(l) /\ Len(a) = 1 /\ a[1] = x) \/ (~Bootable(l) /\ Len(a) = 0)
      /\ (Len(b) = 1 /\ b[1] = y) \/ Len(b) = 0
  OBVIOUS
<1> HIDE DEF x, y, a, b
<1> DEFINE f == ImagesOf(l)
<1>4. f = a \o b
  BY <1>2
<1> HIDE DEF f
<1>5. /\ f \in Seq({x, y}) /\ Len(f) = Len(a) + Len(b)
      /\ \A i \in 1..Len(a) + Len(b) : f[i] = IF i <= Len(a) THEN a[i] ELSE b[i - Len(a)]
  BY <1>3, <1>4, ConcatProperties
<1>6. ASSUME Bootable(l) PROVE Len(f) > 0 /\ f[1] = x
  <2>1. Len(a) = 1 /\ a[1] = x /\ Len(b) \in Nat
    BY <1>3, <1>6, LenProperties
  <2> QED
    BY <1>5, <2>1
<1>7. ASSUME NEW i \in 1..Len(f), NEW k \in 1..Len(f), f[i] = f[k]
      PROVE  i = k
  <2>1. CASE Len(f) <= 1
    BY <1>3, <1>5, <2>1
  <2>2. CASE Len(f) = 2
    <3>1. Len(a) = 1 /\ a[1] = x /\ Len(b) = 1 /\ b[1] = y
      <4>1. Len(a) + Len(b) = 2
        BY <1>5, <2>2
      <4>2. (Len(a) = 1 /\ a[1] = x) \/ Len(a) = 0
        BY <1>3, Zenon
      <4>3. Len(b) = 1 \/ Len(b) = 0
        BY <1>3, Zenon
      <4>4. Len(a) = 1 \/ Len(a) = 0
        BY <4>2, Zenon
      <4>5. Len(a) # 0 /\ Len(b) # 0
        <5> SUFFICES ASSUME NEW m \in {0, 1}, NEW n \in {0, 1}, m + n = 2
                     PROVE  m # 0 /\ n # 0
          BY <4>1, <4>3, <4>4
        <5> QED
          OBVIOUS
      <4> QED
        BY <1>3, <4>2, <4>5, Zenon
    <3>2. f[1] = x /\ f[2] = y
      BY <1>5, <3>1
    <3>3. i \in {1, 2} /\ k \in {1, 2}
      BY <2>2
    <3> QED
      BY <1>1, <1>7, <3>2, <3>3
  <2> QED
    BY <1>3, <1>5, <2>1, <2>2
<1> QED
  BY <1>5, <1>6, <1>7 DEF f, x, y

\* Before the loop.
NotRanked == OrderTypeOK /\ ranked = 0 /\ images = <<>> /\ status # "ok"

\* While the parser runs, nothing is ranked.
LEMMA NotRankedYet ==
    ASSUME NotRanked
    PROVE  ImagesInv
<1>0. OrderTypeOK /\ ranked = 0 /\ images = <<>> /\ status # "ok"
  BY DEF NotRanked
<1>1. Order \in Seq(Labels)
  BY <1>0, OrderIs
<1>2. labelOrder # <<>> => 0 < Len(Order)
  <2>1. PICK p \in Seq(Labels) : Order = p \o labelOrder
    BY <1>0, OrderIs
  <2>2. labelOrder \in Seq(Labels)
    BY <1>0 DEF OrderTypeOK
  <2>3. Len(Order) = Len(p) + Len(labelOrder) /\ Len(p) \in Nat /\ Len(labelOrder) \in Nat
    BY <2>1, <2>2, ConcatProperties, LenProperties
  <2>4. labelOrder # <<>> => Len(labelOrder) > 0
    BY <2>2, EmptySeq
  <2> QED
    BY <2>3, <2>4
<1>3. RankedUpTo(images, Order, ranked, Boots)
  BY <1>0, NothingRanked
<1> QED
  BY <1>0, <1>2, <1>3 DEF ImagesInv

\* A turn of the loop of ParseConfigFile.
LEMMA LabelRanked ==
    ASSUME OrderTypeOK, ImagesInv, RankLabel
    PROVE  OrderTypeOK' /\ ImagesInv'
<1>1. /\ status = "parsing" /\ depth = 0 /\ depth' = 0 /\ ranked' = ranked + 1 /\ ranked \in Nat
      /\ UNCHANGED <<linux, mb, labelOrder, nerfDefaultEntry, defaultEntry>>
  BY DEF RankLabel, parser, OrderTypeOK
<1>2. OrderTypeOK' /\ Order' = Order /\ Boots' = Boots
  BY <1>1 DEF OrderTypeOK, Order, Boots, Bootable
<1>3. CASE labelOrder = <<>>
  <2>1. images' = <<>>
    BY <1>3 DEF ImagesInv, RankLabel
  <2> QED
    BY <1>1, <1>2, <1>3, <2>1 DEF ImagesInv
<1>4. CASE labelOrder # <<>>
  <2>0. Order \in Seq(Labels) /\ ranked \in Nat
    BY <1>1, OrderIs
  <2> SUFFICES ASSUME NEW r \in Nat, r = ranked, NEW list \in Seq(Labels), list = Order, NEW B, B = Boots
               PROVE  ImagesInv'
    BY <1>2, <2>0
  <2>1. /\ RankedUpTo(images, list, r, B) /\ r < Len(list) /\ Len(list) \in Nat
        /\ images' = IF Seen(r + 1) THEN images ELSE images \o ImagesOf(list[r + 1])
        /\ status' = IF r + 1 = Len(list) THEN "ok" ELSE status
    BY <1>1, <1>4, LenProperties DEF ImagesInv, RankLabel
  <2>2. Seen(r + 1) <=> \E h \in 1..r : list[h] = list[r + 1]
    BY DEF Seen
  <2>3. RankedUpTo(images', list, r + 1, B)
    <3>1. CASE Seen(r + 1)
      BY <2>1, <2>2, <3>1, SeenLabel
    <3>2. CASE ~Seen(r + 1)
      <4> DEFINE l == list[r + 1]
                 f == ImagesOf(l)
      <4>1. l \in Labels /\ (l \in B => Bootable(l))
        BY <2>1 DEF Boots
      <4>2. /\ f \in Seq({LinuxOf(l), MbOf(l)})
            /\ \A i, k \in 1..Len(f) : f[i] = f[k] => i = k
            /\ l \in B => Len(f) > 0 /\ f[1] = LinuxOf(l)
        BY <4>1, ImagesOfLabel
      <4>3. images' = images \o f /\ \A h \in 1..r : list[h] # l
        BY <2>1, <2>2, <3>2
      <4> HIDE DEF f
      <4>4. RankedUpTo(images \o f, list, r + 1, B)
        BY <2>1, <4>2, <4>3, NewLabel
      <4> QED
        BY <4>3, <4>4
    <3> QED
      BY <3>1, <3>2
  <2>4. IF status' = "ok" THEN r + 1 = Len(list) ELSE r + 1 < Len(list)
    BY <1>1, <2>1
  <2>5. RankedUpTo(images, Order, ranked, Boots)'
    BY <1>1, <1>2, <2>3
  <2> QED
    BY <1>1, <1>2, <1>4, <2>4, <2>5 DEF ImagesInv
<1> QED
  BY <1>3, <1>4

\* When the loop has ended, the list is ranked as intended.
LEMMA RankedAtEnd ==
    ASSUME SyslinuxTypeOK, RankInv
    PROVE  Ranked
<1> SUFFICES ASSUME status = "ok" PROVE Ranked
  BY DEF Ranked
<1>1. OrderTypeOK /\ LabelInv /\ WishInv /\ ImagesInv
  BY DEF RankInv
<1>2. labelOrder \in Seq(Labels) /\ DOMAIN labelOrder = 1..Len(labelOrder)
  BY <1>1, LenProperties DEF OrderTypeOK
<1>3. \A l \in Labels : Bootable(l) => \E k \in 1..Len(labelOrder) : labelOrder[k] = l
  BY <1>1, <1>2 DEF LabelInv, Bootable
<1>4. \A l \in Labels : l # Empty
  BY SyslinuxAssumption
\* The two wishes, from the text.
<1>5. /\ NerfWishes # {} => nerfDefaultEntry \in Labels /\ text[Latest(NerfWishes)][2] = nerfDefaultEntry
      /\ NerfWishes = {} => nerfDefaultEntry = Empty
  <2>1. NerfWishes \subseteq Nat
    BY LenProperties DEF NerfWishes, SyslinuxTypeOK
  <2>2. ASSUME NEW k \in NerfWishes, IsLast(k, NerfWishes)
        PROVE  Latest(NerfWishes) = k
    BY <2>1, <2>2, LatestIs
  <2> QED
    BY <1>1, <2>2 DEF WishInv
<1>6. Wishes # {} => defaultEntry \in Labels /\ Wish(Latest(Wishes)) = defaultEntry
  <2>1. Wishes \subseteq Nat
    BY LenProperties DEF Wishes, SyslinuxTypeOK
  <2>2. ASSUME NEW k \in Wishes, IsLast(k, Wishes), AsksFor(k, defaultEntry)
        PROVE  Latest(Wishes) = k /\ Wish(k) = defaultEntry
    BY <2>1, <2>2, LatestIs, WishIs
  <2> QED
    BY <1>1, <2>2 DEF WishInv
<1>7. CASE labelOrder = <<>>
  <2>1. images = <<>> /\ \A l \in Labels : ~Bootable(l)
    BY <1>1, <1>3, <1>7 DEF ImagesInv
  <2>2. IsInjective(images)
    BY <2>1 DEF IsInjective
  <2> QED
    BY <1>5, <1>6, <2>1, <2>2 DEF Ranked, ComesFirst
<1>8. CASE labelOrder # <<>>
  <2>1. RankedUpTo(images, Order, Len(Order), Boots) /\ Order \in Seq(Labels)
    BY <1>1, <1>8, OrderIs DEF ImagesInv
  <2>2. PICK p \in Seq(Labels) :
          /\ Order = p \o labelOrder
          /\ \A k \in 1..Len(p) : p[k] \in {nerfDefaultEntry, defaultEntry}
          /\ nerfDefaultEntry # Empty => Len(p) > 0 /\ p[1] = nerfDefaultEntry
          /\ nerfDefaultEntry = Empty /\ defaultEntry # Empty => Len(p) > 0 /\ p[1] = defaultEntry
    BY <1>1, OrderIs
  <2>3. /\ Len(Order) = Len(p) + Len(labelOrder) /\ Len(p) \in Nat /\ Len(labelOrder) \in Nat
        /\ DOMAIN Order = 1..Len(Order)
        /\ \A k \in 1..Len(p) : Order[k] = p[k]
        /\ \A k \in 1..Len(labelOrder) : Order[Len(p) + k] = labelOrder[k]
    BY <1>2, <2>1, <2>2, ConcatProperties, LenProperties
  <2>4. \A l \in Labels : Bootable(l) => l \in Boots /\ \E k \in 1..Len(Order) : Order[k] = l
    <3>1. ASSUME NEW l \in Labels, Bootable(l) PROVE \E k \in 1..Len(Order) : Order[k] = l
      <4>1. PICK k \in 1..Len(labelOrder) : labelOrder[k] = l
        BY <1>3, <3>1
      <4>2. Len(p) + k \in 1..Len(Order) /\ Order[Len(p) + k] = l
        BY <2>3, <4>1
      <4> QED
        BY <4>2
    <3> QED
      BY <3>1 DEF Boots
  <2>5. images \in Seq({"linux", "multiboot"} \X Labels) /\ DOMAIN images = 1..Len(images)
    BY <2>1, LenProperties DEF RankedUpTo
  <2>6. IsInjective(images)
    BY <2>1, <2>5 DEF IsInjective, RankedUpTo
  <2>7. \A l \in Labels : Bootable(l) => Contains(images, <<"linux", l>>)
    <3>1. \A j \in 1..Len(Order) : Order[j] \in Boots => \E i \in 1..Len(images) : images[i] = LinuxOf(Order[j])
      BY <2>1 DEF RankedUpTo
    <3>2. \A l \in Labels : Bootable(l) => \E i \in 1..Len(images) : images[i] = LinuxOf(l)
      BY <2>4, <3>1
    <3> QED
      BY <3>2 DEF Contains, LinuxOf
  <2>8. ASSUME NEW l \in Labels, l = Order[1], Len(Order) > 0
        PROVE  ComesFirst(l)
    <3>1. ASSUME Bootable(l) PROVE Len(images) > 0 /\ images[1] = LinuxOf(l)
      BY <2>1, <2>4, <2>8, <3>1 DEF RankedUpTo
    <3> QED
      BY <2>5, <3>1 DEF ComesFirst, LinuxOf
  <2>9. NerfWishes # {} => ComesFirst(text[Latest(NerfWishes)][2])
    <3>1. NerfWishes # {} => Len(Order) > 0 /\ Order[1] = nerfDefaultEntry
      BY <1>4, <1>5, <2>2, <2>3
    <3> QED
      BY <1>5, <2>8, <3>1
  <2>10. NerfWishes = {} /\ Wishes # {} => ComesFirst(Wish(Latest(Wishes)))
    <3>1. NerfWishes = {} /\ Wishes # {} => Len(Order) > 0 /\ Order[1] = defaultEntry
      BY <1>4, <1>5, <1>6, <2>2, <2>3
    <3> QED
      BY <1>6, <2>8, <3>1
  <2>11. ASSUME NEW l \in Labels \ {nerfDefaultEntry, defaultEntry},
                NEW m \in Labels \ {nerfDefaultEntry, defaultEntry},
                l # m, Bootable(l), Precedes(text, <<"label", l>>, <<"label", m>>)
         PROVE  Precedes(images, <<"linux", l>>, <<"linux", m>>)
    <3>1. Precedes(labelOrder, l, m)
      BY <1>1, <2>11 DEF LabelInv
    <3>2. \A k \in 1..Len(p) : p[k] # l /\ p[k] # m
      BY <2>2
    <3>3. Precedes(Order, l, m)
      BY <1>2, <2>2, <3>1, <3>2, PrecedesAfter
    <3>4. PICK j \in 1..Len(Order) : Order[j] = l /\ \A i \in 1..j : Order[i] # m
      BY <2>3, <3>3 DEF Precedes
    <3>5. Order[j] \in Boots
      BY <2>4, <2>11, <3>4
    <3>6. PICK k \in 1..Len(images) : images[k] = LinuxOf(l) /\ \A i \in 1..k : images[i] # LinuxOf(m)
      <4>1. \A n \in Labels : \A h \in 1..Len(Order) :
               Order[h] \in Boots /\ (\A i \in 1..h : Order[i] # n) =>
                  \E k \in 1..Len(images) : images[k] = LinuxOf(Order[h]) /\ \A i \in 1..k : images[i] # LinuxOf(n)
        BY <2>1 DEF RankedUpTo
      <4> QED
        BY <3>4, <3>5, <4>1
    <3> QED
      BY <2>5, <3>6 DEF Precedes, LinuxOf
  <2> QED
    BY <2>6, <2>7, <2>9, <2>10, <2>11 DEF Ranked
<1> QED
  BY <1>7, <1>8

\* A step of the parser leaves the list alone.
LEMMA ParserSteps ==
    ASSUME SyslinuxTypeOK, ImagesInv, Next, ~RankLabel
    PROVE  ranked' = 0 /\ images' = <<>> /\ status' # "ok"
<1>1. Parsing /\ UNCHANGED <<ranked, images>> /\ (UNCHANGED status \/ status' = "panic" \/ \E err \in {"url", "other"} : Returns(err))
  BY DEF Next, Default, NerfDefault, Label, MenuDefault, Include, IncludeMissing, Mboot, Kernel, Fdt, Initrd,
         SetFile, AppendLine, AppendPanics, FileFails, IncludeFails, EndOfFile, EndOfFileFails, Line
<1>2. status' # "ok"
  BY <1>1 DEF Returns, Parsing
<1> QED
  BY <1>1, <1>2 DEF ImagesInv, Parsing, SyslinuxTypeOK

\* RankInv is an invariant.
LEMMA RankInvariance == Spec => []RankInv
<1>0. NotRanked' => ImagesInv'
  <2>1. NotRanked => ImagesInv
    BY NotRankedYet
  <2> QED
    BY <2>1, PTL
<1>1. Init => RankInv
  <2> SUFFICES ASSUME Init PROVE RankInv
    OBVIOUS
  <2>1. /\ text = <<>> /\ DOMAIN text = {} /\ labelOrder = <<>> /\ labelOrder \in Seq(Labels)
        /\ nerfDefaultEntry = Empty /\ defaultEntry = Empty /\ ranked = 0 /\ images = <<>> /\ status # "ok"
    BY DEF Init
  <2>2. OrderTypeOK
    BY <2>1 DEF OrderTypeOK, Entries
  <2>3. \A l \in Labels : ~linux[l].exists
    BY DEF Init, NoEntry, Entries
  <2>4. LabelInv
    BY <2>1, <2>3 DEF LabelInv, Precedes
  <2>5. WishInv
    BY <2>1 DEF WishInv, NerfWishes, Wishes
  <2> QED
    BY <2>1, <2>2, <2>4, <2>5, NotRankedYet DEF RankInv, NotRanked
<1>2. RankInv /\ SyslinuxInv /\ [Next]_vars => RankInv'
  <2> SUFFICES ASSUME RankInv, SyslinuxInv, [Next]_vars PROVE RankInv'
    OBVIOUS
  <2>0. /\ SyslinuxTypeOK /\ CurInv
        /\ OrderTypeOK /\ LabelInv /\ WishInv /\ ImagesInv
    BY DEF RankInv, SyslinuxInv
  <2>1. CASE UNCHANGED vars
    <3>1. UNCHANGED <<linux, labelOrder, defaultEntry, nerfDefaultEntry, depth, status, ranked, images, text>>
      BY <2>1 DEF vars, parser
    <3>2. OrderTypeOK'
      BY <2>0, <3>1 DEF OrderTypeOK
    <3>3. LabelInv'
      BY <2>0, <3>1, LabelInvKept
    <3>4. WishInv'
      BY <2>0, <3>1, WishInvKept
    <3>5. Order' = Order /\ Boots' = Boots
      BY <3>1 DEF Order, Boots, Bootable
    <3>6. ImagesInv'
      BY <2>0, <3>1, <3>5 DEF ImagesInv
    <3> QED
      BY <3>2, <3>3, <3>4, <3>6 DEF RankInv
  <2>2. CASE RankLabel
    <3>1. UNCHANGED <<linux, labelOrder, defaultEntry, nerfDefaultEntry, text>>
      BY <2>2 DEF RankLabel, parser
    <3>2. LabelInv'
      BY <2>0, <3>1, LabelInvKept
    <3>3. WishInv'
      BY <2>0, <3>1, WishInvKept
    <3> QED
      BY <2>0, <2>2, <3>2, <3>3, LabelRanked DEF RankInv
  <2>3. CASE Next /\ ~RankLabel
    <3>0. ranked' = 0 /\ images' = <<>> /\ status' # "ok"
      BY <2>0, <2>3, ParserSteps
    <3> SUFFICES OrderTypeOK' /\ LabelInv' /\ WishInv'
      <4>1. OrderTypeOK' => ImagesInv'
        BY <1>0, <3>0 DEF NotRanked
      <4> QED
        BY <4>1 DEF RankInv
    \* The steps that read no label and no default.
    <3>1. ASSUME UNCHANGED <<labelOrder, defaultEntry, nerfDefaultEntry>>,
                 \A l \in Labels : linux'[l].exists => linux[l].exists,
                 \/ text' = text
                 \/ \E op \in Ops \ {"label", "default", "nerfdefault", "menudefault"} : \E arg \in Words : Line(op, arg)
          PROVE  OrderTypeOK' /\ LabelInv' /\ WishInv'
      <4>1. OrderTypeOK'
        BY <2>0, <3>0, <3>1 DEF OrderTypeOK
      <4>2. LabelInv'
        BY <2>0, <3>1, LabelInvKept
      <4>3. WishInv'
        BY <2>0, <3>1, WishInvKept
      <4> QED
        BY <4>1, <4>2, <4>3
    \* The lines that read a default.
    <3>2. ASSUME UNCHANGED <<labelOrder, linux>>, defaultEntry' \in Entries, nerfDefaultEntry' \in Entries,
                 \E op \in Ops \ {"label"} : \E arg \in Words : Line(op, arg)
          PROVE  OrderTypeOK' /\ LabelInv'
      <4>1. OrderTypeOK'
        BY <2>0, <3>0, <3>2 DEF OrderTypeOK
      <4>2. LabelInv'
        BY <2>0, <3>2, LabelInvKept
      <4> QED
        BY <4>1, <4>2
    <3>3. ASSUME NEW l \in Labels, Default(l) PROVE OrderTypeOK' /\ LabelInv' /\ WishInv'
      <4>1. /\ Line("default", l) /\ "default" \in Ops \ {"label"} /\ l \in Words /\ l \in Entries
            /\ defaultEntry' = l /\ UNCHANGED <<labelOrder, linux, nerfDefaultEntry>>
        BY <3>3 DEF Default, Ops, Words, Entries
      <4>2. OrderTypeOK' /\ LabelInv'
        BY <2>0, <3>2, <4>1 DEF OrderTypeOK
      <4>3. WishInv'
        BY <2>0, <4>1, WishInvGrows
      <4> QED
        BY <4>2, <4>3
    <3>4. ASSUME NEW l \in Labels, NerfDefault(l) PROVE OrderTypeOK' /\ LabelInv' /\ WishInv'
      <4>1. /\ Line("nerfdefault", l) /\ "nerfdefault" \in Ops \ {"label"} /\ l \in Words /\ l \in Entries
            /\ nerfDefaultEntry' = l /\ UNCHANGED <<labelOrder, linux, defaultEntry>>
        BY <3>4 DEF NerfDefault, Ops, Words, Entries
      <4>2. OrderTypeOK' /\ LabelInv'
        BY <2>0, <3>2, <4>1 DEF OrderTypeOK
      <4>3. WishInv'
        BY <2>0, <3>4, WishInvNerf
      <4> QED
        BY <4>2, <4>3
    <3>5. CASE MenuDefault
      <4>1. /\ Line("menudefault", Empty) /\ "menudefault" \in Ops \ {"label"} /\ Empty \in Words
            /\ defaultEntry' = IF scope = "entry" THEN curEntry ELSE defaultEntry
            /\ UNCHANGED <<labelOrder, linux, nerfDefaultEntry>> /\ curEntry \in Entries
            /\ scope \in {"global", "entry"}
        BY <2>0, <3>5 DEF MenuDefault, Ops, Words, SyslinuxTypeOK
      <4>2. OrderTypeOK' /\ LabelInv'
        BY <2>0, <3>2, <4>1 DEF OrderTypeOK
      <4>3. WishInv'
        <5>1. CASE scope = "global"
          <6>1. \A j \in DOMAIN text : ~Is(j, "label")
            BY <2>0, <5>1 DEF CurInv
          <6> QED
            BY <2>0, <4>1, <5>1, <6>1, WishInvKept
        <5>2. CASE scope = "entry"
          <6>1. PICK l \in Labels : l = curEntry
            BY <2>0, <5>2 DEF CurInv
          <6>2. \E h \in DOMAIN text : text[h] = <<"label", l>> /\ \A i \in DOMAIN text : i > h => ~Is(i, "label")
            BY <2>0, <5>2, <6>1 DEF CurInv
          <6> QED
            BY <2>0, <4>1, <5>2, <6>1, <6>2, WishInvGrows
        <5> QED
          BY <4>1, <5>1, <5>2
      <4> QED
        BY <4>2, <4>3
    <3>6. ASSUME NEW l \in Labels, Label(l) PROVE OrderTypeOK' /\ LabelInv' /\ WishInv'
      <4>1. /\ Line("label", l) /\ "label" \in Ops \ {"default", "nerfdefault", "menudefault"} /\ l \in Words
            /\ UNCHANGED <<defaultEntry, nerfDefaultEntry>>
        BY <3>6 DEF Label, Ops, Words
      <4>2. OrderTypeOK' /\ LabelInv'
        BY <2>0, <3>6, LabelInvGrows
      <4>3. WishInv'
        BY <2>0, <4>1, WishInvKept
      <4> QED
        BY <4>2, <4>3
    <3>7. CASE Include \/ IncludeMissing
      <4>1. /\ "include" \in Ops \ {"label", "default", "nerfdefault", "menudefault"}
            /\ "missing" \in Ops \ {"label", "default", "nerfdefault", "menudefault"} /\ Empty \in Words
        BY DEF Ops, Words
      <4>2. /\ UNCHANGED <<labelOrder, defaultEntry, nerfDefaultEntry, linux>>
            /\ Line("include", Empty) \/ Line("missing", Empty)
        BY <3>7 DEF Include, IncludeMissing, parser
      <4> QED
        BY <3>1, <4>1, <4>2
    <3>8. CASE Mboot
      <4>1. /\ Line("mboot", Empty) /\ "mboot" \in Ops \ {"label", "default", "nerfdefault", "menudefault"}
            /\ Empty \in Words
            /\ UNCHANGED <<labelOrder, defaultEntry, nerfDefaultEntry>>
            /\ linux' = [linux EXCEPT ![curEntry] = NoEntry]
        BY <3>8 DEF Mboot, Ops, Words
      <4>2. \A l \in Labels : linux'[l].exists => linux[l].exists
        BY <2>0, <4>1 DEF SyslinuxTypeOK, NoEntry, Entries
      <4> QED
        BY <3>1, <4>1, <4>2
    <3>9. CASE Kernel \/ Fdt \/ Initrd
      <4>1. PICK op \in {"kernel", "fdt", "initrd"} : \/ op = "kernel" /\ Kernel
                                                      \/ op = "fdt" /\ Fdt
                                                      \/ op = "initrd" /\ Initrd
        BY <3>9
      <4>2. /\ op \in Ops \ {"label", "append"} /\ Empty \in Words /\ Line(op, Empty)
            /\ \A l \in Entries : linux'[l].exists = linux[l].exists
        BY <2>0, <4>1, FileLine
      <4>3. UNCHANGED <<labelOrder, defaultEntry, nerfDefaultEntry>>
        BY <3>9 DEF Kernel, Fdt, Initrd, SetFile
      <4>4. op \in Ops \ {"label", "default", "nerfdefault", "menudefault"}
        BY <4>1, <4>2
      <4>5. \A l \in Labels : linux'[l].exists => linux[l].exists
        BY <4>2 DEF Entries
      <4> QED
        BY <3>1, <4>2, <4>3, <4>4, <4>5
    <3>10. ASSUME NEW arg \in Appends, AppendLine(arg) PROVE OrderTypeOK' /\ LabelInv' /\ WishInv'
      <4>1. /\ Line("append", arg) /\ "append" \in Ops \ {"label", "default", "nerfdefault", "menudefault"}
            /\ arg \in Words
            /\ UNCHANGED <<labelOrder, defaultEntry, nerfDefaultEntry>>
            /\ linux' = IF scope = "entry" /\ linux[curEntry].exists
                        THEN [linux EXCEPT ![curEntry].cmdline = Overridden(linux[curEntry], arg)] ELSE linux
        BY <3>10 DEF AppendLine, Ops, Words, e
      <4>2. \A l \in Labels : linux'[l].exists => linux[l].exists
        <5>1. CASE scope = "entry" /\ linux[curEntry].exists
          <6>1. linux \in [Entries -> {NoEntry} \cup Entry] /\ curEntry \in Entries
            BY <2>0 DEF SyslinuxTypeOK
          <6>2. \A l \in Entries : l # curEntry => linux'[l] = linux[l]
            BY <4>1, <5>1, <6>1
          <6> QED
            BY <5>1, <6>2 DEF Entries
        <5>2. CASE ~(scope = "entry" /\ linux[curEntry].exists)
          BY <4>1, <5>2
        <5> QED
          BY <5>1, <5>2
      <4> QED
        BY <3>1, <4>1, <4>2
    <3>11. CASE AppendPanics \/ FileFails \/ IncludeFails \/ EndOfFile \/ EndOfFileFails
      <4>1. text' = text /\ CmdlinesKept
        BY <2>0, <3>11, FileEnds
      <4>2. UNCHANGED <<labelOrder, defaultEntry, nerfDefaultEntry>>
        BY <3>11 DEF AppendPanics, FileFails, IncludeFails, EndOfFile, EndOfFileFails, parser
      <4> QED
        BY <3>1, <4>1, <4>2 DEF CmdlinesKept
    <3> QED
      BY <2>3, <3>3, <3>4, <3>5, <3>6, <3>7, <3>8, <3>9, <3>10, <3>11 DEF Next
  <2> QED
    BY <2>1, <2>2, <2>3
<1> QED
  BY <1>1, <1>2, SyslinuxInvariance, PTL DEF Spec

\* "Intended order": what ParseConfigFile returns is ranked, for any configuration.
THEOREM LabelsAreRanked == Spec => []Ranked
<1>1. SyslinuxInv /\ RankInv => Ranked
  BY RankedAtEnd DEF SyslinuxInv
<1> QED
  BY <1>1, SyslinuxInvariance, RankInvariance, PTL

=============================================================================
