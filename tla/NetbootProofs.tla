--------------------------- MODULE NetbootProofs ----------------------------
(***************************************************************************)
(* Proofs about Netboot: for any number of interfaces, any command line    *)
(* and any leases.                                                         *)
(*                                                                         *)
(* GoInv is about the goroutines of SendRequests alone: the WaitGroup, the *)
(* channel, and which worker has sent.  BootInv relates NetbootImages to   *)
(* them, and ProbeInv is about the search for a PXE configuration.         *)
(***************************************************************************)
EXTENDS Netboot, FiniteSetTheorems, SequenceTheorems, TLAPS

\* A worker has sent its result, and the result g waits in the channel.
Sent(g) == gpc[g] \in {"return", "done"}
InChannel(g) == \E k \in 1..Len(r) : r[k] = g

GoTypeOK ==
    /\ opt \in CommandLines
    /\ gpc \in [Links \cup Workers -> {"up", "spawn", "none", "dad", "lease", "send", "return", "done"}]
    /\ \A g \in Links : gpc[g] \in {"up", "spawn", "return", "done"}
    /\ \A g \in Workers : gpc[g] \in {"none", "dad", "lease", "send", "return", "done"}
    /\ outcome \in [Workers -> Offers \cup {Failed}]
    /\ r \in Seq(Workers) /\ closed \in BOOLEAN /\ expired \in BOOLEAN

\* The workers of an interface start when its link is up.
NotStarted ==
    \A i \in opt.ifs : gpc[<<i, 0>>] \in {"up", "spawn"} =>
        \A p \in opt.protos : gpc[<<i, p>>] = "none"
WaitGroupCounts == wg = Cardinality({g \in DOMAIN gpc : Live(g)})
ClosedLast == closed => \A g \in DOMAIN gpc : ~Live(g)
SentOnce ==
    /\ \A k \in 1..Len(r) : Sent(r[k])
    /\ \A j, k \in 1..Len(r) : r[j] = r[k] => j = k
NoLeaseYet == \A g \in Workers : gpc[g] \in {"none", "dad", "lease"} => outcome[g] = Failed

GoInv == GoTypeOK /\ NotStarted /\ WaitGroupCounts /\ ClosedLast /\ SentOnce /\ NoLeaseYet

\* The lease of cur is configured, as far as Configure does that with IPv4.
Configured ==
    /\ cur \in addrs
    /\ GivesDefault(lease) => route = cur

\* What Configure has done for the result at hand, when it has returned nil and on its way.
ConfigInv ==
    /\ mpc \in {"addr", "routes", "dns"} => ~configured
    /\ mpc = "routes" => cur \in addrs /\ cur[2] = 4
    /\ mpc = "dns" /\ cur[2] = 4 => Configured
    /\ configured => /\ cur \in Workers
                     /\ cur[2] = 4 => Configured
                     /\ cur[2] = 4 \/ lease.dns => dns = cur

\* A lease with a URL is still to be received or is the one at hand.
URLsAreSeen ==
    \A g \in Workers : outcome[g] # Failed /\ HasURL(outcome[g]) =>
        \/ gpc[g] = "send" \/ InChannel(g)
        \/ g = cur /\ mpc # "select" /\ ret # "nothing"

BootInv ==
    /\ mpc \in {"select", "addr", "routes", "dns", "boot", "fetch", "probe", "return"}
    /\ ret \in {"none", "deadline", "nothing", "images"} /\ (ret = "none" <=> mpc # "return")
    /\ cur \in Workers \cup {Nobody} /\ configured \in BOOLEAN
    /\ cur \in Workers => Sent(cur) /\ ~InChannel(cur)
    /\ mpc \notin {"select", "return"} \/ ret = "images" => cur \in Workers /\ lease \in Offers
    /\ ret = "nothing" => r = <<>> /\ closed
    /\ ConfigInv /\ URLsAreSeen

\* The names that a configuration of this name is preferred to have been looked
\* for, and were missing, taken for missing, or could not be fetched.
Skipped(n) == lease.configs[n] \in {"missing", "noscheme"} \/ n \in lost
PreferredAreMissing(n) ==
    \A m \in ProbeNames : MoreSpecific(m, n) /\ (m[1] = "ip" => cur[2] = 4) => Skipped(m)

ProbeFiles4 == probeFiles(TRUE)
ProbeFiles6 == probeFiles(FALSE)
Names == IF cur[2] = 4 THEN ProbeFiles4 ELSE ProbeFiles6
ImageNames == {"ipxe", "fit", "mac", "ip", "default"} \X (0..IPLen)

\* The first j names have been skipped.
Probed(j) ==
    /\ Len(probing) = Len(Names) - j
    /\ \A k \in 1..Len(probing) : probing[k] = Names[j + k]
    /\ \A k \in 1..j : Skipped(Names[k])

ProbeInv ==
    /\ images \in Seq(ImageNames) /\ probing \in Seq(ProbeNames)
    /\ mpc # "probe" /\ ret # "images" => images = <<>>
    /\ mpc = "probe" => /\ \A k \in 1..Len(images) : images[k] \notin ProbeNames
                        /\ \E j \in 0..Len(Names) : Probed(j)
    /\ \A k \in 1..Len(images) : images[k] \in ProbeNames => PreferredAreMissing(images[k])

-----------------------------------------------------------------------------
(***************************************************************************)
(* The processes and the channel.                                          *)
(***************************************************************************)

\* What is known of a command line (CommandLines).
LEMMA OptFacts ==
    ASSUME opt \in CommandLines
    PROVE  /\ IsFiniteSet(opt.ifs) /\ opt.protos \subseteq {4, 6} /\ opt.noNetConfig \in BOOLEAN
           /\ IsFiniteSet(opt.protos) /\ Cardinality(opt.protos) \in 0..2
           /\ Cardinality(opt.ifs) \in Nat
<1>1. opt.ifs \subseteq Ifs /\ opt.protos \subseteq {4, 6} /\ opt.noNetConfig \in BOOLEAN
  BY NetbootAssumption
<1>2. IsFiniteSet(opt.ifs) /\ Cardinality(opt.ifs) \in Nat
  BY <1>1, NetbootAssumption, FS_Subset, FS_CardinalityType
<1>3. IsFiniteSet({4}) /\ Cardinality({4}) = 1
  BY FS_Singleton
<1>4. {4, 6} = {4} \cup {6} /\ 6 \notin {4}
  OBVIOUS
<1>5. IsFiniteSet({4, 6}) /\ Cardinality({4, 6}) = 2
  BY <1>3, <1>4, FS_AddElement
<1>6. IsFiniteSet(opt.protos) /\ Cardinality(opt.protos) <= 2
  BY <1>1, <1>5, FS_Subset
<1>7. Cardinality(opt.protos) \in Nat
  BY <1>6, FS_CardinalityType
<1> QED
  BY <1>1, <1>2, <1>6, <1>7

\* The goroutine of a link is not one of a protocol, and nobody is a goroutine.
LEMMA LinksAreNotWorkers ==
    ASSUME opt \in CommandLines
    PROVE  /\ Links \cap Workers = {} /\ Nobody \notin Workers
           /\ \A g \in Workers : g = <<g[1], g[2]>> /\ g[1] \in opt.ifs /\ g[2] \in {4, 6}
           /\ \A g \in Links : g = <<g[1], 0>> /\ g[1] \in opt.ifs
<1>1. opt.protos \subseteq {4, 6}
  BY OptFacts
<1>2. \A g \in Workers : g = <<g[1], g[2]>> /\ g[1] \in opt.ifs /\ g[2] \in {4, 6}
  BY <1>1 DEF Workers
<1>3. \A g \in Links : g = <<g[1], 0>> /\ g[1] \in opt.ifs
  BY DEF Links
<1>4. Links \cap Workers = {}
  BY <1>1 DEF Links, Workers
<1>5. Nobody \notin Workers
  BY DEF Nobody, Workers
<1> QED
  BY <1>2, <1>3, <1>4, <1>5

\* There are finitely many goroutines, at most two workers for each interface.
LEMMA FewWorkers ==
    ASSUME opt \in CommandLines
    PROVE  /\ IsFiniteSet(Workers) /\ Cardinality(Workers) <= 2 * Cardinality(opt.ifs)
           /\ IsFiniteSet(Links \cup Workers) /\ Cardinality(Workers) \in Nat
<1>1. IsFiniteSet(Workers) /\ Cardinality(Workers) = Cardinality(opt.ifs) * Cardinality(opt.protos)
  BY OptFacts, FS_Product DEF Workers
<1>2. Cardinality(Workers) <= 2 * Cardinality(opt.ifs)
  <2>1. CASE Cardinality(opt.protos) = 0
    BY <1>1, <2>1, OptFacts
  <2>2. CASE Cardinality(opt.protos) = 1
    BY <1>1, <2>2, OptFacts
  <2>3. CASE Cardinality(opt.protos) = 2
    BY <1>1, <2>3, OptFacts
  <2> QED
    BY <2>1, <2>2, <2>3, OptFacts
<1>3. Links = opt.ifs \X {0}
  BY DEF Links
<1>4. IsFiniteSet(Links)
  BY <1>3, OptFacts, FS_Product, FS_Singleton
<1> QED
  BY <1>1, <1>2, <1>4, FS_Union, FS_CardinalityType

\* A worker that is about to send finds room in the channel, because every other
\* worker sends at most once: make(chan *Result, 3*len(ifs)).
LEMMA RoomInChannel ==
    ASSUME GoInv, NEW g \in Workers, gpc[g] = "send"
    PROVE  Len(r) < Cap
<1>1. opt \in CommandLines /\ r \in Seq(Workers) /\ Len(r) \in Nat /\ r \in [1..Len(r) -> Workers]
  BY LenProperties DEF GoInv, GoTypeOK
<1>2. r \in [1..Len(r) -> Workers \ {g}]
  <2>1. \A k \in 1..Len(r) : r[k] # g
    BY DEF GoInv, SentOnce, Sent
  <2> QED
    BY <1>1, <2>1
<1>3. r \in Injection(1..Len(r), Workers \ {g})
  BY <1>2 DEF Injection, IsInjective, GoInv, SentOnce
<1>4. /\ IsFiniteSet(Workers \ {g})
      /\ Cardinality(Workers \ {g}) = Cardinality(Workers) - 1
  BY <1>1, FewWorkers, FS_RemoveElement
<1>5. Cardinality(1..Len(r)) <= Cardinality(Workers \ {g})
  BY <1>3, <1>4, FS_Injection
<1>6. Cardinality(1..Len(r)) = Len(r)
  BY <1>1, FS_Interval
<1> QED
  BY <1>1, <1>4, <1>5, <1>6, FewWorkers, OptFacts DEF Cap

-----------------------------------------------------------------------------
(***************************************************************************)
(* GoInv is preserved by the goroutines.                                   *)
(***************************************************************************)

LiveSet == {g \in DOMAIN gpc : Live(g)}

\* The goroutines that count are finitely many.
LEMMA LiveSetFinite ==
    ASSUME GoInv
    PROVE  IsFiniteSet(LiveSet) /\ wg = Cardinality(LiveSet) /\ wg \in Nat
<1>1. LiveSet \subseteq Links \cup Workers
  BY DEF LiveSet, GoInv, GoTypeOK
<1>2. IsFiniteSet(LiveSet)
  BY <1>1, FewWorkers, FS_Subset DEF GoInv, GoTypeOK
<1> QED
  BY <1>2, FS_CardinalityType DEF GoInv, WaitGroupCounts, LiveSet

\* One goroutine moves and stays alive: the link comes up or fails, or a worker
\* gets ready to send (IfUp, Dad, Lease).
LEMMA GoMove ==
    ASSUME GoInv, NEW g \in Links \cup Workers, NEW s, Live(g),
           g \in Links => gpc[g] = "up" /\ s \in {"spawn", "return"},
           g \in Workers => gpc[g] \in {"dad", "lease"} /\ s \in {"lease", "send"},
           gpc' = [gpc EXCEPT ![g] = s],
           outcome' \in [Workers -> Offers \cup {Failed}],
           \A h \in Workers : h # g \/ s = "lease" => outcome'[h] = outcome[h],
           UNCHANGED <<opt, wg, r, closed, expired>>
    PROVE  GoInv'
<1> USE DEF GoInv
<1>0. opt \in CommandLines
  BY DEF GoTypeOK
<1>1. Links' = Links /\ Workers' = Workers
  BY DEF Links, Workers
<1>2. /\ DOMAIN gpc' = DOMAIN gpc /\ gpc'[g] = s
      /\ \A h \in Links \cup Workers : h # g => gpc'[h] = gpc[h]
      /\ DOMAIN gpc = Links \cup Workers
  BY DEF GoTypeOK
<1>3. s \in {"spawn", "lease", "send", "return"}
  OBVIOUS
<1>4. GoTypeOK'
  <2>1. gpc' \in [Links \cup Workers -> {"up", "spawn", "none", "dad", "lease", "send", "return", "done"}]
    BY <1>3 DEF GoTypeOK
  <2>2. \A h \in Links : gpc'[h] \in {"up", "spawn", "return", "done"}
    BY <1>2 DEF GoTypeOK
  <2>3. \A h \in Workers : gpc'[h] \in {"none", "dad", "lease", "send", "return", "done"}
    BY <1>2 DEF GoTypeOK
  <2> QED
    BY <1>1, <2>1, <2>2, <2>3 DEF GoTypeOK
<1>5. NotStarted'
  <2> SUFFICES ASSUME NEW i \in opt.ifs, gpc'[<<i, 0>>] \in {"up", "spawn"}, NEW p \in opt.protos
               PROVE  gpc'[<<i, p>>] = "none"
    BY DEF NotStarted
  <2>1. <<i, 0>> \in Links /\ <<i, p>> \in Workers
    BY DEF Links, Workers
  <2>2. gpc[<<i, 0>>] \in {"up", "spawn"}
    BY <1>2, <2>1
  <2>3. gpc[<<i, p>>] = "none"
    BY <2>2 DEF NotStarted
  <2>4. <<i, p>> # g
    BY <2>1, <2>3, <1>0, LinksAreNotWorkers
  <2> QED
    BY <1>2, <2>1, <2>3, <2>4
<1>6. \A h \in DOMAIN gpc : Live(h)' <=> Live(h)
  BY <1>2, <1>3 DEF Live
<1>7. WaitGroupCounts'
  BY <1>2, <1>6 DEF WaitGroupCounts
<1>8. ClosedLast'
  BY <1>2 DEF ClosedLast
<1>9. SentOnce'
  <2>1. \A k \in 1..Len(r) : r[k] # g /\ r[k] \in Workers
    BY LenProperties, <1>0, LinksAreNotWorkers DEF SentOnce, Sent, GoTypeOK
  <2> QED
    BY <2>1, <1>2 DEF SentOnce, Sent
<1>10. NoLeaseYet'
  BY <1>1, <1>2, <1>0, LinksAreNotWorkers DEF NoLeaseYet
<1> QED
  BY <1>4, <1>5, <1>7, <1>8, <1>9, <1>10

\* IfUp, Dad and Lease.
LEMMA GoMoves ==
    ASSUME GoInv, NEW g \in Links \cup Workers,
           (g \in Links /\ IfUp(g[1])) \/ (g \in Workers /\ (Dad(g) \/ Lease(g)))
    PROVE  GoInv'
<1>0. opt \in CommandLines /\ outcome \in [Workers -> Offers \cup {Failed}]
  BY DEF GoInv, GoTypeOK
<1>1. CASE g \in Links /\ IfUp(g[1])
  <2>1. g = <<g[1], 0>> /\ g \notin Workers
    BY <1>0, <1>1, LinksAreNotWorkers
  <2>2. gpc[g] = "up" /\ UNCHANGED <<opt, outcome, wg, r, closed, expired>>
        /\ (gpc' = [gpc EXCEPT ![g] = "spawn"] \/ gpc' = [gpc EXCEPT ![g] = "return"])
    BY <1>1, <2>1 DEF IfUp
  <2>3. CASE gpc' = [gpc EXCEPT ![g] = "spawn"]
    <3>1. Live(g) /\ outcome' = outcome
      BY <2>2 DEF Live
    <3> QED
      BY <1>0, <2>1, <2>2, <2>3, <3>1, GoMove
  <2>4. CASE gpc' = [gpc EXCEPT ![g] = "return"]
    BY <1>0, <2>1, <2>2, <2>4, GoMove DEF Live
  <2> QED
    BY <2>2, <2>3, <2>4
<1>2. CASE g \in Workers /\ Dad(g)
  <2>1. g \notin Links
    BY <1>0, <1>2, LinksAreNotWorkers
  <2>2. gpc[g] = "dad" /\ UNCHANGED <<opt, outcome, wg, r, closed, expired>>
        /\ (gpc' = [gpc EXCEPT ![g] = "lease"] \/ gpc' = [gpc EXCEPT ![g] = "send"])
    BY <1>2 DEF Dad
  <2>3. CASE gpc' = [gpc EXCEPT ![g] = "lease"]
    BY <1>0, <2>1, <2>2, <2>3, GoMove DEF Live
  <2>4. CASE gpc' = [gpc EXCEPT ![g] = "send"]
    BY <1>0, <2>1, <2>2, <2>4, GoMove DEF Live
  <2> QED
    BY <2>2, <2>3, <2>4
<1>3. CASE g \in Workers /\ Lease(g)
  <2>1. g \notin Links
    BY <1>0, <1>3, LinksAreNotWorkers
  <2>2. PICK o \in Offers \cup {Failed} : outcome' = [outcome EXCEPT ![g] = o]
    BY <1>3 DEF Lease
  <2>3. gpc[g] = "lease" /\ UNCHANGED <<opt, wg, r, closed, expired>>
        /\ gpc' = [gpc EXCEPT ![g] = "send"]
    BY <1>3 DEF Lease
  <2>4. /\ outcome' \in [Workers -> Offers \cup {Failed}]
        /\ \A h \in Workers : h # g => outcome'[h] = outcome[h]
    BY <1>0, <2>2
  <2>5. Live(g) /\ "send" # "lease"
    BY <2>3 DEF Live
  <2> QED
    BY <1>3, <2>1, <2>3, <2>4, <2>5, GoMove
<1> QED
  BY <1>1, <1>2, <1>3

\* Spawn adds the workers of the interface to the WaitGroup.
LEMMA GoSpawn ==
    ASSUME GoInv, NEW i \in opt.ifs, Spawn(i)
    PROVE  GoInv'
<1> USE DEF GoInv
<1>0. opt \in CommandLines /\ <<i, 0>> \in Links /\ DOMAIN gpc = Links \cup Workers
  BY DEF GoTypeOK, Links
<1>1. Links' = Links /\ Workers' = Workers /\ UNCHANGED <<opt, outcome, r, closed, expired>>
      /\ gpc[<<i, 0>>] = "spawn" /\ wg' = wg + Cardinality(opt.protos)
  BY DEF Spawn, Links, Workers
<1> DEFINE mine == {i} \X opt.protos
<1>2. mine \subseteq Workers /\ (\A g \in mine : gpc[g] = "none" /\ g[1] = i)
  BY <1>1 DEF NotStarted, Workers
<1>3. \A g \in Workers : g \in mine <=> g[1] = i
  BY DEF Workers
<1>4. /\ DOMAIN gpc' = Links \cup Workers /\ gpc'[<<i, 0>>] = "return"
      /\ \A g \in mine : gpc'[g] \in {"lease", "dad"}
      /\ \A g \in Links \cup Workers : g # <<i, 0>> /\ g \notin mine => gpc'[g] = gpc[g]
  <2>1. gpc' = Started(i)
    BY DEF Spawn
  <2>2. \A g \in mine : g # <<i, 0>>
    BY <1>0, <1>2, LinksAreNotWorkers
  <2>3. \A g \in Links : g # <<i, 0>> => g[1] # i
    BY DEF Links
  <2>4. DOMAIN gpc' = Links \cup Workers /\ gpc'[<<i, 0>>] = "return"
    BY <1>0, <2>1 DEF Started
  <2>5. ASSUME NEW g \in mine PROVE gpc'[g] \in {"lease", "dad"}
    BY <1>0, <1>2, <2>1, <2>2 DEF Started
  <2>6. ASSUME NEW g \in Links \cup Workers, g # <<i, 0>>, g \notin mine PROVE gpc'[g] = gpc[g]
    <3>1. g[1] # i
      BY <1>3, <2>3, <2>6
    <3> QED
      BY <1>0, <2>1, <2>6, <3>1 DEF Started
  <2> QED
    BY <2>4, <2>5, <2>6
<1> HIDE DEF mine
<1>5. GoTypeOK'
  <2>1. gpc' = [g \in Links \cup Workers |-> gpc'[g]]
    BY <1>0 DEF Spawn, Started
  <2>2. \A g \in Links : gpc'[g] \in {"up", "spawn", "return", "done"}
    BY <1>0, <1>2, <1>4, LinksAreNotWorkers DEF GoTypeOK
  <2>3. \A g \in Workers : gpc'[g] \in {"none", "dad", "lease", "send", "return", "done"}
    BY <1>0, <1>2, <1>4, LinksAreNotWorkers DEF GoTypeOK
  <2>4. gpc' \in [Links \cup Workers -> {"up", "spawn", "none", "dad", "lease", "send", "return", "done"}]
    BY <2>1, <2>2, <2>3
  <2> QED
    BY <1>1, <2>2, <2>3, <2>4 DEF GoTypeOK
<1>6. NotStarted'
  <2> SUFFICES ASSUME NEW j \in opt.ifs, gpc'[<<j, 0>>] \in {"up", "spawn"}, NEW p \in opt.protos
               PROVE  gpc'[<<j, p>>] = "none"
    BY <1>1 DEF NotStarted
  <2>1. <<j, 0>> \in Links /\ <<j, p>> \in Workers
    BY DEF Links, Workers
  <2>2. j # i
    BY <1>4
  <2>3. gpc[<<j, 0>>] \in {"up", "spawn"}
    BY <1>0, <1>2, <1>4, <2>1, <2>2, LinksAreNotWorkers
  <2>4. <<j, p>> \notin mine /\ <<j, p>> # <<i, 0>>
    BY <2>2 DEF mine
  <2> QED
    BY <1>4, <2>1, <2>3, <2>4 DEF NotStarted
<1>7. WaitGroupCounts'
  <2>1. LiveSet' = LiveSet \cup mine
    <3>1. \A g \in mine : Live(g)'
      BY <1>4 DEF Live
    <3>2. \A g \in Links \cup Workers : g \notin mine => (Live(g)' <=> Live(g))
      BY <1>1, <1>4 DEF Live
    <3>3. mine \subseteq Links \cup Workers
      BY <1>2
    <3> QED
      BY <1>0, <1>4, <3>1, <3>2, <3>3 DEF LiveSet
  <2>2. LiveSet \cap mine = {}
    BY <1>2 DEF LiveSet, Live
  <2>3. IsFiniteSet(mine) /\ Cardinality(mine) = Cardinality(opt.protos) /\ Cardinality(opt.protos) \in Nat
    <3>1. IsFiniteSet({i}) /\ Cardinality({i}) = 1
      BY FS_Singleton
    <3>2. IsFiniteSet(mine) /\ Cardinality(mine) = 1 * Cardinality(opt.protos)
      BY <1>0, <3>1, OptFacts, FS_Product DEF mine
    <3> QED
      BY <1>0, <3>2, OptFacts
  <2>4. Cardinality(LiveSet') = Cardinality(LiveSet) + Cardinality(mine) - Cardinality({})
    BY <2>1, <2>2, <2>3, LiveSetFinite, FS_Union
  <2> QED
    BY <1>1, <2>3, <2>4, LiveSetFinite, FS_EmptySet DEF WaitGroupCounts, LiveSet
<1>8. ClosedLast'
  BY <1>0, <1>1 DEF ClosedLast, Live
<1>9. SentOnce'
  <2>1. \A k \in 1..Len(r) : r[k] \in Workers /\ r[k] \notin mine
    BY <1>2, LenProperties DEF SentOnce, Sent, GoTypeOK
  <2>2. \A k \in 1..Len(r) : gpc'[r[k]] = gpc[r[k]]
    BY <1>0, <1>4, <2>1, LinksAreNotWorkers
  <2> QED
    BY <1>1, <2>2 DEF SentOnce, Sent
<1>10. NoLeaseYet'
  <2> SUFFICES ASSUME NEW g \in Workers, gpc'[g] \in {"none", "dad", "lease"}
               PROVE  outcome[g] = Failed
    BY <1>1 DEF NoLeaseYet
  <2>1. CASE g \in mine
    BY <1>2, <2>1 DEF NoLeaseYet
  <2>2. CASE g \notin mine
    BY <1>0, <1>4, <2>2, LinksAreNotWorkers DEF NoLeaseYet
  <2> QED
    BY <2>1, <2>2
<1> QED
  BY <1>5, <1>6, <1>7, <1>8, <1>9, <1>10

\* A worker sends its result, for the only time.
LEMMA GoSend ==
    ASSUME GoInv, NEW g \in Workers, Send(g)
    PROVE  GoInv'
<1> USE DEF GoInv
<1>0. opt \in CommandLines /\ DOMAIN gpc = Links \cup Workers /\ r \in Seq(Workers) /\ g \notin Links
  BY LinksAreNotWorkers DEF GoTypeOK
<1>1. /\ Links' = Links /\ Workers' = Workers /\ UNCHANGED <<opt, outcome, wg, closed, expired>>
      /\ gpc[g] = "send" /\ r' = Append(r, g) /\ gpc' = [gpc EXCEPT ![g] = "return"]
  BY DEF Send, Links, Workers
<1>2. /\ DOMAIN gpc' = Links \cup Workers /\ gpc'[g] = "return"
      /\ \A h \in Links \cup Workers : h # g => gpc'[h] = gpc[h]
  BY <1>0, <1>1
<1>3. /\ r' \in Seq(Workers) /\ Len(r') = Len(r) + 1 /\ r'[Len(r) + 1] = g /\ Len(r) \in Nat
      /\ \A k \in 1..Len(r) : r'[k] = r[k] /\ r[k] \in Workers
  BY <1>0, <1>1, AppendProperties, LenProperties
<1>4. GoTypeOK'
  <2>1. gpc' \in [Links \cup Workers -> {"up", "spawn", "none", "dad", "lease", "send", "return", "done"}]
    BY <1>1 DEF GoTypeOK
  <2>2. \A h \in Links : gpc'[h] \in {"up", "spawn", "return", "done"}
    BY <1>0, <1>2 DEF GoTypeOK
  <2>3. \A h \in Workers : gpc'[h] \in {"none", "dad", "lease", "send", "return", "done"}
    BY <1>2 DEF GoTypeOK
  <2> QED
    BY <1>1, <1>3, <2>1, <2>2, <2>3 DEF GoTypeOK
<1>5. NotStarted'
  <2> SUFFICES ASSUME NEW i \in opt.ifs, gpc'[<<i, 0>>] \in {"up", "spawn"}, NEW p \in opt.protos
               PROVE  gpc'[<<i, p>>] = "none"
    BY <1>1 DEF NotStarted
  <2>1. <<i, 0>> \in Links /\ <<i, p>> \in Workers
    BY DEF Links, Workers
  <2>2. gpc[<<i, p>>] = "none"
    BY <1>0, <1>2, <2>1 DEF NotStarted
  <2> QED
    BY <1>1, <1>2, <2>1, <2>2
<1>6. \A h \in DOMAIN gpc : Live(h)' <=> Live(h)
  BY <1>0, <1>1, <1>2 DEF Live
<1>7. WaitGroupCounts'
  BY <1>0, <1>1, <1>2, <1>6 DEF WaitGroupCounts
<1>8. ClosedLast'
  BY <1>0, <1>1, <1>2, <1>6 DEF ClosedLast
<1>9. SentOnce'
  <2>1. \A k \in 1..Len(r) : r[k] # g
    BY <1>1 DEF SentOnce, Sent
  <2>3. \A k \in 1..Len(r') : gpc'[r'[k]] \in {"return", "done"}
    <3> SUFFICES ASSUME NEW k \in 1..Len(r') PROVE gpc'[r'[k]] \in {"return", "done"}
      OBVIOUS
    <3>1. CASE k \in 1..Len(r)
      BY <1>2, <1>3, <2>1, <3>1 DEF SentOnce, Sent
    <3>2. CASE k = Len(r) + 1
      BY <1>2, <1>3, <3>2
    <3> QED
      BY <1>3, <3>1, <3>2
  <2>4. \A j, k \in 1..Len(r') : r'[j] = r'[k] => j = k
    <3>1. \A j \in 1..Len(r') : j \in 1..Len(r) \/ j = Len(r) + 1
      BY <1>3
    <3> QED
      BY <1>3, <2>1, <3>1 DEF SentOnce
  <2> QED
    BY <2>3, <2>4 DEF SentOnce, Sent
<1>10. NoLeaseYet'
  BY <1>1, <1>2 DEF NoLeaseYet
<1> QED
  BY <1>4, <1>5, <1>7, <1>8, <1>9, <1>10

\* A goroutine ends with wg.Done.
LEMMA GoDone ==
    ASSUME GoInv, NEW g \in Links \cup Workers, Done(g)
    PROVE  GoInv'
<1> USE DEF GoInv
<1>0. opt \in CommandLines /\ DOMAIN gpc = Links \cup Workers /\ r \in Seq(Workers)
  BY DEF GoTypeOK
<1>1. /\ Links' = Links /\ Workers' = Workers /\ UNCHANGED <<opt, outcome, r, closed, expired>>
      /\ gpc[g] = "return" /\ gpc' = [gpc EXCEPT ![g] = "done"] /\ wg' = wg - 1
  BY DEF Done, Links, Workers
<1>2. /\ DOMAIN gpc' = Links \cup Workers /\ gpc'[g] = "done"
      /\ \A h \in Links \cup Workers : h # g => gpc'[h] = gpc[h]
  BY <1>0, <1>1
<1>4. GoTypeOK'
  <2>1. gpc' \in [Links \cup Workers -> {"up", "spawn", "none", "dad", "lease", "send", "return", "done"}]
    BY <1>1 DEF GoTypeOK
  <2>2. \A h \in Links : gpc'[h] \in {"up", "spawn", "return", "done"}
    BY <1>0, <1>2 DEF GoTypeOK
  <2>3. \A h \in Workers : gpc'[h] \in {"none", "dad", "lease", "send", "return", "done"}
    BY <1>2 DEF GoTypeOK
  <2> QED
    BY <1>1, <2>1, <2>2, <2>3 DEF GoTypeOK
<1>5. NotStarted'
  <2> SUFFICES ASSUME NEW i \in opt.ifs, gpc'[<<i, 0>>] \in {"up", "spawn"}, NEW p \in opt.protos
               PROVE  gpc'[<<i, p>>] = "none"
    BY <1>1 DEF NotStarted
  <2>1. <<i, 0>> \in Links /\ <<i, p>> \in Workers
    BY DEF Links, Workers
  <2>2. gpc[<<i, p>>] = "none"
    BY <1>0, <1>2, <2>1 DEF NotStarted
  <2> QED
    BY <1>1, <1>2, <2>1, <2>2
<1>6. WaitGroupCounts'
  <2>1. LiveSet' = LiveSet \ {g} /\ g \in LiveSet
    BY <1>0, <1>1, <1>2 DEF LiveSet, Live
  <2> QED
    BY <1>1, <2>1, LiveSetFinite, FS_RemoveElement DEF WaitGroupCounts, LiveSet
<1>7. ClosedLast'
  BY <1>0, <1>1, <1>2 DEF ClosedLast, Live
<1>8. SentOnce'
  <2>1. \A k \in 1..Len(r) : r[k] \in Workers
    BY <1>0, LenProperties
  <2> QED
    BY <1>1, <1>2, <2>1 DEF SentOnce, Sent
<1>9. NoLeaseYet'
  BY <1>1, <1>2 DEF NoLeaseYet
<1> QED
  BY <1>4, <1>5, <1>6, <1>7, <1>8, <1>9

\* The channel is closed when the WaitGroup is at zero, hence after the last send.
LEMMA GoClose ==
    ASSUME GoInv, Close
    PROVE  GoInv'
<1>1. /\ Links' = Links /\ Workers' = Workers /\ wg = 0 /\ closed' = TRUE
      /\ UNCHANGED <<opt, gpc, outcome, wg, r, expired>>
  BY DEF Close, Links, Workers
<1>2. LiveSet = {}
  BY <1>1, LiveSetFinite, FS_EmptySet
<1> QED
  BY <1>1, <1>2 DEF GoInv, GoTypeOK, NotStarted, WaitGroupCounts, ClosedLast, SentOnce, Sent,
     NoLeaseYet, LiveSet, Live

\* NetbootImages takes the first result out of the channel.
LEMMA GoReceive ==
    ASSUME GoInv, r # <<>>, r' = Tail(r), UNCHANGED <<opt, gpc, outcome, wg, closed, expired>>
    PROVE  /\ GoInv' /\ Head(r) \in Workers /\ Sent(Head(r))
           /\ \A g \in Workers : g = Head(r) => ~InChannel(g)'
           /\ \A g \in Workers : InChannel(g) => g = Head(r) \/ InChannel(g)'
           /\ \A g \in Workers : InChannel(g)' => InChannel(g)
<1>0. r \in Seq(Workers)
  BY DEF GoInv, GoTypeOK
<1>1. Links' = Links /\ Workers' = Workers
  BY DEF Links, Workers
<1>2. /\ r' \in Seq(Workers) /\ Len(r') = Len(r) - 1 /\ Head(r) \in Workers /\ Head(r) = r[1]
      /\ \A k \in 1..Len(r') : r'[k] = r[k + 1]
  BY <1>0, HeadTailProperties
<1>3. Len(r) \in Nat \ {0} /\ 1 \in 1..Len(r)
  BY <1>0, EmptySeq
<1>4. \A k \in 1..Len(r') : k + 1 \in 1..Len(r)
  BY <1>2, <1>3
<1>5. SentOnce' /\ Sent(Head(r))
  BY <1>2, <1>3, <1>4 DEF GoInv, SentOnce, Sent
<1>6. \A k \in 1..Len(r) : k = 1 \/ (k - 1 \in 1..Len(r') /\ r[k] = r'[k - 1])
  BY <1>2, <1>3
<1>7. \A g \in Workers : InChannel(g) => g = Head(r) \/ InChannel(g)'
  BY <1>2, <1>6 DEF InChannel
<1>8. \A g \in Workers : InChannel(g)' => InChannel(g)
  BY <1>2, <1>4 DEF InChannel
<1>9. \A g \in Workers : g = Head(r) => ~InChannel(g)'
  <2> SUFFICES ASSUME NEW k \in 1..Len(r'), r'[k] = Head(r) PROVE FALSE
    BY DEF InChannel
  <2>1. k + 1 \in 1..Len(r) /\ r[k + 1] = r[1] /\ k + 1 # 1
    BY <1>2, <1>4
  <2> QED
    BY <2>1, <1>3 DEF GoInv, SentOnce
<1>10. GoInv'
  BY <1>1, <1>2, <1>5 DEF GoInv, GoTypeOK, NotStarted, WaitGroupCounts, ClosedLast, NoLeaseYet, Live
<1> QED
  BY <1>2, <1>5, <1>7, <1>8, <1>9, <1>10

\* The other steps of NetbootImages leave the goroutines alone.
LEMMA GoSame ==
    ASSUME GoInv, UNCHANGED <<opt, gpc, outcome, wg, r, closed>>, expired' \in BOOLEAN
    PROVE  GoInv'
BY DEF GoInv, GoTypeOK, NotStarted, WaitGroupCounts, ClosedLast, SentOnce, Sent, NoLeaseYet, Live,
   Links, Workers

-----------------------------------------------------------------------------
(***************************************************************************)
(* BootInv and ProbeInv: the goroutines do not disturb NetbootImages.      *)
(***************************************************************************)

\* What every step of a goroutine means to NetbootImages: a result that was sent
\* stays as it is, and a lease with a URL is on its way.
GoStepKeeps ==
    /\ UNCHANGED <<opt, boot, network>>
    /\ \A g \in Workers : Sent(g) => Sent(g)' /\ outcome'[g] = outcome[g]
    /\ \A g \in Workers : Sent(g) /\ ~InChannel(g) => ~InChannel(g)'
    /\ \A g \in Workers : outcome'[g] # Failed =>
         \/ gpc'[g] = "send" \/ InChannel(g)'
         \/ outcome'[g] = outcome[g] /\ gpc[g] # "send" /\ ~InChannel(g)
    /\ r = <<>> /\ closed => r' = <<>> /\ closed'

\* One worker or one link moves, and the channel stays as it is.
LEMMA MoveKeeps ==
    ASSUME GoInv, NEW g \in Links \cup Workers, NEW s, gpc' = [gpc EXCEPT ![g] = s],
           gpc[g] \notin {"return", "done"} \/ s \in {"return", "done"},
           g \in Workers => gpc[g] # "send" /\ (gpc[g] = "return" => outcome'[g] = outcome[g])
                           /\ (outcome'[g] # Failed => s = "send" \/ outcome'[g] = outcome[g]),
           \A h \in Workers : h # g => outcome'[h] = outcome[h],
           UNCHANGED <<opt, r, closed, boot, network>>, gpc[g] # "done"
    PROVE  GoStepKeeps
<1>1. DOMAIN gpc = Links \cup Workers
  BY DEF GoInv, GoTypeOK
<1>2. gpc'[g] = s /\ \A h \in Links \cup Workers : h # g => gpc'[h] = gpc[h]
  BY <1>1
<1>3. \A h \in Workers : InChannel(h)' <=> InChannel(h)
  BY DEF InChannel
<1>4. \A h \in Workers : Sent(h) => Sent(h)' /\ outcome'[h] = outcome[h]
  BY <1>2 DEF Sent
<1>5. ASSUME NEW h \in Workers, outcome'[h] # Failed
      PROVE  \/ gpc'[h] = "send" \/ InChannel(h)'
             \/ outcome'[h] = outcome[h] /\ gpc[h] # "send" /\ ~InChannel(h)
  BY <1>2, <1>3, <1>5
<1> QED
  BY <1>3, <1>4, <1>5 DEF GoStepKeeps

\* IfUp, Spawn, Dad, Lease, Send, Done, Close and the deadline keep what they must.
LEMMA GoroutineKeeps ==
    ASSUME GoInv, NEW g \in Links \cup Workers, Goroutine(g)
    PROVE  GoStepKeeps
<1>0. opt \in CommandLines /\ r \in Seq(Workers) /\ DOMAIN gpc = Links \cup Workers
      /\ outcome \in [Workers -> Offers \cup {Failed}]
  BY DEF GoInv, GoTypeOK
<1>1. CASE g \in Links /\ IfUp(g[1])
  <2>1. g = <<g[1], 0>> /\ g \notin Workers
    BY <1>0, <1>1, LinksAreNotWorkers
  <2>2. PICK s \in {"spawn", "return"} : gpc' = [gpc EXCEPT ![g] = s]
    BY <1>1, <2>1 DEF IfUp
  <2>3. gpc[g] = "up" /\ UNCHANGED <<opt, outcome, r, closed, boot, network>>
    BY <1>1, <2>1 DEF IfUp
  <2> QED
    BY <2>1, <2>2, <2>3, MoveKeeps
<1>2. CASE g \in Links /\ Spawn(g[1])
  <2> DEFINE i == g[1]
  <2>1. /\ g = <<i, 0>> /\ i \in opt.ifs /\ gpc[<<i, 0>>] = "spawn" /\ gpc' = Started(i)
        /\ UNCHANGED <<opt, outcome, r, closed, boot, network>>
    BY <1>0, <1>2, LinksAreNotWorkers DEF Spawn
  <2>2. \A h \in Workers : InChannel(h)' <=> InChannel(h)
    BY <2>1 DEF InChannel
  <2>3. ASSUME NEW h \in Workers, Sent(h) PROVE Sent(h)'
    <3>1. h = <<h[1], h[2]>> /\ h[2] \in opt.protos
      BY DEF Workers
    <3>2. h[1] # i
      BY <2>1, <2>3, <3>1 DEF GoInv, NotStarted, Sent
    <3>3. h # <<i, 0>>
      BY <3>2
    <3> QED
      BY <1>0, <2>1, <2>3, <3>2, <3>3 DEF Started, Sent
  <2>4. ASSUME NEW h \in Workers, outcome'[h] # Failed
        PROVE  gpc'[h] = "send" \/ gpc[h] # "send"
    <3>1. h = <<h[1], h[2]>> /\ h[2] \in opt.protos
      BY DEF Workers
    <3>2. gpc[h] = "send" => h[1] # i
      BY <2>1, <3>1 DEF GoInv, NotStarted
    <3>3. gpc[h] = "send" => h # <<i, 0>>
      BY <3>2
    <3> QED
      BY <1>0, <2>1, <3>2, <3>3 DEF Started
  <2> QED
    BY <2>1, <2>2, <2>3, <2>4 DEF GoStepKeeps
<1>3. CASE g \in Workers /\ Dad(g)
  <2>1. g \notin Links
    BY <1>0, <1>3, LinksAreNotWorkers
  <2>2. PICK s \in {"lease", "send"} : gpc' = [gpc EXCEPT ![g] = s]
    BY <1>3 DEF Dad
  <2>3. gpc[g] = "dad" /\ UNCHANGED <<opt, outcome, r, closed, boot, network>>
    BY <1>3 DEF Dad
  <2> QED
    BY <2>1, <2>2, <2>3, MoveKeeps
<1>4. CASE g \in Workers /\ Lease(g)
  <2>1. PICK o \in Offers \cup {Failed} : outcome' = [outcome EXCEPT ![g] = o]
    BY <1>4 DEF Lease
  <2>2. gpc[g] = "lease" /\ gpc' = [gpc EXCEPT ![g] = "send"] /\ UNCHANGED <<opt, r, closed, boot, network>>
    BY <1>4 DEF Lease
  <2>3. \A h \in Workers : h # g => outcome'[h] = outcome[h]
    BY <1>0, <2>1
  <2> QED
    BY <2>2, <2>3, MoveKeeps
<1>5. CASE g \in Workers /\ Send(g)
  <2>1. /\ gpc[g] = "send" /\ r' = Append(r, g) /\ gpc' = [gpc EXCEPT ![g] = "return"] /\ ~closed
        /\ UNCHANGED <<opt, outcome, closed, boot, network>>
    BY <1>5 DEF Send
  <2>2. gpc'[g] = "return" /\ \A h \in Links \cup Workers : h # g => gpc'[h] = gpc[h]
    BY <1>0, <2>1
  <2>3. /\ Len(r') = Len(r) + 1 /\ r'[Len(r) + 1] = g /\ Len(r) \in Nat
        /\ \A k \in 1..Len(r) : r'[k] = r[k]
    BY <1>0, <1>5, <2>1, AppendProperties, LenProperties
  <2>4. InChannel(g)'
    BY <2>3 DEF InChannel
  <2>5. ASSUME NEW h \in Workers, h # g PROVE InChannel(h)' <=> InChannel(h)
    <3>1. \A k \in 1..Len(r') : k \in 1..Len(r) \/ k = Len(r) + 1
      BY <2>3
    <3>2. \A k \in 1..Len(r) : k \in 1..Len(r')
      BY <2>3
    <3> QED
      BY <2>3, <2>5, <3>1, <3>2 DEF InChannel
  <2>6. \A h \in Workers : Sent(h) => Sent(h)' /\ outcome'[h] = outcome[h] /\ h # g
    BY <2>1, <2>2 DEF Sent
  <2>7. ASSUME NEW h \in Workers
        PROVE  \/ gpc'[h] = "send" \/ InChannel(h)'
               \/ outcome'[h] = outcome[h] /\ gpc[h] # "send" /\ ~InChannel(h)
    BY <2>1, <2>2, <2>4, <2>5
  <2> QED
    BY <2>1, <2>5, <2>6, <2>7 DEF GoStepKeeps
<1>6. CASE Done(g)
  <2>1. /\ gpc[g] = "return" /\ gpc' = [gpc EXCEPT ![g] = "done"]
        /\ UNCHANGED <<opt, outcome, r, closed, boot, network>>
    BY <1>6 DEF Done
  <2> QED
    BY <2>1, MoveKeeps
<1> QED
  BY <1>1, <1>2, <1>3, <1>4, <1>5, <1>6 DEF Goroutine

\* Such a step preserves what is known of NetbootImages.
LEMMA GoStepPreserves ==
    ASSUME GoInv, BootInv, ProbeInv, GoStepKeeps
    PROVE  BootInv' /\ ProbeInv'
<1>1. /\ Workers' = Workers /\ UNCHANGED <<opt, mpc, cur, configured, probing, lost, images, ret, addrs, route, dns>>
      /\ opt \in CommandLines
  BY DEF GoStepKeeps, Workers, boot, network, GoInv, GoTypeOK
<1>2. \A c \in Workers : Sent(c) => outcome'[c] = outcome[c]
  BY DEF GoStepKeeps
<1>3. \A c \in Workers : Sent(c) /\ ~InChannel(c) => Sent(c)' /\ ~InChannel(c)'
  BY DEF GoStepKeeps
<1>4. cur \in Workers => lease' = lease
  BY <1>1, <1>2 DEF BootInv, lease
<1>5. cur' \in Workers => Sent(cur)' /\ ~InChannel(cur)'
  BY <1>1, <1>3 DEF BootInv, Sent, InChannel
<1>6. Configured /\ cur \in Workers => Configured'
  BY <1>1, <1>4 DEF Configured
<1>7. ConfigInv'
  <2>1. mpc = "dns" => cur \in Workers
    BY DEF BootInv
  <2> QED
    BY <1>1, <1>4, <1>6, <2>1 DEF ConfigInv, BootInv
<1>8. URLsAreSeen'
  <2> SUFFICES ASSUME NEW g \in Workers, outcome'[g] # Failed, HasURL(outcome'[g]),
                      gpc'[g] # "send", ~InChannel(g)'
               PROVE  g = cur /\ mpc # "select" /\ ret # "nothing"
    BY <1>1 DEF URLsAreSeen
  <2>1. outcome'[g] = outcome[g] /\ gpc[g] # "send" /\ ~InChannel(g)
    BY DEF GoStepKeeps
  <2> QED
    BY <2>1 DEF BootInv, URLsAreSeen
<1>9. BootInv'
  BY <1>1, <1>4, <1>5, <1>7, <1>8 DEF BootInv, GoStepKeeps
<1>10. ProbeInv'
  <2>1. CASE cur \in Workers
    <3>1. lease' = lease /\ cur' = cur /\ UNCHANGED <<mpc, probing, lost, images, ret>>
      BY <1>1, <1>4, <2>1
    <3>2. Names' = Names /\ \A j \in 0..Len(Names) : Probed(j) => Probed(j)'
      BY <3>1 DEF Probed, Names, Skipped
    <3>3. \A k \in 1..Len(images) : images[k] \in ProbeNames => PreferredAreMissing(images[k])'
      BY <3>1 DEF PreferredAreMissing, ProbeInv, Skipped
    <3> QED
      BY <3>1, <3>2, <3>3 DEF ProbeInv
  <2>2. CASE cur \notin Workers
    <3>1. mpc # "probe" /\ ret # "images"
      BY <2>2 DEF BootInv
    <3>2. images = <<>> /\ Len(images) = 0
      BY <3>1, EmptySeq DEF ProbeInv
    <3> QED
      BY <1>1, <3>1, <3>2 DEF ProbeInv
  <2> QED
    BY <2>1, <2>2
<1> QED
  BY <1>9, <1>10

-----------------------------------------------------------------------------
(***************************************************************************)
(* BootInv and ProbeInv: the steps of NetbootImages.                       *)
(***************************************************************************)

\* Receive takes the next result; the lease at hand before had no URL.
LEMMA ReceiveStep ==
    ASSUME GoInv, BootInv, ProbeInv, Receive
    PROVE  GoInv' /\ BootInv' /\ ProbeInv'
<1>1. /\ mpc = "select" /\ r # <<>> /\ cur' = Head(r) /\ r' = Tail(r)
      /\ mpc' = IF outcome[cur'] = Failed THEN "select" ELSE IF opt.noNetConfig THEN "boot" ELSE "addr"
      /\ configured' = FALSE
      /\ UNCHANGED <<opt, gpc, outcome, wg, closed, expired, probing, lost, images, ret, addrs, route, dns>>
  BY DEF Receive, network
<1>2. Workers' = Workers /\ opt \in CommandLines
  BY <1>1 DEF Workers, GoInv, GoTypeOK
<1>3. /\ GoInv' /\ cur' \in Workers /\ Sent(cur')
      /\ \A g \in Workers : g = cur' => ~InChannel(g)'
      /\ \A g \in Workers : InChannel(g) => g = cur' \/ InChannel(g)'
      /\ \A g \in Workers : InChannel(g)' => InChannel(g)
  BY <1>1, GoReceive
<1>5. Sent(cur)' /\ ~InChannel(cur)'
  BY <1>1, <1>3 DEF Sent, InChannel
<1>7. outcome[cur'] # Failed => lease' \in Offers
  <2>1. outcome[cur'] \in Offers \cup {Failed}
    BY <1>3 DEF GoInv, GoTypeOK
  <2> QED
    BY <1>1, <2>1 DEF lease
<1>8. mpc' \in {"select", "boot", "addr"} /\ ret = "none" /\ (mpc' # "select" <=> outcome[cur'] # Failed)
  BY <1>1 DEF BootInv
<1>9. ConfigInv'
  BY <1>1, <1>8 DEF ConfigInv
<1>10. URLsAreSeen'
  <2> SUFFICES ASSUME NEW g \in Workers, outcome[g] # Failed, HasURL(outcome[g]),
                      gpc[g] # "send", ~InChannel(g)'
               PROVE  g = cur' /\ mpc' # "select" /\ ret' # "nothing"
    BY <1>1, <1>2 DEF URLsAreSeen
  <2>1. InChannel(g)
    BY <1>1 DEF BootInv, URLsAreSeen
  <2> QED
    BY <1>1, <1>3, <1>8, <2>1
<1>11. BootInv'
  BY <1>1, <1>2, <1>3, <1>5, <1>7, <1>8, <1>9, <1>10 DEF BootInv
<1>12. images = <<>> /\ Len(images) = 0
  BY <1>1, <1>8, EmptySeq DEF ProbeInv
<1>13. ProbeInv'
  BY <1>1, <1>8, <1>12 DEF ProbeInv
<1> QED
  BY <1>3, <1>11, <1>13

\* The steps that leave the results alone and do not end: Configure, BootImages.
LEMMA ConfigureStep ==
    ASSUME GoInv, BootInv, ProbeInv, ConfigureAddr \/ ConfigureRoutes \/ ConfigureDNS \/ BootImages
    PROVE  GoInv' /\ BootInv' /\ ProbeInv'
<1>1. /\ UNCHANGED <<opt, gpc, outcome, wg, r, closed, expired, cur, probing, lost, images, ret>>
      /\ mpc \in {"addr", "routes", "dns", "boot"} /\ opt \in CommandLines
  BY DEF ConfigureAddr, ConfigureRoutes, ConfigureDNS, BootImages, goroutines, network, GoInv, GoTypeOK
<1>2. Workers' = Workers /\ lease' = lease /\ cur \in Workers /\ Nobody \notin Workers /\ ret = "none"
      /\ cur[2] \in {4, 6} /\ lease \in Offers
  BY <1>1, LinksAreNotWorkers DEF Workers, lease, BootInv
<1>3. \A g \in Workers : (InChannel(g)' <=> InChannel(g)) /\ (Sent(g)' <=> Sent(g))
  BY <1>1 DEF InChannel, Sent
<1>4. mpc' \in {"routes", "dns", "boot", "fetch", "select"} /\ (mpc' = "select" => ~HasURL(lease))
  BY DEF ConfigureAddr, ConfigureRoutes, ConfigureDNS, BootImages
<1>5. ConfigInv' /\ configured' \in BOOLEAN
  <2>1. CASE ConfigureAddr
    <3>1. /\ UNCHANGED <<configured, route, dns>>
          /\ mpc' = "routes" => cur \in addrs' /\ cur[2] = 4
          /\ mpc' = "dns" => cur[2] # 4
          /\ mpc' \in {"routes", "dns", "boot"} /\ mpc = "addr"
      BY <2>1, <1>2 DEF ConfigureAddr
    <3>2. ~configured /\ ~configured'
      BY <3>1 DEF ConfigInv, BootInv
    <3> QED
      BY <1>1, <1>2, <3>1, <3>2 DEF ConfigInv, BootInv
  <2>2. CASE ConfigureRoutes
    <3>1. /\ UNCHANGED <<configured, addrs, dns>> /\ mpc = "routes" /\ mpc' \in {"dns", "boot"}
          /\ mpc' = "dns" => (GivesDefault(lease) => route' = cur)
      BY <2>2 DEF ConfigureRoutes
    <3>2. ~configured /\ ~configured'
      BY <3>1 DEF ConfigInv, BootInv
    <3>3. mpc' = "dns" => Configured'
      BY <1>1, <1>2, <3>1 DEF ConfigInv, BootInv, Configured, GivesDefault
    <3> QED
      BY <1>1, <3>1, <3>2, <3>3 DEF ConfigInv, BootInv
  <2>3. CASE ConfigureDNS
    <3>0. mpc = "dns" /\ ~configured /\ configured \in BOOLEAN
      BY <2>3 DEF ConfigureDNS, BootInv, ConfigInv
    <3>1. /\ UNCHANGED <<addrs, route>> /\ mpc' = "boot"
          /\ \/ dns' = (IF cur[2] = 4 \/ lease.dns THEN cur ELSE dns) /\ configured' = TRUE
             \/ configured' = configured
      BY <2>3 DEF ConfigureDNS
    <3>2. Configured' <=> Configured
      BY <1>1, <1>2, <3>1 DEF Configured
    <3>3. cur[2] = 4 => Configured
      BY <3>0 DEF BootInv, ConfigInv
    <3>4. CASE dns' = (IF cur[2] = 4 \/ lease.dns THEN cur ELSE dns) /\ configured' = TRUE
      BY <1>1, <1>2, <3>1, <3>2, <3>3, <3>4 DEF ConfigInv
    <3>5. CASE configured' = configured
      BY <1>1, <3>0, <3>1, <3>5 DEF ConfigInv
    <3> QED
      BY <3>1, <3>4, <3>5
  <2>4. CASE BootImages
    <3>1. UNCHANGED <<configured, addrs, route, dns>> /\ mpc' \in {"fetch", "select"}
      BY <2>4 DEF BootImages, network
    <3>2. Configured' <=> Configured
      BY <1>1, <1>2, <3>1 DEF Configured
    <3> QED
      BY <1>1, <1>2, <3>1, <3>2 DEF ConfigInv, BootInv
  <2> QED
    BY <2>1, <2>2, <2>3, <2>4
<1>6. URLsAreSeen'
  <2> SUFFICES ASSUME NEW g \in Workers, outcome[g] # Failed, HasURL(outcome[g]),
                      gpc[g] # "send", ~InChannel(g)'
               PROVE  g = cur /\ mpc' # "select" /\ ret # "nothing"
    BY <1>1, <1>2 DEF URLsAreSeen
  <2>1. g = cur
    BY <1>1, <1>3 DEF BootInv, URLsAreSeen
  <2> QED
    BY <1>2, <1>4, <2>1 DEF lease
<1>7. Sent(cur)' /\ ~InChannel(cur)'
  BY <1>1, <1>2 DEF BootInv, Sent, InChannel
<1>8. BootInv'
  BY <1>1, <1>2, <1>4, <1>5, <1>6, <1>7 DEF BootInv
<1>9. images = <<>> /\ Len(images) = 0
  BY <1>1, <1>2, EmptySeq DEF ProbeInv
<1>10. ProbeInv'
  BY <1>1, <1>2, <1>4, <1>9 DEF ProbeInv
<1>11. expired' \in BOOLEAN
  BY <1>1 DEF GoInv, GoTypeOK
<1> QED
  BY <1>1, <1>8, <1>10, <1>11, GoSame

\* NetbootImages gives up at the deadline, or when the channel is closed.
LEMMA EndStep ==
    ASSUME GoInv, BootInv, ProbeInv, TimedOut \/ AllDone
    PROVE  GoInv' /\ BootInv' /\ ProbeInv'
<1>1. /\ UNCHANGED <<opt, gpc, outcome, wg, r, closed, expired, cur, configured, probing, lost, images, addrs, route, dns>>
      /\ mpc = "select" /\ mpc' = "return" /\ ret' \in {"deadline", "nothing"}
      /\ ret' = "nothing" => r = <<>> /\ closed
  BY DEF TimedOut, AllDone, goroutines, network
<1>2. Workers' = Workers /\ lease' = lease
  BY <1>1 DEF Workers, lease
<1>3. \A g \in Workers : (InChannel(g)' <=> InChannel(g)) /\ (Sent(g)' <=> Sent(g))
  BY <1>1 DEF InChannel, Sent
<1>4. cur' \in Workers => Sent(cur)' /\ ~InChannel(cur)'
  BY <1>1, <1>2 DEF BootInv, Sent, InChannel
<1>5. ConfigInv'
  BY <1>1, <1>2 DEF BootInv, ConfigInv, Configured
<1>6. URLsAreSeen'
  BY <1>1, <1>2, <1>3 DEF BootInv, URLsAreSeen
<1>7. BootInv'
  BY <1>1, <1>2, <1>4, <1>5, <1>6 DEF BootInv
<1>8. images = <<>> /\ Len(images) = 0
  BY <1>1, EmptySeq DEF ProbeInv, BootInv
<1>9. ProbeInv'
  BY <1>1, <1>8 DEF ProbeInv
<1>10. expired' \in BOOLEAN
  BY <1>1 DEF GoInv, GoTypeOK
<1> QED
  BY <1>1, <1>7, <1>9, <1>10, GoSame

\* The search for a PXE configuration keeps BootInv.
LEMMA FetchKeeps ==
    ASSUME GoInv, BootInv, getBootImages \/ ProbeNext \/ ParseConfig
    PROVE  /\ GoInv' /\ BootInv' /\ lease' = lease /\ cur' = cur /\ cur \in Workers /\ lease \in Offers
           /\ cur[2] \in {4, 6}
<1>1. /\ UNCHANGED <<opt, gpc, outcome, wg, r, closed, expired, cur, configured, addrs, route, dns>>
      /\ mpc \in {"fetch", "probe"} /\ opt \in CommandLines
      /\ (mpc' = "probe" /\ ret' = ret) \/ (mpc' = "return" /\ ret' = "images")
  BY DEF getBootImages, ProbeNext, ParseConfig, goroutines, network, GoInv, GoTypeOK
<1>2. /\ Workers' = Workers /\ lease' = lease /\ cur \in Workers /\ lease \in Offers /\ ret = "none"
      /\ cur[2] \in {4, 6}
  BY <1>1, LinksAreNotWorkers DEF Workers, lease, BootInv
<1>3. \A g \in Workers : (InChannel(g)' <=> InChannel(g)) /\ (Sent(g)' <=> Sent(g))
  BY <1>1 DEF InChannel, Sent
<1>4. Sent(cur)' /\ ~InChannel(cur)'
  BY <1>1, <1>2 DEF BootInv, Sent, InChannel
<1>5. ConfigInv'
  BY <1>1, <1>2 DEF BootInv, ConfigInv, Configured
<1>6. URLsAreSeen'
  BY <1>1, <1>2, <1>3 DEF BootInv, URLsAreSeen
<1>7. BootInv'
  BY <1>1, <1>2, <1>4, <1>5, <1>6 DEF BootInv
<1>8. expired' \in BOOLEAN
  BY <1>1 DEF GoInv, GoTypeOK
<1> QED
  BY <1>1, <1>2, <1>7, <1>8, GoSame

\* probeFiles: the MAC address, with IPv4 the address with fewer and fewer digits,
\* and "default".
LEMMA ProbeFilesElements ==
    /\ ProbeFiles4 \in Seq(ProbeNames) /\ Len(ProbeFiles4) = IPLen + 2
    /\ ProbeFiles4[1] = <<"mac", 0>> /\ ProbeFiles4[IPLen + 2] = <<"default", 0>>
    /\ \A n \in 1..IPLen : ProbeFiles4[n + 1] = <<"ip", IPLen + 1 - n>>
    /\ ProbeFiles6 \in Seq(ProbeNames) /\ Len(ProbeFiles6) = 2
    /\ ProbeFiles6[1] = <<"mac", 0>> /\ ProbeFiles6[2] = <<"default", 0>>
<1> DEFINE mac == <<<<"mac", 0>>>>
           def == <<<<"default", 0>>>>
           ips == [n \in 1..IPLen |-> <<"ip", IPLen + 1 - n>>]
<1>1. IPLen \in Nat
  BY NetbootAssumption
<1>2. /\ mac \in Seq(ProbeNames) /\ Len(mac) = 1 /\ mac[1] = <<"mac", 0>>
      /\ def \in Seq(ProbeNames) /\ Len(def) = 1 /\ def[1] = <<"default", 0>>
  BY DEF ProbeNames
<1>3. ips \in Seq(ProbeNames) /\ Len(ips) = IPLen
  <2>1. \A n \in 1..IPLen : <<"ip", IPLen + 1 - n>> \in ProbeNames
    BY <1>1 DEF ProbeNames
  <2>2. ips \in [1..IPLen -> ProbeNames]
    BY <2>1
  <2> QED
    BY <1>1, <2>2, SeqDef
<1>4. <<>> \in Seq(ProbeNames) /\ Len(<<>>) = 0
  BY EmptySeq
<1>5. \A n \in 1..IPLen : ips[n] = <<"ip", IPLen + 1 - n>>
  OBVIOUS
<1>6. ProbeFiles4 = mac \o ips \o def /\ ProbeFiles6 = mac \o <<>> \o def
  BY DEF probeFiles, ProbeFiles4, ProbeFiles6
<1> HIDE DEF mac, def, ips
<1>7. /\ mac \o ips \in Seq(ProbeNames) /\ Len(mac \o ips) = IPLen + 1
      /\ (mac \o ips)[1] = <<"mac", 0>>
      /\ \A n \in 1..IPLen : (mac \o ips)[n + 1] = <<"ip", IPLen + 1 - n>>
  <2>1. /\ mac \o ips \in Seq(ProbeNames) /\ Len(mac \o ips) = 1 + IPLen
        /\ \A i \in 1..1 + IPLen : (mac \o ips)[i] = IF i <= 1 THEN mac[i] ELSE ips[i - 1]
    BY <1>2, <1>3, ConcatProperties
  <2>2. ASSUME NEW n \in 1..IPLen PROVE (mac \o ips)[n + 1] = <<"ip", IPLen + 1 - n>>
    <3>1. n + 1 \in 1..1 + IPLen /\ ~(n + 1 <= 1) /\ (n + 1) - 1 = n
      BY <1>1
    <3>2. (mac \o ips)[n + 1] = ips[n]
      BY <2>1, <3>1
    <3> QED
      BY <1>5, <3>2
  <2>3. (mac \o ips)[1] = <<"mac", 0>>
    BY <1>1, <1>2, <2>1
  <2>4. mac \o ips \in Seq(ProbeNames) /\ Len(mac \o ips) = IPLen + 1
    BY <1>1, <2>1
  <2> QED
    BY <2>2, <2>3, <2>4, Zenon
<1>8. /\ mac \o ips \o def \in Seq(ProbeNames) /\ Len(mac \o ips \o def) = IPLen + 2
      /\ \A i \in 1..IPLen + 1 : (mac \o ips \o def)[i] = (mac \o ips)[i]
      /\ (mac \o ips \o def)[IPLen + 2] = def[1]
  <2> DEFINE mi == mac \o ips
  <2>1. mi \in Seq(ProbeNames) /\ Len(mi) = IPLen + 1
    BY <1>7
  <2> HIDE DEF mi
  <2>2. /\ mi \o def \in Seq(ProbeNames) /\ Len(mi \o def) = IPLen + 1 + 1
        /\ \A i \in 1..IPLen + 1 + 1 : (mi \o def)[i] = IF i <= IPLen + 1 THEN mi[i] ELSE def[i - (IPLen + 1)]
    <3>1. /\ mi \o def \in Seq(ProbeNames) /\ Len(mi \o def) = Len(mi) + Len(def)
          /\ \A i \in 1..Len(mi) + Len(def) : (mi \o def)[i] = IF i <= Len(mi) THEN mi[i] ELSE def[i - Len(mi)]
      BY <1>2, <2>1, ConcatProperties
    <3> QED
      BY <1>2, <2>1, <3>1
  <2>3. /\ mi \o def \in Seq(ProbeNames) /\ Len(mi \o def) = IPLen + 2
        /\ \A i \in 1..IPLen + 1 : (mi \o def)[i] = mi[i]
        /\ (mi \o def)[IPLen + 2] = def[1]
    BY <1>1, <2>2
  <2> QED
    BY <2>3 DEF mi
<1>9. mac \o <<>> = mac
  BY <1>2, ConcatEmptySeq
<1>10. /\ mac \o def \in Seq(ProbeNames) /\ Len(mac \o def) = 2
       /\ \A i \in 1..2 : (mac \o def)[i] = IF i <= 1 THEN mac[i] ELSE def[i - 1]
  BY <1>2, ConcatProperties
<1>11. (mac \o def)[1] = <<"mac", 0>> /\ (mac \o def)[2] = <<"default", 0>>
  BY <1>2, <1>10
<1>12. /\ (mac \o ips \o def)[1] = <<"mac", 0>> /\ (mac \o ips \o def)[IPLen + 2] = <<"default", 0>>
       /\ \A n \in 1..IPLen : (mac \o ips \o def)[n + 1] = <<"ip", IPLen + 1 - n>>
  <2>1. 1 \in 1..IPLen + 1 /\ \A n \in 1..IPLen : n + 1 \in 1..IPLen + 1
    BY <1>1
  <2> QED
    BY <1>2, <1>7, <1>8, <2>1
<1> QED
  BY <1>6, <1>8, <1>9, <1>10, <1>11, <1>12

\* What is more specific than a name comes before it.
LEMMA MoreSpecificFirst ==
    ASSUME NEW v4 \in BOOLEAN, NEW P, P = (IF v4 THEN ProbeFiles4 ELSE ProbeFiles6), NEW k \in 1..Len(P), NEW m \in ProbeNames,
           MoreSpecific(m, P[k]), m[1] = "ip" => v4
    PROVE  \E i \in 1..k - 1 : P[i] = m
<1>0. IPLen \in Nat
  BY NetbootAssumption
<1>1. m = <<"mac", 0>> \/ m = <<"default", 0>> \/ \E n \in 1..IPLen : m = <<"ip", n>>
  BY DEF ProbeNames
<1>2. CASE v4 = TRUE
  <2>0. P = ProbeFiles4
    BY <1>2
  <2>1. /\ P[1] = <<"mac", 0>> /\ P[IPLen + 2] = <<"default", 0>> /\ Len(P) = IPLen + 2
        /\ \A n \in 1..IPLen : P[n + 1] = <<"ip", IPLen + 1 - n>>
    BY <2>0, ProbeFilesElements
  <2>2. k \in 1..IPLen + 2 /\ MoreSpecific(m, P[k])
    BY <1>2, <2>1
  <2>3. k = 1 \/ k = IPLen + 2 \/ \E n \in 1..IPLen : k = n + 1
    <3>1. k # 1 /\ k # IPLen + 2 => k - 1 \in 1..IPLen /\ k = (k - 1) + 1
      BY <1>0, <2>2
    <3> QED
      BY <3>1
  <2>4. \E i \in 1..k - 1 : P[i] = m
    <3>1. CASE m = <<"mac", 0>>
      <4>1. k # 1
        BY <2>1, <2>2, <3>1 DEF MoreSpecific
      <4> QED
        BY <1>0, <2>1, <2>2, <3>1, <4>1
    <3>2. CASE m = <<"default", 0>>
      BY <2>2, <3>2 DEF MoreSpecific
    <3>3. ASSUME NEW n \in 1..IPLen, m = <<"ip", n>> PROVE \E i \in 1..k - 1 : P[i] = m
      <4>0. IPLen + 1 - n \in 1..IPLen /\ IPLen + 1 - (IPLen + 1 - n) = n
        BY <1>0
      <4>1. IPLen + 1 - n \in 1..IPLen /\ P[(IPLen + 1 - n) + 1] = m
        BY <2>1, <3>3, <4>0
      <4>2. CASE k = IPLen + 2
        <5>1. (IPLen + 1 - n) + 1 \in 1..k - 1
          BY <1>0, <4>2
        <5> QED
          BY <4>1, <5>1
      <4>3. CASE k = 1
        <5>1. P[k] = <<"mac", 0>> /\ m[1] = "ip"
          BY <2>1, <3>3, <4>3
        <5>2. ~MoreSpecific(m, P[k])
          BY <5>1 DEF MoreSpecific
        <5> QED
          BY <2>2, <5>2
      <4>4. ASSUME NEW q \in 1..IPLen, k = q + 1 PROVE \E i \in 1..k - 1 : P[i] = m
        <5>0. P[k] = <<"ip", IPLen + 1 - q>> /\ m[1] = "ip" /\ m[2] = n
          BY <2>1, <3>3, <4>4
        <5>1. n > IPLen + 1 - q
          BY <2>2, <5>0 DEF MoreSpecific
        <5>2. (IPLen + 1 - n) + 1 \in 1..k - 1
          BY <1>0, <4>4, <5>1
        <5> QED
          BY <4>1, <5>2
      <4> QED
        BY <2>3, <4>2, <4>3, <4>4
    <3> QED
      BY <1>1, <3>1, <3>2, <3>3
  <2> QED
    BY <2>4
<1>3. CASE v4 = FALSE
  <2>0. P = ProbeFiles6
    BY <1>3
  <2>1. P[1] = <<"mac", 0>> /\ P[2] = <<"default", 0>> /\ Len(P) = 2
    BY <2>0, ProbeFilesElements
  <2>2. k \in {1, 2} /\ MoreSpecific(m, P[k])
    BY <2>1
  <2>3. m[1] # "ip"
    BY <1>3
  <2>4. k = 2 /\ m = <<"mac", 0>>
    BY <1>1, <2>1, <2>2, <2>3 DEF MoreSpecific
  <2>5. \E i \in 1..k - 1 : P[i] = m
    BY <2>1, <2>4
  <2> QED
    BY <2>5
<1> QED
  BY <1>2, <1>3

\* getBootImages starts the search, if at all with an image that is no configuration.
LEMMA getBootImagesStep ==
    ASSUME GoInv, BootInv, ProbeInv, getBootImages
    PROVE  GoInv' /\ BootInv' /\ ProbeInv'
<1> DEFINE P == Names
<1>0. IPLen \in Nat
  BY NetbootAssumption
<1>1. GoInv' /\ BootInv' /\ cur' = cur /\ lease' = lease
  BY FetchKeeps
<1>2. /\ mpc' = "probe" /\ ret' = ret /\ probing' = P
      /\ \/ lease.content \in {"ipxe", "fit"} /\ images' = <<<<lease.content, 0>>>>
         \/ images' = <<>>
  BY DEF getBootImages, Names, ProbeFiles4, ProbeFiles6, probeFiles
<1>3. P \in Seq(ProbeNames) /\ Len(P) \in Nat
  <2>1. CASE cur[2] = 4
    <3>1. P = ProbeFiles4
      BY <2>1 DEF Names
    <3> HIDE DEF P
    <3> QED
      BY <3>1, <1>0, ProbeFilesElements
  <2>2. CASE cur[2] # 4
    <3>1. P = ProbeFiles6
      BY <2>2 DEF Names
    <3> HIDE DEF P
    <3> QED
      BY <3>1, ProbeFilesElements
  <2> QED
    BY <2>1, <2>2
<1>4. P' = P
  BY <1>1 DEF Names
<1> HIDE DEF P
<1>5. /\ images' \in Seq(ImageNames)
      /\ \A k \in 1..Len(images') : images'[k] \notin ProbeNames
  <2>1. CASE lease.content \in {"ipxe", "fit"} /\ images' = <<<<lease.content, 0>>>>
    <3>1. images' = <<<<lease.content, 0>>>> /\ Len(images') = 1 /\ images'[1] = <<lease.content, 0>>
      BY <1>2, <2>1
    <3>2. <<lease.content, 0>> \in ImageNames
      BY <1>0, <2>1 DEF ImageNames
    <3>3. <<lease.content, 0>> \notin ProbeNames
      BY <2>1 DEF ProbeNames
    <3> QED
      BY <3>1, <3>2, <3>3
  <2>2. CASE images' = <<>>
    BY <2>2, EmptySeq
  <2> QED
    BY <1>2, <2>1, <2>2
<1>6. Probed(0)'
  <2>1. /\ Len(probing') = Len(P) - 0
        /\ \A k \in 1..Len(probing') : probing'[k] = P[0 + k]
        /\ 1..0 = {}
    BY <1>2, <1>3
  <2>2. /\ Len(probing') = Len(P') - 0
        /\ \A k \in 1..Len(probing') : probing'[k] = P'[0 + k]
        /\ \A k \in 1..0 : Skipped(Names[k])'
    BY <1>4, <2>1
  <2> QED
    BY <2>2 DEF P, Probed
<1>7. \E j \in 0..Len(P') : Probed(j)'
  BY <1>3, <1>4, <1>6
<1>8. ret # "images"
  BY DEF BootInv, getBootImages
<1> QED
  BY <1>1, <1>2, <1>3, <1>5, <1>7, <1>8 DEF ProbeInv, P

\* What is known when the next name is looked for: which one it is.
LEMMA NextName ==
    ASSUME GoInv, BootInv, ProbeInv, mpc = "probe"
    PROVE  /\ Names \in Seq(ProbeNames) /\ Len(Names) \in Nat
           /\ probing \in Seq(ProbeNames) /\ images \in Seq(ImageNames) /\ ret = "none"
           /\ \A k \in 1..Len(images) : images[k] \notin ProbeNames
           /\ \E j \in 0..Len(Names) :
                /\ Probed(j)
                /\ probing # <<>> => j + 1 \in 1..Len(Names) /\ Head(probing) = Names[j + 1]
<1> DEFINE P == Names
<1>0. IPLen \in Nat
  BY NetbootAssumption
<1>1. P \in Seq(ProbeNames) /\ Len(P) \in Nat
  <2>1. CASE cur[2] = 4
    <3>1. P = ProbeFiles4
      BY <2>1 DEF Names
    <3> HIDE DEF P
    <3> QED
      BY <3>1, <1>0, ProbeFilesElements
  <2>2. CASE cur[2] # 4
    <3>1. P = ProbeFiles6
      BY <2>2 DEF Names
    <3> HIDE DEF P
    <3> QED
      BY <3>1, ProbeFilesElements
  <2> QED
    BY <2>1, <2>2
<1>2. PICK j \in 0..Len(P) : Probed(j)
  BY DEF ProbeInv
<1>3. Len(probing) = Len(P) - j /\ \A k \in 1..Len(probing) : probing[k] = P[j + k]
  BY <1>2 DEF Probed
<1>4. probing \in Seq(ProbeNames) /\ images \in Seq(ImageNames) /\ ret = "none"
      /\ \A k \in 1..Len(images) : images[k] \notin ProbeNames
  BY DEF ProbeInv, BootInv
<1>5. ASSUME probing # <<>> PROVE j + 1 \in 1..Len(P) /\ Head(probing) = P[j + 1]
  <2>1. Head(probing) = probing[1] /\ Len(probing) \in Nat \ {0} /\ 1 \in 1..Len(probing)
    BY <1>4, <1>5, HeadTailProperties, EmptySeq
  <2>2. probing[1] = P[j + 1]
    BY <1>3, <2>1
  <2>3. j + 1 \in 1..Len(P)
    BY <1>1, <1>3, <2>1
  <2> QED
    BY <2>1, <2>2, <2>3
<1> QED
  BY <1>1, <1>2, <1>4, <1>5

\* ProbeNext: the next name is skipped.
LEMMA ProbeNextStep ==
    ASSUME GoInv, BootInv, ProbeInv, ProbeNext
    PROVE  GoInv' /\ BootInv' /\ ProbeInv'
<1> DEFINE P == Names
           n == Head(probing)
<1>1. GoInv' /\ BootInv' /\ cur' = cur /\ lease' = lease /\ lease \in Offers
  BY FetchKeeps
<1>2. /\ mpc = "probe" /\ probing # <<>> /\ probing' = Tail(probing)
      /\ UNCHANGED <<mpc, images, ret>>
      /\ lost' = IF lease.configs[n] \in {"good", "broken"} THEN lost \cup {n} ELSE lost
  BY DEF ProbeNext
<1>3. PICK j \in 0..Len(P) : Probed(j) /\ j + 1 \in 1..Len(P) /\ n = P[j + 1]
  BY <1>2, NextName
<1>4. /\ P \in Seq(ProbeNames) /\ Len(P) \in Nat /\ probing \in Seq(ProbeNames)
      /\ images \in Seq(ImageNames) /\ ret = "none"
      /\ \A k \in 1..Len(images) : images[k] \notin ProbeNames
  BY <1>2, NextName
<1>5. /\ Len(probing) = Len(P) - j
      /\ \A k \in 1..Len(probing) : probing[k] = P[j + k]
      /\ \A k \in 1..j : Skipped(P[k])
  BY <1>3 DEF Probed
<1>6. P' = P
  BY <1>1 DEF Names
<1>7. /\ probing' \in Seq(ProbeNames) /\ Len(probing') = Len(probing) - 1
      /\ \A k \in 1..Len(probing') : probing'[k] = probing[k + 1]
      /\ Len(probing) \in Nat \ {0}
  BY <1>2, <1>4, HeadTailProperties, EmptySeq
<1>8. n \in ProbeNames /\ lease.configs[n] \in {"missing", "good", "noscheme", "broken"}
  <2>1. n \in ProbeNames
    BY <1>2, <1>4, HeadTailProperties
  <2>2. lease.configs \in [ProbeNames -> {"missing", "good", "noscheme", "broken"}]
    BY <1>1, NetbootAssumption DEF Statuses
  <2> QED
    BY <2>1, <2>2
<1>9. \A k \in 1..j + 1 : lease'.configs[P'[k]] \in {"missing", "noscheme"} \/ P'[k] \in lost'
  <2>1. \A k \in 1..j + 1 : k \in 1..j \/ k = j + 1
    OBVIOUS
  <2>2. lost \subseteq lost'
    BY <1>2
  <2> QED
    BY <1>1, <1>2, <1>3, <1>5, <1>6, <1>8, <2>1, <2>2 DEF Skipped
<1>10. Len(probing') = Len(P) - (j + 1)
  BY <1>4, <1>5, <1>7
<1>11. ASSUME NEW k \in 1..Len(probing') PROVE probing'[k] = P[(j + 1) + k]
  <2>1. k + 1 \in 1..Len(probing) /\ j + (k + 1) = (j + 1) + k
    BY <1>7
  <2> QED
    BY <1>5, <1>7, <2>1
<1>12. Probed(j + 1)'
  <2>1. /\ Len(probing') = Len(P') - (j + 1)
        /\ \A k \in 1..Len(probing') : probing'[k] = P'[(j + 1) + k]
    BY <1>6, <1>10, <1>11
  <2> QED
    BY <1>9, <2>1 DEF Probed, Skipped
<1>13. \E i \in 0..Len(P') : Probed(i)'
  BY <1>3, <1>4, <1>6, <1>12
<1> HIDE DEF P, n
<1> QED
  BY <1>1, <1>2, <1>4, <1>7, <1>13 DEF ProbeInv, P

\* ParseConfig: the search ends at a file that can be fetched, or after the last one.
LEMMA ParseConfigStep ==
    ASSUME GoInv, BootInv, ProbeInv, ParseConfig
    PROVE  GoInv' /\ BootInv' /\ ProbeInv'
<1> DEFINE v4 == cur[2] = 4
           P == Names
           n == Head(probing)
<1>a. GoInv' /\ BootInv' /\ cur' = cur /\ lease' = lease /\ lease \in Offers /\ IPLen \in Nat
  BY FetchKeeps, NetbootAssumption
<1>b. /\ mpc = "probe" /\ mpc' = "return" /\ ret' = "images" /\ UNCHANGED <<probing, lost>>
      /\ \/ probing # <<>> /\ lease.configs[n] = "good" /\ images' = Append(images, n)
         \/ images' = images
  BY DEF ParseConfig
<1>c. /\ P \in Seq(ProbeNames) /\ Len(P) \in Nat /\ probing \in Seq(ProbeNames)
      /\ images \in Seq(ImageNames) /\ ret = "none"
      /\ \A k \in 1..Len(images) : images[k] \notin ProbeNames
  BY <1>b, NextName
<1>1. CASE probing # <<>> /\ lease.configs[n] = "good" /\ images' = Append(images, n)
  <2>0. PICK j \in 0..Len(P) : Probed(j) /\ j + 1 \in 1..Len(P) /\ n = P[j + 1]
    BY <1>1, <1>b, NextName
  <2>1. n \in ProbeNames
    BY <1>c, <1>1, HeadTailProperties
  <2>2. n \in ImageNames
    BY <1>a, <2>1 DEF ProbeNames, ImageNames
  <2>3. /\ images' \in Seq(ImageNames)
        /\ Len(images') = Len(images) + 1 /\ images'[Len(images) + 1] = n /\ Len(images) \in Nat
        /\ \A k \in 1..Len(images) : images'[k] = images[k]
    <3>1. images' = Append(images, n)
      BY <1>1
    <3> HIDE DEF n
    <3> QED
      BY <1>c, <2>2, <3>1, AppendProperties, LenProperties
  <2>5. ASSUME NEW m \in ProbeNames, MoreSpecific(m, n), m[1] = "ip" => v4
        PROVE  Skipped(m)
    <3>1. PICK i \in 1..(j + 1) - 1 : P[i] = m
      <4>1. MoreSpecific(m, P[j + 1])
        BY <2>0, <2>5
      <4>2. CASE v4
        <5>1. P = ProbeFiles4
          BY <4>2 DEF Names
        <5> HIDE DEF P
        <5> QED
          BY <2>0, <4>1, <5>1, MoreSpecificFirst
      <4>3. CASE ~v4
        <5>1. P = ProbeFiles6 /\ m[1] # "ip"
          BY <2>5, <4>3 DEF Names
        <5> HIDE DEF P
        <5> QED
          BY <2>0, <4>1, <5>1, MoreSpecificFirst
      <4> QED
        BY <4>2, <4>3
    <3>2. i \in 1..j
      OBVIOUS
    <3>3. \A k \in 1..j : Skipped(P[k])
      BY <2>0 DEF Probed
    <3> QED
      BY <3>1, <3>2, <3>3
  <2>6. PreferredAreMissing(n)
    BY <2>5 DEF PreferredAreMissing
  <2>7. \A k \in 1..Len(images') : images'[k] \in ProbeNames => images'[k] = n
    <3>1. \A k \in 1..Len(images') : k \in 1..Len(images) \/ k = Len(images) + 1
      BY <2>3
    <3> QED
      BY <1>c, <2>3, <3>1
  <2>8. \A k \in 1..Len(images') : images'[k] \in ProbeNames => PreferredAreMissing(images[k])'
    BY <1>a, <1>b, <2>6, <2>7 DEF PreferredAreMissing, Skipped
  <2> HIDE DEF n, P
  <2> QED
    BY <1>a, <1>b, <1>c, <2>3, <2>8 DEF ProbeInv
<1>2. CASE images' = images
  <2> HIDE DEF n, P
  <2> QED
    BY <1>a, <1>b, <1>c, <1>2 DEF ProbeInv
<1> QED
  BY <1>b, <1>1, <1>2

-----------------------------------------------------------------------------
(***************************************************************************)
(* The theorems.                                                           *)
(***************************************************************************)

NetInv == GoInv /\ BootInv /\ ProbeInv

\* The program starts with a goroutine for every interface, which wg counts.
LEMMA NetInit == Init => NetInv
<1> SUFFICES ASSUME Init PROVE NetInv
  OBVIOUS
<1>0. opt \in CommandLines
  BY DEF Init
<1>1. /\ gpc = [g \in Links \cup Workers |-> IF g \in Links THEN "up" ELSE "none"]
      /\ outcome = [g \in Workers |-> Failed] /\ wg = Cardinality(opt.ifs)
      /\ r = <<>> /\ closed = FALSE /\ expired = FALSE
  BY DEF Init
<1>2. r \in Seq(Workers) /\ Len(r) = 0
  BY <1>1, EmptySeq
<1>3. GoTypeOK
  BY <1>0, <1>1, <1>2, LinksAreNotWorkers DEF GoTypeOK
<1>4. NotStarted
  <2>1. ASSUME NEW i \in opt.ifs, NEW p \in opt.protos PROVE gpc[<<i, p>>] = "none"
    <3>1. <<i, p>> \in Workers
      BY DEF Workers
    <3> QED
      BY <1>0, <1>1, <3>1, LinksAreNotWorkers
  <2> QED
    BY <2>1 DEF NotStarted
<1>5. WaitGroupCounts
  <2>1. {g \in DOMAIN gpc : Live(g)} = Links
    BY <1>1 DEF Live
  <2>2. Links = opt.ifs \X {0}
    BY DEF Links
  <2>3. IsFiniteSet({0}) /\ Cardinality({0}) = 1
    BY FS_Singleton
  <2>4. Cardinality(Links) = Cardinality(opt.ifs) * 1
    <3>1. Cardinality(opt.ifs \X {0}) = Cardinality(opt.ifs) * Cardinality({0})
      BY <1>0, <2>3, OptFacts, FS_Product
    <3> QED
      BY <2>2, <2>3, <3>1
  <2> QED
    BY <1>0, <1>1, <2>1, <2>4, OptFacts DEF WaitGroupCounts
<1>6. ClosedLast /\ SentOnce /\ NoLeaseYet
  BY <1>1, <1>2 DEF ClosedLast, SentOnce, NoLeaseYet
<1>7. BootInv
  <2>1. /\ mpc = "select" /\ cur = Nobody /\ ret = "none" /\ configured = FALSE
          /\ Nobody \notin Workers
    BY <1>0, LinksAreNotWorkers DEF Init
  <2>2. URLsAreSeen
    BY <1>1 DEF URLsAreSeen
  <2> QED
    BY <2>1, <2>2 DEF BootInv, ConfigInv
<1>8. ProbeInv
  <2>1. images = <<>> /\ probing = <<>> /\ mpc = "select" /\ ret = "none"
    BY DEF Init
  <2>2. Len(images) = 0 /\ images \in Seq(ImageNames) /\ probing \in Seq(ProbeNames)
    BY <2>1, EmptySeq
  <2> QED
    BY <2>1, <2>2 DEF ProbeInv
<1> QED
  BY <1>3, <1>4, <1>5, <1>6, <1>7, <1>8 DEF NetInv, GoInv

\* NetInv is an invariant of SendRequests and NetbootImages together.
THEOREM NetInvariance == Spec => []NetInv
<1>1. NetInv /\ [Next]_vars => NetInv'
  <2> SUFFICES ASSUME GoInv, BootInv, ProbeInv, [Next]_vars PROVE GoInv' /\ BootInv' /\ ProbeInv'
    BY DEF NetInv
  <2>1. ASSUME NEW g \in Links \cup Workers, Goroutine(g) PROVE GoInv' /\ BootInv' /\ ProbeInv'
    <3>1. BootInv' /\ ProbeInv'
      BY <2>1, GoroutineKeeps, GoStepPreserves
    <3>2. g \in Links => g[1] \in opt.ifs
      BY LinksAreNotWorkers DEF GoInv, GoTypeOK
    <3>3. GoInv'
      BY <2>1, <3>2, GoMoves, GoSpawn, GoSend, GoDone DEF Goroutine
    <3> QED
      BY <3>1, <3>3
  <2>2. CASE Close
    <3>1. GoStepKeeps
      BY <2>2 DEF GoStepKeeps, Close, Sent, InChannel
    <3> QED
      BY <2>2, <3>1, GoClose, GoStepPreserves
  <2>3. CASE Deadline
    <3>1. GoStepKeeps
      BY <2>3 DEF GoStepKeeps, Deadline, Sent, InChannel
    <3>2. GoInv'
      BY <2>3, GoSame DEF Deadline
    <3> QED
      BY <3>1, <3>2, GoStepPreserves
  <2>4. CASE NetbootImages
    BY <2>4, ReceiveStep, ConfigureStep, EndStep, getBootImagesStep, ProbeNextStep, ParseConfigStep
    DEF NetbootImages, Local, Remote
  <2>5. CASE UNCHANGED vars
    <3>1. UNCHANGED <<opt, gpc, outcome, wg, r, closed, expired>>
      BY <2>5 DEF vars, goroutines
    <3>2. GoStepKeeps
      BY <2>5, <3>1 DEF GoStepKeeps, vars, Sent, InChannel
    <3>3. GoInv'
      BY <3>1, GoSame DEF GoInv, GoTypeOK
    <3> QED
      BY <3>2, <3>3, GoStepPreserves
  <2> QED
    BY <2>1, <2>2, <2>3, <2>4, <2>5 DEF Next
<1> QED
  BY <1>1, NetInit, PTL DEF Spec

\* SendRequests: wg counts the goroutines, the channel is not closed before the
\* last send, and no send waits, whether anybody receives or not.
THEOREM SendsAreSafe == Spec => []SendsSafely
<1>1. NetInv => SendsSafely
  <2> SUFFICES ASSUME GoInv PROVE SendsSafely
    BY DEF NetInv
  <2>1. ASSUME NEW g \in Workers, gpc[g] = "send" PROVE ~closed /\ Len(r) < Cap
    <3>1. Live(g) /\ g \in DOMAIN gpc
      BY <2>1 DEF Live, GoInv, GoTypeOK
    <3> QED
      BY <2>1, <3>1, RoomInChannel DEF GoInv, ClosedLast
  <2> QED
    BY <2>1 DEF SendsSafely, GoInv, WaitGroupCounts
<1> QED
  BY <1>1, NetInvariance, PTL

\* NetbootImages says that nothing bootable was found only after every request has
\* ended, and then no lease had a URL, in whatever order they came.
THEOREM NothingIsNothing == Spec => []NothingMeansNothing
<1>1. NetInv => NothingMeansNothing
  <2> SUFFICES ASSUME GoInv, BootInv, ret = "nothing", NEW g \in Workers
               PROVE  ~Live(g) /\ (outcome[g] # Failed => ~HasURL(outcome[g]))
    BY DEF NetInv, NothingMeansNothing
  <2>1. closed /\ r = <<>> /\ Len(r) = 0
    BY EmptySeq DEF BootInv
  <2>2. ~Live(g)
    BY <2>1 DEF GoInv, GoTypeOK, ClosedLast
  <2>3. gpc[g] # "send" /\ ~InChannel(g)
    BY <2>1, <2>2 DEF Live, InChannel
  <2> QED
    BY <2>2, <2>3 DEF BootInv, URLsAreSeen
<1> QED
  BY <1>1, NetInvariance, PTL

\* Configure: when it has returned nil, the images of the lease are fetched with its name
\* servers, and with IPv4 with its address and with the default route that it gives, if
\* it gives one, whatever other leases have done to the network before.
THEOREM ConfiguresItsLease == Spec => []FetchesWithItsLease
<1>1. NetInv => FetchesWithItsLease
  BY DEF NetInv, BootInv, ConfigInv, Configured, FetchesWithItsLease
<1> QED
  BY <1>1, NetInvariance, PTL

\* probeFiles and ParseConfig: what is more specific than the configuration used is
\* missing or could not be fetched, on servers whose configurations refer to no URL of
\* an unknown scheme (such a file is taken for a missing one).
THEOREM UsesMostSpecific ==
    ASSUME \A o \in Offers : \A n \in ProbeNames : o.configs[n] # "noscheme"
    PROVE  Spec => []MostSpecificConfig
<1>1. NetInv => MostSpecificConfig
  <2> SUFFICES ASSUME BootInv, ProbeInv, NEW k \in DOMAIN images, images[k] \in ProbeNames,
                      NEW m \in ProbeNames, MoreSpecific(m, images[k]), m[1] = "ip" => cur[2] = 4
               PROVE  lease.configs[m] = "missing" \/ m \in lost
    BY DEF NetInv, MostSpecificConfig
  <2>1. k \in 1..Len(images) /\ images # <<>>
    BY LenProperties, EmptySeq DEF ProbeInv
  <2>2. lease \in Offers
    BY <2>1 DEF ProbeInv, BootInv
  <2>3. Skipped(m)
    BY <2>1 DEF ProbeInv, PreferredAreMissing
  <2> QED
    BY <2>2, <2>3 DEF Skipped
<1> QED
  BY <1>1, NetInvariance, PTL

=============================================================================
