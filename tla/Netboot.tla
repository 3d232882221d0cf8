------------------------------ MODULE Netboot -------------------------------
(***************************************************************************)
(* Network boot: dhclient.SendRequests asks for a lease on every interface *)
(* and with every protocol at once; NetbootImages of cmds/boot/pxeboot     *)
(* takes the results as they come, configures the network and lets         *)
(* pkg/boot/netboot look for images on the server of the lease.            *)
(*                                                                         *)
(* An interface has up to three goroutines: one brings the link up and     *)
(* starts the two that ask for a lease.  A server is what can be found at  *)
(* the URL of its lease, and in the directory pxelinux.cfg beside it.      *)
(***************************************************************************)
EXTENDS Integers, Sequences, FiniteSets

CONSTANTS
    Ifs,          \* the interfaces of the machine
    CommandLines, \* the interfaces that are asked for, and the flags
    IPLen,        \* hexadecimal digits of an address: 8
    Offers        \* the leases that may be offered, with what their server has

ProbeNames == {<<"mac", 0>>, <<"default", 0>>} \cup {<<"ip", n>> : n \in 1..IPLen}

\* What happens to a file of pxelinux.cfg: it is not there, it is parsed, it
\* refers to a URL of an unknown scheme, or it is wrong in another way.  And the
\* classless routes of a lease: none, some with a default route, or some without.
Statuses == {"missing", "good", "noscheme", "broken"}
Classless == {"none", "default", "other"}

ASSUME NetbootAssumption ==
    /\ IsFiniteSet(Ifs) /\ IPLen \in Nat
    /\ CommandLines \subseteq [ifs : SUBSET Ifs, protos : SUBSET {4, 6}, noNetConfig : BOOLEAN]
    /\ Offers \subseteq [proto : {4, 6}, addr : BOOLEAN, classless : Classless, router : BOOLEAN, dns : BOOLEAN,
                         file : {"none", "path", "url"}, server : BOOLEAN,
                         content : {"missing", "ipxe", "fit", "other"},
                         configs : [ProbeNames -> Statuses]]

VARIABLES
    opt,       \* the command line
    gpc,       \* where the goroutines of each interface are: "link", 4 and 6
    outcome,   \* the lease that each goroutine got, or Failed
    wg,        \* the counter of the WaitGroup
    r, closed, \* the channel of results
    expired,   \* is the deadline of the context over?
    mpc, cur,  \* NetbootImages, and the result it is at
    configured, \* has Configure of cur returned nil?
    probing,   \* pxe.ParseConfig: the names that are left
    lost,      \* the names of files that are there and could not be fetched
    images,    \* the images found
    ret,       \* what NetbootImages returns
    addrs, route, dns  \* the network: addresses, default route and resolv.conf, by whose lease

goroutines == <<gpc, outcome, wg, r, closed, expired>>
boot == <<mpc, cur, configured, probing, lost, images, ret>>
network == <<addrs, route, dns>>
vars == <<opt, goroutines, boot, network>>

Failed == [proto |-> 0]
Nobody == <<>>
Workers == opt.ifs \X opt.protos
Links == {<<i, 0>> : i \in opt.ifs}  \* the goroutine that brings up interface i
Cap == 3 * Cardinality(opt.ifs)

Init ==
    /\ opt \in CommandLines
    /\ gpc = [g \in Links \cup Workers |-> IF g \in Links THEN "up" ELSE "none"]
    /\ outcome = [g \in Workers |-> Failed]
    /\ wg = Cardinality(opt.ifs) /\ r = <<>> /\ closed = FALSE /\ expired = FALSE
    /\ mpc = "select" /\ cur = Nobody /\ configured = FALSE /\ ret = "none"
    /\ probing = <<>> /\ lost = {} /\ images = <<>>
    /\ addrs = {} /\ route = Nobody /\ dns = Nobody

-----------------------------------------------------------------------------
(***************************************************************************)
(* SendRequests.                                                           *)
(***************************************************************************)

\* IfUp succeeds, or the link stays down, vanishes or cannot be set up.
IfUp(i) ==
    /\ gpc[<<i, 0>>] = "up"
    /\ gpc' = [gpc EXCEPT ![<<i, 0>>] = "spawn"]
        \/ gpc' = [gpc EXCEPT ![<<i, 0>>] = "return"]
    /\ UNCHANGED <<opt, outcome, wg, r, closed, expired, boot, network>>

\* The goroutines for the protocols, where they start.
Started(i) ==
    [g \in DOMAIN gpc |->
       IF g = <<i, 0>> THEN "return"
       ELSE IF g[1] = i THEN (IF g[2] = 4 THEN "lease" ELSE "dad") ELSE gpc[g]]

\* Mutant: wg.Add is forgotten.
Spawn_NoAdd(i) ==
    /\ gpc[<<i, 0>>] = "spawn"
    /\ gpc' = Started(i)
    /\ UNCHANGED <<opt, outcome, wg, r, closed, expired, boot, network>>

\* "if ipv4" and "if ipv6": wg.Add and a goroutine for each protocol in use.
Spawn(i) ==
    /\ gpc[<<i, 0>>] = "spawn"
    /\ gpc' = Started(i)
    /\ wg' = wg + Cardinality(opt.protos)
    /\ UNCHANGED <<opt, outcome, r, closed, expired, boot, network>>

\* lease6 waits for an address that is not tentative, until one of two time-outs.
Dad(g) ==
    /\ gpc[g] = "dad"
    /\ \/ gpc' = [gpc EXCEPT ![g] = "lease"]
       \/ gpc' = [gpc EXCEPT ![g] = "send"]
    /\ UNCHANGED <<opt, outcome, wg, r, closed, expired, boot, network>>

\* lease4 and lease6: the DHCP client, with its own retries, and with the context.
Lease(g) ==
    /\ gpc[g] = "lease"
    /\ gpc' = [gpc EXCEPT ![g] = "send"]
    /\ \E o \in {o \in Offers : o.proto = g[2]} \cup {Failed} : outcome' = [outcome EXCEPT ![g] = o]
    /\ UNCHANGED <<opt, wg, r, closed, expired, boot, network>>

\* Mutant: the channel has room for one result per interface.
Send_SmallChannel(g) ==
    /\ gpc[g] = "send" /\ Len(r) < Cardinality(opt.ifs)
    /\ r' = Append(r, g) /\ gpc' = [gpc EXCEPT ![g] = "return"]
    /\ UNCHANGED <<opt, outcome, wg, closed, expired, boot, network>>

\* r <- &Result{...}
Send(g) ==
    /\ gpc[g] = "send" /\ ~closed /\ Len(r) < Cap
    /\ r' = Append(r, g) /\ gpc' = [gpc EXCEPT ![g] = "return"]
    /\ UNCHANGED <<opt, outcome, wg, closed, expired, boot, network>>

\* wg.Done
Done(g) ==
    /\ gpc[g] = "return"
    /\ gpc' = [gpc EXCEPT ![g] = "done"] /\ wg' = wg - 1
    /\ UNCHANGED <<opt, outcome, r, closed, expired, boot, network>>

\* wg.Wait and close(r)
Close ==
    /\ wg = 0 /\ ~closed /\ closed' = TRUE
    /\ UNCHANGED <<opt, gpc, outcome, wg, r, expired, boot, network>>

\* The timeout of the context.
Deadline ==
    /\ ~expired /\ expired' = TRUE
    /\ UNCHANGED <<opt, gpc, outcome, wg, r, closed, boot, network>>

Goroutine(g) ==
    \/ g \in Links /\ (IfUp(g[1]) \/ Spawn(g[1]))
    \/ g \in Workers /\ (Dad(g) \/ Lease(g) \/ Send(g))
    \/ g \in Links \cup Workers /\ Done(g)

-----------------------------------------------------------------------------
(***************************************************************************)
(* NetbootImages.                                                          *)
(***************************************************************************)

lease == outcome[cur]

TimedOut ==
    /\ mpc = "select" /\ expired
    /\ mpc' = "return" /\ ret' = "deadline"
    /\ UNCHANGED <<opt, goroutines, cur, configured, probing, lost, images, network>>

AllDone ==
    /\ mpc = "select" /\ r = <<>> /\ closed
    /\ mpc' = "return" /\ ret' = "nothing"
    /\ UNCHANGED <<opt, goroutines, cur, configured, probing, lost, images, network>>

Receive ==
    /\ mpc = "select" /\ r # <<>>
    /\ cur' = Head(r) /\ r' = Tail(r)
    /\ mpc' = IF outcome[cur'] = Failed THEN "select" ELSE IF opt.noNetConfig THEN "boot" ELSE "addr"
    /\ configured' = FALSE
    /\ UNCHANGED <<opt, gpc, outcome, wg, closed, expired, probing, lost, images, ret, network>>

\* Configure: the address.  An IPv6 lease without one is not configured; an
\* address that cannot be added is an error only with IPv4, or if it exists.
ConfigureAddr ==
    /\ mpc = "addr"
    /\ \/ lease.addr /\ addrs' = addrs \cup {cur} /\ mpc' = IF cur[2] = 4 THEN "routes" ELSE "dns"
       \/ mpc' = "boot" /\ UNCHANGED addrs
       \/ lease.addr /\ cur[2] = 6 /\ mpc' = "dns" /\ UNCHANGED addrs
    /\ UNCHANGED <<opt, goroutines, cur, configured, probing, lost, images, ret, route, dns>>

\* Does a lease come with a default route?  Classless routes have priority over the
\* router, also if there is no default route among them (RFC 3442).
GivesDefault(o) == o.classless = "default" \/ (o.classless = "none" /\ o.router)

\* Mutant: a default route that exists is kept.
ConfigureRoutes_Add ==
    /\ mpc = "routes"
    /\ \/ mpc' = "dns" /\ route' = IF GivesDefault(lease) /\ route = Nobody THEN cur ELSE route
       \/ mpc' = "boot" /\ UNCHANGED route
    /\ UNCHANGED <<opt, goroutines, cur, configured, probing, lost, images, ret, addrs, dns>>

\* Configure: the classless routes one after the other, or else the router.  The first
\* that cannot be set ends it, which may be one that follows the default route.
ConfigureRoutes ==
    /\ mpc = "routes"
    /\ \/ mpc' = "dns" /\ route' = IF GivesDefault(lease) THEN cur ELSE route
       \/ /\ lease.classless # "none" \/ lease.router
          /\ mpc' = "boot"
          /\ UNCHANGED route \/ (lease.classless = "default" /\ route' = cur)
    /\ UNCHANGED <<opt, goroutines, cur, configured, probing, lost, images, ret, addrs, dns>>

\* Configure: resolv.conf is written anew, for IPv6 only if there are servers.  A write
\* that fails leaves the old file, or an empty one.
ConfigureDNS ==
    /\ mpc = "dns" /\ mpc' = "boot"
    /\ \/ dns' = (IF cur[2] = 4 \/ lease.dns THEN cur ELSE dns) /\ configured' = TRUE
       \/ (cur[2] = 4 \/ lease.dns) /\ dns' \in {dns, Nobody} /\ UNCHANGED configured
    /\ UNCHANGED <<opt, goroutines, cur, probing, lost, images, ret, addrs, route>>

\* Packet4.Boot and Packet6.Boot find a URL.
HasURL(o) ==
    IF o.proto = 4 THEN o.file = "url" \/ (o.file = "path" /\ o.server) ELSE o.file # "none"

\* Mutant: an error of BootImages is the end.
BootImages_GivesUp ==
    /\ mpc = "boot"
    /\ \/ HasURL(lease) /\ mpc' = "fetch" /\ UNCHANGED ret
       \/ ~HasURL(lease) /\ mpc' = "return" /\ ret' = "nothing"
    /\ UNCHANGED <<opt, goroutines, cur, configured, probing, lost, images, network>>

\* BootImages: without a URL NetbootImages goes on with the next result.
BootImages ==
    /\ mpc = "boot"
    /\ mpc' = IF HasURL(lease) THEN "fetch" ELSE "select"
    /\ UNCHANGED <<opt, goroutines, cur, configured, probing, lost, images, ret, network>>

\* Mutant: "default" is looked for first.
probeFiles_DefaultFirst(v4) ==
    <<<<"default", 0>>, <<"mac", 0>>>> \o (IF v4 THEN [n \in 1..IPLen |-> <<"ip", IPLen + 1 - n>>] ELSE <<>>)

\* The MAC address, the IPv4 address and what is left of it, chopping one digit
\* off at a time, and "default".
probeFiles(v4) ==
    <<<<"mac", 0>>>> \o (IF v4 THEN [n \in 1..IPLen |-> <<"ip", IPLen + 1 - n>>] ELSE <<>>)
      \o <<<<"default", 0>>>>

\* getBootImages: an iPXE script or a FIT image, if it can be fetched, and then the
\* PXE configurations.
getBootImages ==
    /\ mpc = "fetch" /\ mpc' = "probe"
    /\ \/ lease.content \in {"ipxe", "fit"} /\ images' = <<<<lease.content, 0>>>>
       \/ images' = <<>>
    /\ probing' = probeFiles(cur[2] = 4)
    /\ UNCHANGED <<opt, goroutines, cur, configured, lost, ret, network>>

\* pxe.ParseConfig: the next file is not there, or refers to what is not there, or the
\* attempt to fetch it fails.  All this is an error about a URL, and the search goes on.
ProbeNext ==
    /\ mpc = "probe" /\ probing # <<>>
    /\ probing' = Tail(probing)
    /\ lost' = IF lease.configs[Head(probing)] \in {"good", "broken"}
               THEN lost \cup {Head(probing)} ELSE lost
    /\ UNCHANGED <<opt, goroutines, mpc, cur, configured, images, ret, network>>

\* pxe.ParseConfig: the next file is parsed, or it cannot be read to the end or parsed, or
\* there is no more.
ParseConfig ==
    /\ mpc = "probe"
    /\ probing # <<>> => lease.configs[Head(probing)] \in {"good", "broken"}
    /\ \/ /\ probing # <<>> /\ lease.configs[Head(probing)] = "good"
          /\ images' = Append(images, Head(probing))
       \/ UNCHANGED images
    /\ mpc' = "return" /\ ret' = "images"
    /\ UNCHANGED <<opt, goroutines, cur, configured, probing, lost, network>>

\* The steps of NetbootImages that end by themselves, and those that wait for a server.
Local ==
    \/ TimedOut \/ AllDone \/ Receive \/ ConfigureAddr \/ ConfigureRoutes \/ ConfigureDNS
    \/ BootImages
Remote == getBootImages \/ ProbeNext \/ ParseConfig

NetbootImages == Local \/ Remote

Next == (\E g \in Links \cup Workers : Goroutine(g)) \/ Close \/ Deadline \/ NetbootImages

Spec == Init /\ [][Next]_vars

\* Goroutines run, link set-up and DHCP requests end by their own time-outs, and
\* the deadline of the context passes.  Nothing is assumed of the servers: they are
\* asked with context.Background() and an HTTP client without a time-out.
FairSpec ==
    /\ Spec
    /\ \A g \in Ifs \X {0, 4, 6} : WF_vars(Goroutine(g))
    /\ WF_vars(Close) /\ WF_vars(Deadline) /\ WF_vars(Local)

-----------------------------------------------------------------------------
(***************************************************************************)
(* Properties.                                                             *)
(***************************************************************************)

Live(g) == gpc[g] \notin {"none", "done"}

\* The WaitGroup counts the goroutines, so that the channel is not closed before
\* the last result is in it: a later send would panic.  And nobody who sends waits,
\* also after NetbootImages has returned (SendRequests).
SendsSafely ==
    /\ wg = Cardinality({g \in DOMAIN gpc : Live(g)})
    /\ \A g \in Workers : gpc[g] = "send" => ~closed /\ Len(r) < Cap

\* "nothing bootable found, all interfaces are configured or timed out": then every
\* request has ended, and no lease has a URL, whichever came first.
NothingMeansNothing ==
    ret = "nothing" =>
        \A g \in Workers : ~Live(g) /\ (outcome[g] # Failed => ~HasURL(outcome[g]))

\* While images are fetched from the server of a lease that Configure has accepted, the
\* name servers are those of this lease, and so are the address and the default route
\* if it is an IPv4 lease that has them, whatever was configured before.  (Classless
\* routes without a default leave the default route of an earlier lease.)
FetchesWithItsLease ==
    mpc \in {"fetch", "probe"} /\ configured =>
        /\ cur[2] = 4 \/ lease.dns => dns = cur
        /\ cur[2] = 4 => cur \in addrs /\ (GivesDefault(lease) => route = cur)

\* probeFiles, "IP address in upper case hex, chopping one letter off at a time":
\* the configuration that is used is the most specific one that the server has and
\* that could be fetched.
MoreSpecific(m, n) ==
    \/ m[1] = "mac" /\ n[1] # "mac"
    \/ m[1] = "ip" /\ n[1] = "default"
    \/ m[1] = "ip" /\ n[1] = "ip" /\ m[2] > n[2]
MostSpecificConfig ==
    \A k \in DOMAIN images : images[k] \in ProbeNames =>
        \A m \in ProbeNames :
            MoreSpecific(m, images[k]) /\ (m[1] = "ip" => cur[2] = 4) =>
                lease.configs[m] = "missing" \/ m \in lost

\* "The *Result channel will be closed when all requests have completed", and
\* NetbootImages returns, unless a server that it has asked for a file never answers.
AllEnds == <>closed /\ (<>(mpc = "return") \/ <>[](mpc \in {"fetch", "probe"}))

=============================================================================
