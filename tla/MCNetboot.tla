----------------------------- MODULE MCNetboot ------------------------------
(* Instances of Netboot for TLC: two interfaces, addresses of two digits. *)
EXTENDS Netboot, TLC

CONSTANTS eth0, eth1
TwoIfs == {eth0, eth1}
CommandLine(ifs, protos, noNetConfig) == [ifs |-> ifs, protos |-> protos, noNetConfig |-> noNetConfig]
MCCommandLines ==
    {CommandLine({eth0}, {4, 6}, FALSE), CommandLine({eth0}, {4, 6}, TRUE),
     CommandLine(TwoIfs, {4}, FALSE), CommandLine(TwoIfs, {6}, FALSE), CommandLine({}, {4}, FALSE)}

Files(found) == [n \in ProbeNames |-> IF n \in DOMAIN found THEN found[n] ELSE "missing"]
Mac == <<"mac", 0>>
Default == <<"default", 0>>
Ip(n) == <<"ip", n>>

Offer4(classless, router, file, server, content, found) ==
    [proto |-> 4, addr |-> TRUE, classless |-> classless, router |-> router, dns |-> router,
     file |-> file, server |-> server, content |-> content, configs |-> Files(found)]
Offer6(addr, file, content, found) ==
    [proto |-> 6, addr |-> addr, classless |-> "none", router |-> FALSE, dns |-> addr,
     file |-> file, server |-> TRUE, content |-> content, configs |-> Files(found)]
None == [n \in {} |-> "missing"]

MCOffers ==
    {Offer4("none", TRUE, "none", TRUE, "missing", None),
     Offer4("default", FALSE, "path", FALSE, "other", None),
     Offer4("other", TRUE, "path", TRUE, "other", Default :> "good"),
     Offer4("none", TRUE, "path", TRUE, "fit", (Ip(1) :> "good") @@ (Default :> "good")),
     Offer6(FALSE, "none", "missing", None),
     Offer6(TRUE, "none", "missing", None),
     Offer6(TRUE, "url", "ipxe", (Mac :> "broken") @@ (Default :> "good"))}
=============================================================================
