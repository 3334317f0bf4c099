---------------------------- MODULE MCPacketTest ----------------------------
(***************************************************************************)
(* Bounded instance of PacketTest: lists of at most two rules that differ  *)
(* in every field, searched for one packet and for groups of packets.      *)
(***************************************************************************)
EXTENDS PacketTest, FiniteSets

CONSTANTS z1, z2, a1, a2, s1, s2, web, dns, any

MCDefaultServices == [a \in {web, dns} |-> IF a = web THEN {s1} ELSE {s2}]

AnyPredicate ==
    [src_zones |-> Zone, src_addresses |-> Address, negate_src |-> FALSE,
     dst_zones |-> Zone, dst_addresses |-> Address, negate_dst |-> FALSE,
     services |-> Service, app_services |-> FALSE, applications |-> {any}, use_app_svc |-> FALSE,
     users |-> User]

AppDefault(apps) ==
    {[AnyPredicate EXCEPT !.applications = apps, !.services = ServicesOf(apps),
                          !.use_app_svc = TRUE, !.app_services = loaded] : loaded \in BOOLEAN}

MCPredicates ==
    {AnyPredicate,
     [AnyPredicate EXCEPT !.src_addresses = {a1}],
     [AnyPredicate EXCEPT !.src_addresses = {a1}, !.negate_src = TRUE],
     [AnyPredicate EXCEPT !.src_addresses = {a1}, !.dst_addresses = {a2}, !.negate_dst = TRUE],
     [AnyPredicate EXCEPT !.negate_dst = TRUE],
     [AnyPredicate EXCEPT !.src_zones = {z1}],
     [AnyPredicate EXCEPT !.dst_zones = {z2}],
     [AnyPredicate EXCEPT !.services = {s1}],
     [AnyPredicate EXCEPT !.applications = {web}],
     [AnyPredicate EXCEPT !.applications = {web}, !.services = {s2}]}
        \cup AppDefault({web}) \cup AppDefault({web, dns}) \cup AppDefault({any})

MCRules == [action : RuleAction, predicate : MCPredicates]
MCAcls == UNION {[1 .. n -> MCRules] : n \in 0 .. 2}

MCTests ==
    [src_zone : {z1, NoZone}, src_addresses : {{a1}, {a1, a2}},
     dst_zone : {z1, NoZone}, dst_addresses : {{a1}},
     services : {{s1}, {s1, s2}}, applications : {{}, {web}}, users : {{}}]
=============================================================================
