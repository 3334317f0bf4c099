----------------------------- MODULE MCSymmetry -----------------------------
(***************************************************************************)
(* Bounded instance of SymmetryAnalyzer: lists of at most three rules over *)
(* two zones and two addresses.  With three rules the diagram cached while *)
(* the first rule is compared is used for the second.                      *)
(***************************************************************************)
EXTENDS SymmetryAnalyzer

CONSTANTS z1, z2, a1, a2, s1, s2, web, any

MCDefaultServices == [a \in {web} |-> {s1}]

Nonempty(S) == SUBSET S \ {{}}

Pred(sz, sa, ns, dz, da, nd) ==
    [src_zones |-> sz, src_addresses |-> sa, negate_src |-> ns,
     dst_zones |-> dz, dst_addresses |-> da, negate_dst |-> nd,
     services |-> {s1}, app_services |-> FALSE, applications |-> {any}, use_app_svc |-> FALSE,
     users |-> User]

\* What the first rule may be: from a1 in z1 to z2.
FirstPredicates ==
    {Pred({z1}, {a1}, ns, {z2}, da, nd) :
        ns \in BOOLEAN, da \in Nonempty(Address), nd \in BOOLEAN}

\* The second rule takes every shape, most of them the other way.
SecondPredicates ==
    {Pred({z2}, sa, ns, dz, da, nd) :
        sa \in Nonempty(Address), ns \in BOOLEAN, dz \in {{z1}, Zone},
        da \in Nonempty(Address), nd \in BOOLEAN}

\* The third rule is about a1 or a2 again, on all services or on the default
\* ones of an application, as loaded or copied.
Plain == {Pred({z1}, {a1}, FALSE, {z2}, {a2}, FALSE), Pred({z2}, {a2}, TRUE, {z1}, {a1}, TRUE)}
AppDefault(pred, loaded) ==
    [pred EXCEPT !.applications = {web}, !.use_app_svc = TRUE, !.app_services = loaded]
ThirdPredicates == Plain \cup {AppDefault(pred, loaded) : pred \in Plain, loaded \in BOOLEAN}

RuleAt(k, action, pred) == [id |-> 10 - k, action |-> action, predicate |-> pred]

\* The ids are unrelated to the positions.  The first and the second rule
\* may be for an application too.
Rules(p1, p2, p3, second, apps) ==
    <<RuleAt(1, "ALLOW", IF apps THEN AppDefault(p1, TRUE) ELSE p1),
      RuleAt(2, second, IF apps THEN AppDefault(p2, TRUE) ELSE p2),
      RuleAt(3, "ALLOW", p3)>>

MCAcls ==
    {SubSeq(Rules(p1, p2, p3, second, apps), 1, n) :
        p1 \in FirstPredicates, p2 \in SecondPredicates, p3 \in ThirdPredicates,
        second \in RuleAction, apps \in BOOLEAN, n \in 0 .. 3}
=============================================================================
