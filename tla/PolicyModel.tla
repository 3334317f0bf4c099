---------------------------- MODULE PolicyModel ----------------------------
(***************************************************************************)
(* The vocabulary every other module is written in: packets, model nodes,  *)
(* rules and what a list of rules decides.                                 *)
(*                                                                         *)
(* The program represents the meaning of every node (a zone, an address, a *)
(* whole predicate) by a binary decision diagram over the bits of a packet *)
(* header.  Two diagrams are equal exactly when they accept the same       *)
(* packets, so a diagram is here the set of packets it accepts: bddtrue is *)
(* Packet, bddfalse is {}, & | - and bdd_not are the set operations.       *)
(***************************************************************************)
EXTENDS Naturals, Sequences

CONSTANT Packet     \* the assignments of the header variables of the domains

Bddnode == SUBSET Packet
RuleAction == {"ALLOW", "DENY"}

\* operator!(RuleAction)
Opposite(action) == IF action = "ALLOW" THEN "DENY" ELSE "ALLOW"

(***************************************************************************)
(* Mnode: the comparisons of model nodes.                                  *)
(***************************************************************************)
IsAny(a) == a = Packet
IsNone(a) == a = {}

\* is_subset builds the implication diagram and compares it with bddtrue.
IsSubset(a, b) == a = b \/ (Packet \ a) \cup b = Packet

IsDisjoint(a, b) == a \cap b = {}
Overlaps(a, b) == ~IsDisjoint(a, b)
NegateIf(a, condition) == IF condition THEN Packet \ a ELSE a

MnodeRelationship == {"equal", "subset", "superset", "disjoint", "overlap"}

\* The answers are tried in this order: an empty node is a subset of every
\* other node before it is disjoint from it.
Compare(a, b) ==
    IF a = b THEN "equal"
    ELSE IF IsSubset(a, b) THEN "subset"
    ELSE IF IsSubset(b, a) THEN "superset"
    ELSE IF IsDisjoint(a, b) THEN "disjoint" ELSE "overlap"

(***************************************************************************)
(* Rule: what the analyses read of a rule.  The position of a rule in a    *)
(* RuleList stands for the Rule pointer, so a RuleList selected from       *)
(* another one is a set of its positions, in policy order by construction. *)
(***************************************************************************)
Rule == [id : Nat, action : RuleAction, pred : Bddnode]

IsDenyAll(rule) == rule.action = "DENY" /\ IsAny(rule.pred)

\* No two rules of a firewall have the same id: FirewallFactory::add_rule
\* rejects a duplicate and only the implicit deny-all rule has id 0.
UniqueIds(rules) ==
    \A j, k \in DOMAIN rules : rules[j].id = rules[k].id => j = k

-----------------------------------------------------------------------------
(***************************************************************************)
(* Reference semantics of a policy, independent of the analyses: a packet  *)
(* is decided by the first rule, in policy order, that matches it.  `on'   *)
(* is the set of positions that take part: 1..n for a prefix, the others   *)
(* when some rules are removed or disabled.                                *)
(***************************************************************************)
FirstMatch(rules, on, k, p) ==
    /\ k \in on
    /\ p \in rules[k].pred
    /\ \A j \in on : j < k => p \notin rules[j].pred

\* The packets rule k decides.
Effective(rules, on, k) == {p \in Packet : FirstMatch(rules, on, k, p)}

\* The packets decided by a rule that has the given action.
Decided(rules, on, action) ==
    {p \in Packet : \E k \in on : rules[k].action = action /\ FirstMatch(rules, on, k, p)}

\* The packets no rule matches.
Unmatched(rules, on) == {p \in Packet : \A k \in on : p \notin rules[k].pred}

SameDecisions(rules, on1, on2) ==
    \A action \in RuleAction : Decided(rules, on1, action) = Decided(rules, on2, action)
=============================================================================
