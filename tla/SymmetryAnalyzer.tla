-------------------------- MODULE SymmetryAnalyzer --------------------------
(***************************************************************************)
(* Analyzer::check_symmetry: every rule is compared with the symmetrical   *)
(* predicate of every later rule.  One step is one iteration of the inner  *)
(* loop; the diagrams of the symmetrical predicates are kept in a cache,   *)
(* and the interrupt callback is read in each of these iterations.         *)
(***************************************************************************)
EXTENDS Predicates

CONSTANT Acls       \* the access control lists the analysis may be given

FirewallRule == [id : Nat, action : RuleAction, predicate : Predicate]

ASSUME SymmetryAclsAssumption ==
    /\ Acls \subseteq Seq(FirewallRule)
    /\ \A rules \in Acls :
          /\ UniqueIds(rules)
          /\ \A k \in DOMAIN rules : WellFormed(rules[k].predicate)

VARIABLES
    acl,                \* Analyzer::_acl
    outer, inner,       \* the positions of the two iterators
    cache,              \* Bddcache: rule id -> diagram of its symmetrical predicate
    symmetrical_rules,  \* the pairs found, by position
    status,             \* how far check_symmetry is
    interrupted         \* the flag the SIGINT handler sets

vars == <<acl, outer, inner, cache, symmetrical_rules, status, interrupted>>

TypeOK ==
    /\ acl \in Seq(FirewallRule)
    /\ outer \in Nat /\ inner \in Nat
    /\ 1 <= outer /\ outer < inner /\ (acl = <<>> \/ outer <= Len(acl))
    /\ inner <= Len(acl) + 1 \/ inner = outer + 1
    /\ DOMAIN cache \subseteq {acl[k].id : k \in DOMAIN acl}
    /\ \A id \in DOMAIN cache : cache[id] \in Bddnode
    /\ symmetrical_rules \subseteq (DOMAIN acl) \X (DOMAIN acl)
    /\ status \in {"running", "done", "interrupted"}
    /\ interrupted \in BOOLEAN

Init ==
    /\ acl \in Acls
    /\ outer = 1 /\ inner = 2
    /\ cache = [id \in {} |-> {}]
    /\ symmetrical_rules = {}
    /\ status = "running"
    /\ interrupted = FALSE

\* The cache with the diagram of `other' in it.
CacheAfter(other) ==
    IF other.id \in DOMAIN cache THEN cache
    ELSE [id \in DOMAIN cache \cup {other.id} |->
             IF id \in DOMAIN cache THEN cache[id] ELSE MakeBdd(Symmetrical(other.predicate))]

\* "two rules are symmetrical if the action and the predicates are identical"
PairFound(rule, other, bdds) ==
    rule.action = other.action /\ MakeBdd(rule.predicate) = bdds[other.id]

\* Variants with a mistake, as in AnomalyAnalyzer.
BugComparePairNoPoll ==
    /\ status = "running" /\ inner <= Len(acl)
    /\ cache' = CacheAfter(acl[inner])
    /\ symmetrical_rules' = symmetrical_rules \cup
          (IF PairFound(acl[outer], acl[inner], cache') THEN {<<outer, inner>>} ELSE {})
    /\ inner' = inner + 1
    /\ UNCHANGED <<acl, outer, status, interrupted>>

ComparePair ==
    /\ status = "running" /\ inner <= Len(acl)
    /\ ~interrupted
    /\ cache' = CacheAfter(acl[inner])
    /\ symmetrical_rules' = symmetrical_rules \cup
          (IF PairFound(acl[outer], acl[inner], cache') THEN {<<outer, inner>>} ELSE {})
    /\ inner' = inner + 1
    /\ UNCHANGED <<acl, outer, status, interrupted>>

\* interrupt_error unwinds check_symmetry: its result is lost.
Abort ==
    /\ status = "running" /\ inner <= Len(acl)
    /\ interrupted
    /\ cache' = CacheAfter(acl[inner])
    /\ symmetrical_rules' = {}
    /\ status' = "interrupted"
    /\ UNCHANGED <<acl, outer, inner, interrupted>>

BugNextRuleComparesItself ==
    /\ status = "running" /\ inner > Len(acl) /\ outer < Len(acl)
    /\ outer' = outer + 1
    /\ inner' = outer + 1
    /\ UNCHANGED <<acl, cache, symmetrical_rules, status, interrupted>>

BugNextRuleSkipsOne ==
    /\ status = "running" /\ inner > Len(acl) /\ outer < Len(acl)
    /\ outer' = outer + 1
    /\ inner' = outer + 3
    /\ UNCHANGED <<acl, cache, symmetrical_rules, status, interrupted>>

\* The outer loop: the inner iterator starts behind the rule.
NextRule ==
    /\ status = "running" /\ inner > Len(acl) /\ outer < Len(acl)
    /\ outer' = outer + 1
    /\ inner' = outer + 2
    /\ UNCHANGED <<acl, cache, symmetrical_rules, status, interrupted>>

BugFinishOnlyIfFound ==
    /\ status = "running" /\ inner > Len(acl) /\ outer >= Len(acl)
    /\ symmetrical_rules # {}
    /\ status' = "done"
    /\ UNCHANGED <<acl, outer, inner, cache, symmetrical_rules, interrupted>>

Finish ==
    /\ status = "running" /\ inner > Len(acl) /\ outer >= Len(acl)
    /\ status' = "done"
    /\ UNCHANGED <<acl, outer, inner, cache, symmetrical_rules, interrupted>>

CtrlC ==
    /\ status = "running"
    /\ ~interrupted
    /\ interrupted' = TRUE
    /\ UNCHANGED <<acl, outer, inner, cache, symmetrical_rules, status>>

Next == ComparePair \/ Abort \/ NextRule \/ Finish \/ CtrlC

Spec == Init /\ [][Next]_vars

\* As in AnomalyAnalyzer: one thread, and nobody has to press Ctrl+C.
FairSpec == Spec /\ WF_vars(ComparePair \/ Abort \/ NextRule \/ Finish)

-----------------------------------------------------------------------------
FlagsAgree(k) == acl[k].predicate.negate_src = acl[k].predicate.negate_dst

\* Two rules match the two directions of the same connections, and treat
\* them alike.
BothWays(j, k) ==
    /\ acl[j].action = acl[k].action
    /\ {Reverse(p) : p \in MakeBdd(acl[j].predicate)} = MakeBdd(acl[k].predicate)

(***************************************************************************)
(* The pairs reported are exactly the pairs of rules that match the two    *)
(* directions of the same connections: none is left out by the two loops,  *)
(* although each pair is compared in one direction only, with a cached     *)
(* diagram, and whatever the services of the other rule are ("app-default" *)
(* included).  Only pairs whose second rule negates both of its address    *)
(* groups or none are promised.                                            *)
(***************************************************************************)
PairsExact ==
    status = "done" =>
        \A j, k \in DOMAIN acl : j < k /\ FlagsAgree(k) =>
            (<<j, k>> \in symmetrical_rules <=> BothWays(j, k))

(***************************************************************************)
(* A cached diagram is the one of the rule that has the id, and matches    *)
(* what the rule matches with every packet turned round, when the rule     *)
(* negates both of its address groups or none.                             *)
(***************************************************************************)
CacheIsSymmetrical ==
    \A k \in DOMAIN acl : acl[k].id \in DOMAIN cache /\ FlagsAgree(k) =>
        cache[acl[k].id] = {Reverse(p) : p \in MakeBdd(acl[k].predicate)}

(***************************************************************************)
(* The analysis always ends, and a Ctrl+C pressed while a pair is still to *)
(* be compared ends it without a result.                                   *)
(***************************************************************************)
SymmetryEnds == <>(status # "running")
SymmetryInterruptHonoured ==
    (interrupted /\ status = "running" /\ inner <= Len(acl)) ~> (status = "interrupted")

\* README.md:206: symmetrical rules are rules for the same traffic in both
\* directions, with no exception for negated addresses.
SymmetryExact ==
    status = "done" =>
        \A j, k \in DOMAIN acl :
            j < k => (<<j, k>> \in symmetrical_rules <=> BothWays(j, k))
=============================================================================
