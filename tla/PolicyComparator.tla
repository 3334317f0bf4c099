-------------------------- MODULE PolicyComparator --------------------------
(***************************************************************************)
(* PolicyListComparator::compare: the packets two rule lists accept and    *)
(* deny are computed list after list, one iteration of compute_bdd at a    *)
(* time, and then compared.                                                *)
(***************************************************************************)
EXTENDS PolicyModel

CONSTANT RuleLists      \* the lists of rules that may be compared

RuleStatus == {"ENABLED", "DISABLED"}
ListedRule == [status : RuleStatus, action : RuleAction, pred : Bddnode]

ASSUME RuleListsAssumption == RuleLists \subseteq Seq(ListedRule)

VARIABLES
    lists,              \* the two lists given to compare
    current,            \* the list compute_bdd is working on, 3 after both
    index,              \* the iterations done on that list
    allowed, denied,    \* the local diagrams of compute_bdd
    bdds,               \* the tuples compute_bdd has returned
    relations           \* the result, its fields "none" until there is one

vars == <<lists, current, index, allowed, denied, bdds, relations>>

Relations == [allowed : MnodeRelationship, denied : MnodeRelationship]
NoRelations == [allowed |-> "none", denied |-> "none"]
Result == [allowed : Bddnode, denied : Bddnode]

TypeOK ==
    /\ lists \in [1 .. 2 -> RuleLists]
    /\ current \in 1 .. 3
    /\ index \in Nat
    /\ current < 3 => index \in 0 .. Len(lists[current])
    /\ allowed \in Bddnode /\ denied \in Bddnode
    /\ DOMAIN bdds = 1 .. (current - 1)
    /\ \A i \in DOMAIN bdds : bdds[i] \in Result
    /\ relations \in Relations \cup {NoRelations}

\* A default constructed bdd is bddfalse.
Init ==
    /\ lists \in [1 .. 2 -> RuleLists]
    /\ current = 1
    /\ index = 0
    /\ allowed = {} /\ denied = {}
    /\ bdds = [i \in {} |-> {}]
    /\ relations = NoRelations

\* Variants with a mistake, as in AnomalyAnalyzer.
BugComputeStepForgetsDenied(rule) ==
    IF rule.status = "ENABLED" /\ rule.action = "ALLOW"
    THEN allowed' = allowed \cup rule.pred /\ denied' = denied
    ELSE IF rule.status = "ENABLED"
    THEN allowed' = allowed /\ denied' = denied \cup (rule.pred \ allowed)
    ELSE UNCHANGED <<allowed, denied>>

BugComputeStepReadsDisabled(rule) ==
    IF rule.action = "ALLOW"
    THEN allowed' = allowed \cup (rule.pred \ denied) /\ denied' = denied
    ELSE allowed' = allowed /\ denied' = denied \cup (rule.pred \ allowed)

\* The body of the loop: a rule adds to the packets of its action those that
\* are not among the packets of the other action yet.
ComputeStep(rule) ==
    IF rule.status = "ENABLED" /\ rule.action = "ALLOW"
    THEN allowed' = allowed \cup (rule.pred \ denied) /\ denied' = denied
    ELSE IF rule.status = "ENABLED"
    THEN allowed' = allowed /\ denied' = denied \cup (rule.pred \ allowed)
    ELSE UNCHANGED <<allowed, denied>>

StepRule ==
    /\ current < 3 /\ index < Len(lists[current])
    /\ ComputeStep(lists[current][index + 1])
    /\ index' = index + 1
    /\ UNCHANGED <<lists, current, bdds, relations>>

BugReturnKeepsIndex ==
    /\ current < 3 /\ index = Len(lists[current])
    /\ bdds' = [i \in DOMAIN bdds \cup {current} |->
                   IF i = current THEN [allowed |-> allowed, denied |-> denied] ELSE bdds[i]]
    /\ current' = current + 1
    /\ allowed' = {} /\ denied' = {}
    /\ UNCHANGED <<lists, index, relations>>

\* compute_bdd returns; a next call starts with empty diagrams.
Return ==
    /\ current < 3 /\ index = Len(lists[current])
    /\ bdds' = [i \in DOMAIN bdds \cup {current} |->
                   IF i = current THEN [allowed |-> allowed, denied |-> denied] ELSE bdds[i]]
    /\ current' = current + 1
    /\ index' = 0
    /\ allowed' = {} /\ denied' = {}
    /\ UNCHANGED <<lists, relations>>

BugCompareBddsSwapped ==
    /\ current = 3 /\ relations = NoRelations
    /\ relations' = [allowed |-> Compare(bdds[2].allowed, bdds[1].allowed),
                     denied |-> Compare(bdds[2].denied, bdds[1].denied)]
    /\ UNCHANGED <<lists, current, index, allowed, denied, bdds>>

CompareBdds ==
    /\ current = 3 /\ relations = NoRelations
    /\ relations' = [allowed |-> Compare(bdds[1].allowed, bdds[2].allowed),
                     denied |-> Compare(bdds[1].denied, bdds[2].denied)]
    /\ UNCHANGED <<lists, current, index, allowed, denied, bdds>>

Next == StepRule \/ Return \/ CompareBdds

Spec == Init /\ [][Next]_vars

-----------------------------------------------------------------------------
Enabled(rules, n) == {k \in 1 .. n : rules[k].status = "ENABLED"}

DecidedBy(i, action) ==
    Decided(lists[i], Enabled(lists[i], Len(lists[i])), action)

(***************************************************************************)
(* compute_bdd returns the packets that first-match evaluation of the      *)
(* enabled rules accepts and denies, although it keeps no set of remaining *)
(* packets and only subtracts the packets of the other action.             *)
(***************************************************************************)
ComputedIsFirstMatch ==
    \A i \in DOMAIN bdds :
        /\ bdds[i].allowed = DecidedBy(i, "ALLOW")
        /\ bdds[i].denied = DecidedBy(i, "DENY")

(***************************************************************************)
(* "rules are equivalent" is said exactly of two lists that accept the     *)
(* same packets and deny the same packets, however differently they are    *)
(* written: split, merged, reordered.  The commands compare lists of       *)
(* enabled rules only (Firewall::acl); disabled rules would count for      *)
(* nothing.                                                                *)
(***************************************************************************)
EquivalentExact ==
    relations # NoRelations =>
        (relations = [allowed |-> "equal", denied |-> "equal"]) =
            (\A action \in RuleAction : DecidedBy(1, action) = DecidedBy(2, action))

(***************************************************************************)
(* When the lists are not equivalent the relation shown for each kind of   *)
(* traffic says which list has packets the other has not, and "disjoint"   *)
(* and "overlap" are only said of lists that both have some.               *)
(***************************************************************************)
SaysOf(relation, a, b) ==
    /\ a \subseteq b <=> relation \in {"equal", "subset"}
    /\ b \subseteq a <=> relation \in {"equal", "superset"}
    /\ relation \in {"disjoint", "overlap"} =>
          a # {} /\ b # {} /\ (relation = "disjoint" <=> a \cap b = {})

RelationsExact ==
    relations # NoRelations =>
        /\ SaysOf(relations.allowed, DecidedBy(1, "ALLOW"), DecidedBy(2, "ALLOW"))
        /\ SaysOf(relations.denied, DecidedBy(1, "DENY"), DecidedBy(2, "DENY"))
=============================================================================
