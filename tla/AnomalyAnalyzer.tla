-------------------------- MODULE AnomalyAnalyzer --------------------------
(***************************************************************************)
(* Analyzer::check_anomaly: one pass over the rules of an access control   *)
(* list that keeps the packets accepted so far (A), denied so far (D) and  *)
(* not yet decided (R), and classifies every rule against them.            *)
(*                                                                         *)
(* One step is one iteration of the loop.  The interrupt callback is read  *)
(* once per iteration, before anything else; Ctrl+C may be pressed at any  *)
(* moment of the pass.                                                     *)
(***************************************************************************)
EXTENDS PolicyModel

CONSTANT Acls       \* the access control lists the analysis may be given

ASSUME AclsAssumption ==
    /\ Acls \subseteq Seq(Rule)
    /\ \A rules \in Acls : UniqueIds(rules)

VARIABLES
    acl,                \* Analyzer::_acl, fixed for the pass
    index,              \* the number of iterations completed
    cache,              \* Bddcache: rule id -> diagram of its predicate
    A, D, R,            \* State: accepted, denied, remaining packets
    anomalies,          \* RuleAnomalies, at most one record per rule
    missing_deny_all,   \* RuleAnomalies::missing_deny_all
    status,             \* how far check_anomaly is
    interrupted         \* the flag the SIGINT handler sets

vars == <<acl, index, cache, A, D, R, anomalies, missing_deny_all, status, interrupted>>

AnomalyType == {"Shadowing", "Redundancy", "Correlation", "Generalization",
                "RedundancyOrCorrelation"}
AnomalyScope == {"FullyMaskedRule", "PartiallyMaskedRule"}

\* `rules' is the list of rules the anomaly names, `correlated' the second
\* list of RuleAnomalyRedundantOrCorrelated (empty for the other classes).
Anomaly == [rule : Nat, type : AnomalyType, scope : AnomalyScope,
            rules : SUBSET Nat, correlated : SUBSET Nat]

TypeOK ==
    /\ acl \in Acls
    /\ index \in 0 .. Len(acl)
    /\ DOMAIN cache = {acl[k].id : k \in 1 .. index}
    /\ \A id \in DOMAIN cache : cache[id] \in Bddnode
    /\ A \in Bddnode /\ D \in Bddnode /\ R \in Bddnode
    /\ anomalies \subseteq Anomaly
    /\ \A a \in anomalies :
          a.rule \in 1 .. index /\ a.rules \cup a.correlated \subseteq 1 .. (a.rule - 1)
    /\ missing_deny_all \in BOOLEAN
    /\ status \in {"running", "done", "interrupted"}
    /\ interrupted \in BOOLEAN

\* The initial state accepts any packet: _I and _R are bddtrue, a default
\* constructed bdd is bddfalse.
Init ==
    /\ acl \in Acls
    /\ index = 0
    /\ cache = [id \in {} |-> {}]
    /\ A = {} /\ D = {} /\ R = Packet
    /\ anomalies = {}
    /\ missing_deny_all = FALSE
    /\ status = "running"
    /\ interrupted = FALSE

(***************************************************************************)
(* Definitions whose name starts with Bug are not part of the model: each  *)
(* is a variant of the definition that follows it, with a mistake a change *)
(* of the code could make, kept to show that the properties would notice.  *)
(***************************************************************************)

\* The diagrams known once rule k has entered the cache.
Diagrams(k) ==
    [id \in DOMAIN cache \cup {acl[k].id} |-> IF id = acl[k].id THEN acl[k].pred ELSE cache[id]]

(***************************************************************************)
(* The rules preceding rule k with the given action whose cached diagram   *)
(* is inside, or meets, the one of rule k (filter_before).                 *)
(***************************************************************************)
FindOtherIsSubset(k, action, bdds) ==
    {j \in 1 .. (k - 1) :
        acl[j].action = action /\ IsSubset(bdds[acl[j].id], bdds[acl[k].id])}

BugFindOverlapingItself(k, action, bdds) ==
    {j \in 1 .. k : acl[j].action = action /\ Overlaps(bdds[acl[k].id], bdds[acl[j].id])}

BugFindOverlapingOnlyLarger(k, action, bdds) ==
    {j \in 1 .. (k - 1) :
        acl[j].action = action /\ IsSubset(bdds[acl[k].id], bdds[acl[j].id])}

FindOverlaping(k, action, bdds) ==
    {j \in 1 .. (k - 1) :
        acl[j].action = action /\ Overlaps(bdds[acl[k].id], bdds[acl[j].id])}

BugProcessedSwapped(action) == IF action = "ALLOW" THEN D ELSE A

Processed(action) == IF action = "ALLOW" THEN A ELSE D

Report(k, type, scope, rules, correlated) ==
    {[rule |-> k, type |-> type, scope |-> scope, rules |-> rules, correlated |-> correlated]}

FullyMasked(k, bdds) ==
    LET same == acl[k].action
        other == Opposite(same)
        bdd == bdds[acl[k].id]
    IN  IF IsSubset(bdd, Processed(other))
        THEN Report(k, "Shadowing", "FullyMaskedRule", FindOverlaping(k, other, bdds), {})
        ELSE IF IsDisjoint(bdd, Processed(other))
        THEN Report(k, "Redundancy", "FullyMaskedRule", FindOverlaping(k, same, bdds), {})
        ELSE Report(k, "RedundancyOrCorrelation", "PartiallyMaskedRule",
                    FindOverlaping(k, same, bdds), FindOverlaping(k, other, bdds))

BugPartiallyMaskedNoCorrelation(k, bdds) ==
    LET generalized == FindOtherIsSubset(k, Opposite(acl[k].action), bdds)
    IN  IF generalized = {} THEN {}
        ELSE Report(k, "Generalization", "PartiallyMaskedRule", generalized, {})

\* The searches are made in this order and the first that finds a rule wins.
PartiallyMasked(k, bdds) ==
    LET same == acl[k].action
        other == Opposite(same)
        bdd == bdds[acl[k].id]
        generalized == FindOtherIsSubset(k, other, bdds)
        redundant == IF Overlaps(bdd, Processed(same))
                     THEN FindOtherIsSubset(k, same, bdds) ELSE {}
        correlated == IF Overlaps(bdd, Processed(other))
                      THEN FindOverlaping(k, other, bdds) ELSE {}
    IN  IF generalized # {}
        THEN Report(k, "Generalization", "PartiallyMaskedRule", generalized, {})
        ELSE IF redundant # {}
        THEN Report(k, "Redundancy", "PartiallyMaskedRule", redundant, {})
        ELSE IF correlated # {}
        THEN Report(k, "Correlation", "PartiallyMaskedRule", correlated, {})
        ELSE {}

BugCheckRuleOnlyWhenExhausted(k, bdds) ==
    LET bdd == bdds[acl[k].id]
    IN  IF IsSubset(bdd, R) THEN {}
        ELSE IF IsNone(R) THEN FullyMasked(k, bdds) ELSE PartiallyMasked(k, bdds)

BugCheckRuleNeverPartial(k, bdds) ==
    IF IsSubset(bdds[acl[k].id], R) THEN {} ELSE FullyMasked(k, bdds)

BugCheckRuleSkipsWhenExhausted(k, bdds) ==
    LET bdd == bdds[acl[k].id]
    IN  IF IsSubset(bdd, R) \/ IsNone(R) THEN {}
        ELSE IF IsDisjoint(bdd, R) THEN FullyMasked(k, bdds) ELSE PartiallyMasked(k, bdds)

\* The anomaly of rule k, as a set of at most one record.
CheckRule(k, bdds) ==
    LET bdd == bdds[acl[k].id]
    IN  IF IsSubset(bdd, R) THEN {}
        ELSE IF IsNone(R) \/ IsDisjoint(bdd, R) THEN FullyMasked(k, bdds)
        ELSE PartiallyMasked(k, bdds)

BugUpdateIgnoresRemaining(action, bdd) ==
    /\ A' = IF action = "ALLOW" THEN A \cup bdd ELSE A
    /\ D' = IF action = "DENY" THEN D \cup bdd ELSE D
    /\ R' = Packet \ (A' \cup D')

BugUpdateRemainingTooEarly(action, bdd) ==
    /\ R' = Packet \ (A \cup D)
    /\ A' = IF action = "ALLOW" THEN A \cup (R \cap bdd) ELSE A
    /\ D' = IF action = "DENY" THEN D \cup (R \cap bdd) ELSE D

\* State::update.
Update(action, bdd) ==
    /\ A' = IF action = "ALLOW" THEN A \cup (R \cap bdd) ELSE A
    /\ D' = IF action = "DENY" THEN D \cup (R \cap bdd) ELSE D
    /\ R' = Packet \ (A' \cup D')

\* The last rule is not checked when it denies everything.
IsFinalDenyAll(k) == IsDenyAll(acl[k]) /\ k = Len(acl)

BugStepRuleNoPoll ==
    LET k == index + 1
        bdds == Diagrams(k)
    IN  /\ status = "running" /\ index < Len(acl)
        /\ cache' = bdds
        /\ anomalies' = anomalies \cup (IF IsFinalDenyAll(k) THEN {} ELSE CheckRule(k, bdds))
        /\ Update(acl[k].action, bdds[acl[k].id])
        /\ index' = k
        /\ UNCHANGED <<acl, missing_deny_all, status, interrupted>>

\* One iteration of the loop, not interrupted.
StepRule ==
    LET k == index + 1
        bdds == Diagrams(k)
    IN  /\ status = "running" /\ index < Len(acl)
        /\ ~interrupted
        /\ cache' = bdds
        /\ anomalies' = anomalies \cup (IF IsFinalDenyAll(k) THEN {} ELSE CheckRule(k, bdds))
        /\ Update(acl[k].action, bdds[acl[k].id])
        /\ index' = k
        /\ UNCHANGED <<acl, missing_deny_all, status, interrupted>>

\* interrupt_error unwinds check_anomaly: its local result is lost.
Abort ==
    /\ status = "running" /\ index < Len(acl)
    /\ interrupted
    /\ anomalies' = {}
    /\ status' = "interrupted"
    /\ UNCHANGED <<acl, index, cache, A, D, R, missing_deny_all, interrupted>>

\* The end of the loop: a Ctrl+C that arrives after the last read of the
\* flag is not seen.
Finish ==
    /\ status = "running" /\ index = Len(acl)
    /\ missing_deny_all' = ~IsNone(R)
    /\ status' = "done"
    /\ UNCHANGED <<acl, index, cache, A, D, R, anomalies, interrupted>>

\* The user presses Ctrl+C.
CtrlC ==
    /\ status = "running"
    /\ ~interrupted
    /\ interrupted' = TRUE
    /\ UNCHANGED <<acl, index, cache, A, D, R, anomalies, missing_deny_all, status>>

Next == StepRule \/ Abort \/ Finish \/ CtrlC

Spec == Init /\ [][Next]_vars
=============================================================================
