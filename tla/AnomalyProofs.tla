--------------------------- MODULE AnomalyProofs ---------------------------
(***************************************************************************)
(* Proofs about AnomalyAnalyzer, for every set of packets and every set of *)
(* access control lists of any length.                                     *)
(*                                                                         *)
(* The argument: extending a prefix of the policy by one rule adds to the  *)
(* decided packets exactly the unmatched packets of that rule (DecidedStep,*)
(* UnmatchedStep), which is what State::update computes; so A, D and R are *)
(* the first-match sets of the prefix.  What check_rule finds out about    *)
(* rule k then only depends on the rules before k and stays true when the  *)
(* pass goes on (PrefixEffective).                                         *)
(***************************************************************************)
EXTENDS AnomalyCorrectness, TLAPS

(***************************************************************************)
(* First-match evaluation, for any set `on' of rules that take part.       *)
(***************************************************************************)
\* The test of the implication diagram decides inclusion.
LEMMA SubsetByImplication ==
    ASSUME NEW a \in SUBSET Packet, NEW b \in SUBSET Packet
    PROVE  IsSubset(a, b) <=> a \subseteq b
BY DEF IsSubset

\* One more rule leaves unmatched the packets it does not match itself.
LEMMA UnmatchedExtend ==
    ASSUME NEW rules, NEW on, NEW k
    PROVE  Unmatched(rules, on \cup {k}) = Unmatched(rules, on) \ rules[k].pred
BY DEF Unmatched

\* the unmatched ones.
LEMMA DecidedExtend ==
    ASSUME NEW rules, NEW on, NEW k, NEW action,
           \A j \in on : j < k /\ ~(k < j), ~(k < k)
    PROVE  Decided(rules, on \cup {k}, action) =
               Decided(rules, on, action) \cup
                   (IF rules[k].action = action
                    THEN rules[k].pred \cap Unmatched(rules, on) ELSE {})
<1>1. ASSUME NEW p \in Packet
      PROVE  p \in Decided(rules, on \cup {k}, action) <=>
                 \/ p \in Decided(rules, on, action)
                 \/ /\ rules[k].action = action
                    /\ p \in rules[k].pred \cap Unmatched(rules, on)
  <2>1. \A j \in on : FirstMatch(rules, on \cup {k}, j, p) <=> FirstMatch(rules, on, j, p)
    BY DEF FirstMatch
  <2>2. FirstMatch(rules, on \cup {k}, k, p) <=>
            p \in rules[k].pred /\ p \in Unmatched(rules, on)
    BY DEF FirstMatch, Unmatched
  <2>3. QED
    BY <2>1, <2>2 DEF Decided
<1>2. Decided(rules, on \cup {k}, action) \subseteq Packet
      /\ Decided(rules, on, action) \subseteq Packet
      /\ Unmatched(rules, on) \subseteq Packet
  BY DEF Decided, Unmatched
<1>3. QED
  BY <1>1, <1>2

\* One more rule of a prefix.
LEMMA UnmatchedStep ==
    ASSUME NEW rules, NEW n \in Nat
    PROVE  Unmatched(rules, 1 .. (n + 1)) = Unmatched(rules, 1 .. n) \ rules[n + 1].pred
<1>1. 1 .. (n + 1) = (1 .. n) \cup {n + 1}
  OBVIOUS
<1>2. QED
  BY <1>1, UnmatchedExtend

LEMMA DecidedStep ==
    ASSUME NEW rules, NEW n \in Nat, NEW action
    PROVE  Decided(rules, 1 .. (n + 1), action) =
               Decided(rules, 1 .. n, action) \cup
                   (IF rules[n + 1].action = action
                    THEN rules[n + 1].pred \cap Unmatched(rules, 1 .. n) ELSE {})
<1> DEFINE k == n + 1
           on == 1 .. n
<1>1. 1 .. k = on \cup {k}
  OBVIOUS
<1>2. \A j \in on : j < k /\ ~(k < j)
  OBVIOUS
<1>3. ~(k < k)
  OBVIOUS
<1> HIDE DEF k, on
<1>4. Decided(rules, on \cup {k}, action) =
          Decided(rules, on, action) \cup
              (IF rules[k].action = action THEN rules[k].pred \cap Unmatched(rules, on) ELSE {})
  BY <1>2, <1>3, DecidedExtend
<1>5. QED
  BY <1>1, <1>4 DEF k, on

\* A rule of a prefix is the first match of a packet whatever follows it.
LEMMA PrefixFirstMatch ==
    ASSUME NEW rules, NEW n \in Nat, NEW k \in 1 .. n, NEW p
    PROVE  FirstMatch(rules, 1 .. n, k, p) <=>
               p \in rules[k].pred /\ \A j \in 1 .. (k - 1) : p \notin rules[j].pred
BY DEF FirstMatch

\* The packets a rule decides are those it matches and no rule before it does.
LEMMA PrefixEffective ==
    ASSUME NEW rules, NEW n \in Nat, NEW k \in 1 .. n
    PROVE  Effective(rules, 1 .. n, k) = rules[k].pred \cap Unmatched(rules, 1 .. (k - 1))
BY PrefixFirstMatch DEF Effective, Unmatched

\* What a prefix decided it decides in every longer prefix.
LEMMA DecidedGrows ==
    ASSUME NEW rules, NEW n \in Nat, NEW m \in 0 .. n, NEW action
    PROVE  Decided(rules, 1 .. m, action) \subseteq Decided(rules, 1 .. n, action)
<1> SUFFICES ASSUME NEW p \in Packet, NEW k \in 1 .. m,
                    rules[k].action = action, FirstMatch(rules, 1 .. m, k, p)
             PROVE  p \in Decided(rules, 1 .. n, action)
  BY DEF Decided
<1>1. k \in 1 .. n
  OBVIOUS
<1>2. FirstMatch(rules, 1 .. n, k, p)
  BY <1>1 DEF FirstMatch
<1>3. QED
  BY <1>1, <1>2 DEF Decided

-----------------------------------------------------------------------------
(***************************************************************************)
(* The inductive invariant.  StateIsFirstMatch alone is not inductive: the *)
(* anomalies of a step are computed from the cached diagrams, and R is     *)
(* recomputed from A and D rather than reduced.                            *)
(***************************************************************************)
CacheCurrent == \A k \in 1 .. index : cache[acl[k].id] = acl[k].pred

Concluded ==
    /\ status = "done" => index = Len(acl) /\ missing_deny_all = ~IsNone(R)
    /\ status = "interrupted" => anomalies = {}

IInv ==
    /\ TypeOK
    /\ CacheCurrent
    /\ StateIsFirstMatch
    /\ R = Packet \ (A \cup D)
    /\ Concluded

\* What is known of an access control list.
LEMMA AclType ==
    ASSUME NEW rules \in Acls
    PROVE  /\ Len(rules) \in Nat
           /\ DOMAIN rules = 1 .. Len(rules)
           /\ \A k \in 1 .. Len(rules) :
                 /\ rules[k] \in Rule
                 /\ rules[k].id \in Nat /\ rules[k].action \in RuleAction
                 /\ rules[k].pred \subseteq Packet
           /\ \A j, k \in 1 .. Len(rules) : rules[j].id = rules[k].id => j = k
<1>1. rules \in Seq(Rule) /\ UniqueIds(rules)
  BY AclsAssumption
<1>2. /\ Len(rules) \in Nat
      /\ DOMAIN rules = 1 .. Len(rules)
      /\ \A k \in 1 .. Len(rules) : rules[k] \in Rule
  BY <1>1
<1>3. QED
  BY <1>1, <1>2 DEF UniqueIds, Rule, Bddnode

\* An iteration sees the right diagram of every rule up to the current one.
LEMMA DiagramsCurrent ==
    ASSUME TypeOK, CacheCurrent, index < Len(acl)
    PROVE  LET k == index + 1
           IN  /\ k \in 1 .. Len(acl)
               /\ DOMAIN Diagrams(k) = {acl[j].id : j \in 1 .. k}
               /\ \A j \in 1 .. k : Diagrams(k)[acl[j].id] = acl[j].pred
<1> DEFINE k == index + 1
<1>1. index \in Nat /\ k \in 1 .. Len(acl) /\ 1 .. k = (1 .. index) \cup {k}
  BY AclType DEF TypeOK
<1>2. DOMAIN Diagrams(k) = {acl[j].id : j \in 1 .. k}
  BY <1>1 DEF TypeOK, Diagrams
<1>3. ASSUME NEW j \in 1 .. k
      PROVE  Diagrams(k)[acl[j].id] = acl[j].pred
  <2>1. CASE j = k
    BY <1>1, <2>1 DEF Diagrams
  <2>2. CASE j \in 1 .. index
    <3>1. acl[j].id # acl[k].id /\ acl[j].id \in DOMAIN cache
      BY <1>1, <2>2, AclType DEF TypeOK
    <3>2. QED
      BY <1>1, <2>2, <3>1 DEF CacheCurrent, Diagrams
  <2>3. QED
    BY <1>1, <2>1, <2>2
<1>4. QED
  BY <1>1, <1>2, <1>3

-----------------------------------------------------------------------------
(***************************************************************************)
(* What an anomaly establishes about its rule, in terms of the rules that  *)
(* precede it only, so that it stays true when the pass goes on.           *)
(***************************************************************************)
Hidden(k) == acl[k].pred # {} /\ acl[k].pred \cap Unmatched(acl, 1 .. (k - 1)) = {}

ShadowFact(a) ==
    a.type = "Shadowing" =>
        /\ acl[a.rule].pred \subseteq TakenBy(a.rule, Opposite(acl[a.rule].action))
        /\ acl[a.rule].pred \subseteq NamedPackets(a.rules)
        /\ \A j \in a.rules : acl[j].action = Opposite(acl[a.rule].action)

Fact(a) ==
    /\ SaysFullyMasked(a) <=> Hidden(a.rule)
    /\ ShadowFact(a)
    /\ Explains(a)

LEMMA OppositeType ==
    ASSUME NEW action \in RuleAction
    PROVE  Opposite(action) \in RuleAction /\ Opposite(action) # action
BY DEF Opposite, RuleAction

\* The two searches, read on the rules themselves.
LEMMA Searches ==
    ASSUME TypeOK, CacheCurrent, index < Len(acl), NEW action
    PROVE  LET k == index + 1
           IN  /\ FindOverlaping(k, action, Diagrams(k)) =
                     {j \in 1 .. (k - 1) :
                         acl[j].action = action /\ acl[k].pred \cap acl[j].pred # {}}
               /\ FindOtherIsSubset(k, action, Diagrams(k)) \subseteq
                     {j \in 1 .. (k - 1) : acl[j].action = action}
<1> DEFINE k == index + 1
<1>1. \A j \in 1 .. k : Diagrams(k)[acl[j].id] = acl[j].pred
  BY DiagramsCurrent
<1>2. k \in 1 .. k /\ \A j \in 1 .. (k - 1) : j \in 1 .. k
  BY AclType DEF TypeOK
<1>3. QED
  BY <1>1, <1>2 DEF FindOverlaping, FindOtherIsSubset, Overlaps, IsDisjoint

\* The overlapping rules of an action contain all that took a packet of rule k.
LEMMA OverlapCovers ==
    ASSUME TypeOK, CacheCurrent, index < Len(acl), NEW action
    PROVE  LET k == index + 1
           IN  TakenBy(k, action) \subseteq NamedPackets(FindOverlaping(k, action, Diagrams(k)))
<1> DEFINE k == index + 1
<1> SUFFICES ASSUME NEW p \in acl[k].pred, p \in Decided(acl, 1 .. (k - 1), action)
             PROVE  p \in NamedPackets(FindOverlaping(k, action, Diagrams(k)))
  BY DEF TakenBy
<1>1. PICK j \in 1 .. (k - 1) : acl[j].action = action /\ p \in acl[j].pred
  BY DEF Decided, FirstMatch
<1>2. j \in FindOverlaping(k, action, Diagrams(k))
  BY <1>1, Searches
<1>3. QED
  BY <1>1, <1>2 DEF NamedPackets

\* check_rule returns at most one well-typed anomaly, on the rule it checks.
LEMMA CheckRuleType ==
    ASSUME TypeOK, CacheCurrent, index < Len(acl),
           NEW a \in CheckRule(index + 1, Diagrams(index + 1))
    PROVE  /\ a \in Anomaly
           /\ a.rule = index + 1
           /\ a.rules \cup a.correlated \subseteq 1 .. index
<1> DEFINE k == index + 1
<1>1. k \in Nat /\ 1 .. (k - 1) = 1 .. index /\ 1 .. index \subseteq Nat
  BY AclType DEF TypeOK
<1>2. \A action : /\ FindOverlaping(k, action, Diagrams(k)) \subseteq 1 .. index
                  /\ FindOtherIsSubset(k, action, Diagrams(k)) \subseteq 1 .. index
  BY <1>1 DEF FindOverlaping, FindOtherIsSubset
<1>3. PICK type \in AnomalyType, scope \in AnomalyScope,
           rules \in SUBSET (1 .. index), correlated \in SUBSET (1 .. index) :
              a = [rule |-> k, type |-> type, scope |-> scope,
                   rules |-> rules, correlated |-> correlated]
  BY <1>1, <1>2 DEF CheckRule, FullyMasked, PartiallyMasked, Report, AnomalyType, AnomalyScope
<1>4. QED
  BY <1>1, <1>3 DEF Anomaly

\* The processed packets of an action are those earlier rules took.
LEMMA ProcessedIsTaken ==
    ASSUME IInv, index < Len(acl), NEW action \in RuleAction
    PROVE  LET k == index + 1
           IN  /\ k \in 1 .. Len(acl) /\ k - 1 = index
               /\ acl[k].pred \subseteq Packet
               /\ Diagrams(k)[acl[k].id] = acl[k].pred
               /\ R = Unmatched(acl, 1 .. (k - 1))
               /\ acl[k].pred \cap Processed(action) = TakenBy(k, action)
<1>1. index + 1 \in 1 .. Len(acl) /\ (index + 1) - 1 = index
  BY AclType DEF IInv, TypeOK
<1>2. acl[index + 1].pred \subseteq Packet
  BY <1>1, AclType DEF IInv, TypeOK
<1>3. Diagrams(index + 1)[acl[index + 1].id] = acl[index + 1].pred
  BY <1>1, DiagramsCurrent DEF IInv
<1>4. Processed(action) = Decided(acl, 1 .. index, action)
  BY DEF IInv, StateIsFirstMatch, Processed, RuleAction
<1>5. QED
  BY <1>1, <1>2, <1>3, <1>4 DEF IInv, StateIsFirstMatch, TakenBy

\* Every anomaly check_rule returns is true of its rule.
LEMMA CheckRuleFact ==
    ASSUME IInv, index < Len(acl),
           NEW a \in CheckRule(index + 1, Diagrams(index + 1))
    PROVE  Fact(a)
<1> DEFINE k == index + 1
           P == acl[k].pred
           same == acl[k].action
           other == Opposite(same)
<1>1. same \in RuleAction /\ other \in RuleAction /\ other # same
  BY AclType, OppositeType DEF IInv, TypeOK
<1>2. /\ Diagrams(k)[acl[k].id] = P /\ P \subseteq Packet
      /\ R = Unmatched(acl, 1 .. (k - 1))
      /\ P \cap Processed(same) = TakenBy(k, same)
      /\ P \cap Processed(other) = TakenBy(k, other)
  BY <1>1, ProcessedIsTaken
<1>3. /\ TakenBy(k, same) \subseteq NamedPackets(FindOverlaping(k, same, Diagrams(k)))
      /\ TakenBy(k, other) \subseteq NamedPackets(FindOverlaping(k, other, Diagrams(k)))
  BY OverlapCovers DEF IInv
<1>4. \A j \in FindOverlaping(k, other, Diagrams(k)) : acl[j].action = other
  BY DEF FindOverlaping
<1>5. P \subseteq R \cup Processed(same) \cup Processed(other)
  BY <1>1, <1>2 DEF IInv, Processed, RuleAction
<1>6. IsSubset(P, R) <=> P \subseteq R
  BY <1>2, SubsetByImplication, ZenonT(60) DEF IInv, TypeOK, Bddnode
<1>7. IsSubset(P, Processed(other)) <=> P \subseteq Processed(other)
  BY <1>2, SubsetByImplication DEF IInv, TypeOK, Bddnode, Processed
<1>8. ~(P \subseteq R)
  BY <1>2, <1>6 DEF CheckRule
<1>9. CASE P \cap R = {}
  <2>1. a \in FullyMasked(k, Diagrams(k))
    BY <1>2, <1>6, <1>8, <1>9 DEF CheckRule, IsNone, IsDisjoint
  <2>2. SaysFullyMasked(a) /\ a.rule = k /\ Hidden(k)
    BY <2>1, <1>2, <1>8, <1>9 DEF FullyMasked, Report, SaysFullyMasked, Hidden
  <2>3. CASE P \subseteq Processed(other)
    <3>1. a = [rule |-> k, type |-> "Shadowing", scope |-> "FullyMaskedRule",
               rules |-> FindOverlaping(k, other, Diagrams(k)), correlated |-> {}]
      BY <2>1, <2>3, <1>2, <1>7 DEF FullyMasked, Report
    <3>2. P = TakenBy(k, other)
      BY <2>3, <1>2
    <3>3. QED
      BY <2>2, <3>1, <3>2, <1>3, <1>4 DEF Fact, ShadowFact, Explains
  <2>4. CASE ~(P \subseteq Processed(other)) /\ P \cap Processed(other) = {}
    <3>1. a = [rule |-> k, type |-> "Redundancy", scope |-> "FullyMaskedRule",
               rules |-> FindOverlaping(k, same, Diagrams(k)), correlated |-> {}]
      BY <2>1, <2>4, <1>2, <1>7 DEF FullyMasked, Report, IsDisjoint
    <3>2. P = TakenBy(k, same) /\ P # {} /\ TakenBy(k, other) = {}
      BY <2>4, <1>2, <1>5, <1>9
    <3>3. QED
      BY <2>2, <3>1, <3>2, <1>3 DEF Fact, ShadowFact, Explains
  <2>5. CASE ~(P \subseteq Processed(other)) /\ P \cap Processed(other) # {}
    <3>1. a = [rule |-> k, type |-> "RedundancyOrCorrelation", scope |-> "PartiallyMaskedRule",
               rules |-> FindOverlaping(k, same, Diagrams(k)),
               correlated |-> FindOverlaping(k, other, Diagrams(k))]
      BY <2>1, <2>5, <1>2, <1>7 DEF FullyMasked, Report, IsDisjoint
    <3>2. TakenBy(k, same) # {} /\ TakenBy(k, other) # {}
      BY <2>5, <1>2, <1>5, <1>9
    <3>3. QED
      BY <2>2, <3>1, <3>2, <1>3 DEF Fact, ShadowFact, Explains
  <2>6. QED
    BY <2>3, <2>4, <2>5
<1>10. CASE P \cap R # {}
  <2>1. a \in PartiallyMasked(k, Diagrams(k))
    BY <1>2, <1>6, <1>8, <1>10 DEF CheckRule, IsNone, IsDisjoint
  <2>2. ~Hidden(k)
    BY <1>2, <1>10 DEF Hidden
  <2>3. \/ /\ a.type = "Generalization" /\ a.rule = k
        \/ /\ a.type = "Redundancy" /\ a.rule = k /\ a.scope = "PartiallyMaskedRule"
           /\ P \cap Processed(same) # {}
        \/ /\ a.type = "Correlation" /\ a.rule = k
           /\ P \cap Processed(other) # {}
           /\ a.rules = FindOverlaping(k, other, Diagrams(k))
    BY <2>1, <1>2 DEF PartiallyMasked, Report, Overlaps, IsDisjoint
  <2>4. QED
    BY <2>2, <2>3, <1>2, <1>3 DEF Fact, ShadowFact, Explains, SaysFullyMasked
<1>11. QED
  BY <1>9, <1>10

\* check_rule is silent only about rules no earlier decision contradicts, and
\* which decide something if they match anything.
LEMMA CheckRuleSilence ==
    ASSUME IInv, index < Len(acl), CheckRule(index + 1, Diagrams(index + 1)) = {}
    PROVE  /\ ~Hidden(index + 1)
           /\ TakenBy(index + 1, Opposite(acl[index + 1].action)) = {}
<1> DEFINE k == index + 1
           P == acl[k].pred
           other == Opposite(acl[k].action)
<1>1. other \in RuleAction
  BY AclType, OppositeType DEF IInv, TypeOK
<1>2. /\ Diagrams(k)[acl[k].id] = P /\ P \subseteq Packet
      /\ R = Unmatched(acl, 1 .. (k - 1))
      /\ P \cap Processed(other) = TakenBy(k, other)
  BY <1>1, ProcessedIsTaken
<1>3. TakenBy(k, other) \subseteq NamedPackets(FindOverlaping(k, other, Diagrams(k)))
  BY OverlapCovers DEF IInv
<1>4. FullyMasked(k, Diagrams(k)) # {}
  BY DEF FullyMasked, Report
<1>5. CASE P \subseteq R
  <2>1. P \cap Processed(other) = {}
    BY <1>5 DEF IInv, Processed
  <2>2. QED
    BY <2>1, <1>2, <1>5 DEF Hidden
<1>6. CASE ~(P \subseteq R)
  <2>1. P \cap R # {} /\ PartiallyMasked(k, Diagrams(k)) = {}
    BY <1>2, <1>4, <1>6 DEF CheckRule, IsSubset, IsNone, IsDisjoint
  <2>2. P \cap Processed(other) # {} => FindOverlaping(k, other, Diagrams(k)) = {}
    BY <2>1, <1>2 DEF PartiallyMasked, Report, Overlaps, IsDisjoint
  <2>3. QED
    BY <2>1, <2>2, <1>2, <1>3 DEF Hidden, NamedPackets
<1>7. QED
  BY <1>5, <1>6

-----------------------------------------------------------------------------
(***************************************************************************)
(* IInv is inductive.                                                      *)
(***************************************************************************)
LEMMA InitIInv == Init => IInv
<1> SUFFICES ASSUME Init PROVE IInv
  OBVIOUS
<1>1. acl \in Acls /\ Len(acl) \in Nat /\ index = 0
  BY AclType DEF Init
<1>2. 1 .. 0 = {}
  OBVIOUS
<1>3. TypeOK
  <2>1. DOMAIN cache = {acl[k].id : k \in 1 .. index}
    <3>1. DOMAIN cache = {}
      BY DEF Init
    <3>2. {acl[k].id : k \in 1 .. index} = {}
      BY <1>1, <1>2
    <3>3. QED
      BY <3>1, <3>2
  <2>2. A \in Bddnode /\ D \in Bddnode /\ R \in Bddnode
    BY DEF Init, Bddnode
  <2>3. \A id \in DOMAIN cache : cache[id] \in Bddnode
    BY DEF Init
  <2>4. anomalies = {} /\ anomalies \subseteq Anomaly
    BY DEF Init
  <2>5. index \in 0 .. Len(acl)
    BY <1>1
  <2>6. QED
    BY <2>1, <2>2, <2>3, <2>4, <2>5 DEF Init, TypeOK
<1>4. StateIsFirstMatch
  BY <1>1, <1>2 DEF Init, StateIsFirstMatch, Decided, Unmatched
<1>5. QED
  BY <1>1, <1>2, <1>3, <1>4 DEF Init, IInv, CacheCurrent, Concluded

\* An iteration that is not interrupted.
LEMMA StepRuleIInv == IInv /\ StepRule => IInv'
<1> SUFFICES ASSUME IInv, StepRule PROVE IInv'
  OBVIOUS
<1> DEFINE k == index + 1
<1>1. /\ status = "running" /\ index < Len(acl) /\ index' = k
      /\ acl' = acl /\ cache' = Diagrams(k)
      /\ anomalies' = anomalies \cup
            (IF IsFinalDenyAll(k) THEN {} ELSE CheckRule(k, Diagrams(k)))
      /\ Update(acl[k].action, Diagrams(k)[acl[k].id])
      /\ UNCHANGED <<missing_deny_all, status, interrupted>>
  BY DEF StepRule
<1>2. /\ index \in Nat /\ Len(acl) \in Nat /\ k \in 1 .. Len(acl)
      /\ 1 .. k = (1 .. index) \cup {k} /\ k \in 0 .. Len(acl)
  BY <1>1, AclType DEF IInv, TypeOK
<1>3. /\ DOMAIN Diagrams(k) = {acl[j].id : j \in 1 .. k}
      /\ \A j \in 1 .. k : Diagrams(k)[acl[j].id] = acl[j].pred
  BY <1>1, DiagramsCurrent DEF IInv
<1>4. acl[k].pred \subseteq Packet /\ acl[k].action \in {"ALLOW", "DENY"}
  BY <1>2, AclType DEF IInv, TypeOK, RuleAction
<1>5. /\ A' = IF acl[k].action = "ALLOW" THEN A \cup (R \cap acl[k].pred) ELSE A
      /\ D' = IF acl[k].action = "DENY" THEN D \cup (R \cap acl[k].pred) ELSE D
      /\ R' = Packet \ (A' \cup D')
  BY <1>1, <1>2, <1>3 DEF Update
<1>6. StateIsFirstMatch'
  <2>1. /\ A = Decided(acl, 1 .. index, "ALLOW")
        /\ D = Decided(acl, 1 .. index, "DENY")
        /\ R = Unmatched(acl, 1 .. index)
    BY DEF IInv, StateIsFirstMatch
  <2>2. \A action :
            Decided(acl, 1 .. k, action) =
                Decided(acl, 1 .. index, action) \cup
                    (IF acl[k].action = action THEN acl[k].pred \cap R ELSE {})
    BY <2>1, <1>2, DecidedStep
  <2>6. A' = Decided(acl, 1 .. k, "ALLOW")
    BY <2>1, <2>2, <1>5
  <2>7. D' = Decided(acl, 1 .. k, "DENY")
    BY <2>1, <2>2, <1>5
  <2>3. R' = R \ acl[k].pred
    BY <1>4, <1>5 DEF IInv
  <2>4. R' = Unmatched(acl, 1 .. k)
    BY <2>1, <2>3, <1>2, UnmatchedStep
  <2>5. QED
    BY <2>6, <2>7, <2>4, <1>1 DEF StateIsFirstMatch
<1>7. TypeOK'
  <2>1. \A id \in DOMAIN cache' : cache'[id] \in Bddnode
    BY <1>1, <1>2, <1>3, AclType DEF IInv, TypeOK, Bddnode
  <2>2. A' \in Bddnode /\ D' \in Bddnode /\ R' \in Bddnode
    BY <1>4, <1>5 DEF IInv, TypeOK, Bddnode
  <2>3. ASSUME NEW a \in anomalies'
        PROVE  /\ a \in Anomaly /\ a.rule \in 1 .. k
               /\ a.rules \cup a.correlated \subseteq 1 .. (a.rule - 1)
    <3>1. CASE a \in anomalies
      BY <3>1, <1>2 DEF IInv, TypeOK
    <3>2. CASE a \in CheckRule(k, Diagrams(k))
      <4>1. a \in Anomaly /\ a.rule = k /\ a.rules \cup a.correlated \subseteq 1 .. index
        BY <3>2, <1>1, CheckRuleType DEF IInv
      <4>2. QED
        BY <4>1, <1>2
    <3>3. QED
      BY <3>1, <3>2, <1>1
  <2>4. QED
    BY <2>1, <2>2, <2>3, <1>1, <1>2, <1>3 DEF IInv, TypeOK
<1>8. CacheCurrent'
  BY <1>1, <1>3 DEF CacheCurrent
<1>9. QED
  BY <1>1, <1>5, <1>6, <1>7, <1>8 DEF IInv, Concluded

LEMMA NextIInv == IInv /\ [Next]_vars => IInv'
<1> SUFFICES ASSUME IInv, [Next]_vars PROVE IInv'
  OBVIOUS
<1>1. CASE StepRule
  BY <1>1, StepRuleIInv
<1>2. CASE Abort
  BY <1>2 DEF Abort, IInv, TypeOK, CacheCurrent, StateIsFirstMatch, Concluded
<1>3. CASE Finish
  BY <1>3, ZenonT(60) DEF Finish, IInv, TypeOK, CacheCurrent, StateIsFirstMatch, Concluded, IsNone
<1>4. CASE CtrlC
  BY <1>4 DEF CtrlC, IInv, TypeOK, CacheCurrent, StateIsFirstMatch, Concluded
<1>5. CASE UNCHANGED vars
  BY <1>5 DEF vars, IInv, TypeOK, CacheCurrent, StateIsFirstMatch, Concluded
<1>6. QED
  BY <1>1, <1>2, <1>3, <1>4, <1>5 DEF Next

\* The inductive invariant holds of every pass.
THEOREM SpecIInv == Spec => []IInv
BY InitIInv, NextIInv, PTL DEF Spec

\* Every variable keeps its type; an anomaly names rules before its own only.
THEOREM TypeCorrect == Spec => []TypeOK
<1>1. IInv => TypeOK
  BY DEF IInv
<1>2. QED
  BY <1>1, SpecIInv, PTL

\* A, D and R are the first-match sets of the rules walked so far.
THEOREM FirstMatchState == Spec => []StateIsFirstMatch
<1>1. IInv => StateIsFirstMatch
  BY DEF IInv
<1>2. QED
  BY <1>1, SpecIInv, PTL

\* The missing deny-all warning is exact.
THEOREM DenyAllWarning == Spec => []MissingDenyAllExact
<1>1. IInv => MissingDenyAllExact
  BY AclType DEF IInv, TypeOK, StateIsFirstMatch, Concluded, MissingDenyAllExact, IsNone
<1>2. QED
  BY <1>1, SpecIInv, PTL

-----------------------------------------------------------------------------
(***************************************************************************)
(* The report: what is said of a rule is true, and what is true is said.   *)
(***************************************************************************)
ReportInv ==
    /\ \A a \in anomalies : a.rule \in Checked /\ Fact(a)
    /\ status # "interrupted" =>
          \A k \in Checked : AnomaliesOf(k) = {} =>
              ~Hidden(k) /\ TakenBy(k, Opposite(acl[k].action)) = {}

\* What is said of a rule depends on the rules only, not on the progress.
LEMMA FactsAreStable ==
    ASSUME acl' = acl
    PROVE  /\ \A a : Fact(a)' <=> Fact(a)
           /\ \A k : /\ Hidden(k)' <=> Hidden(k)
                     /\ (TakenBy(k, Opposite(acl[k].action)) = {})' <=>
                            TakenBy(k, Opposite(acl[k].action)) = {}
BY DEF Fact, ShadowFact, Explains, SaysFullyMasked, Hidden, TakenBy, NamedPackets

LEMMA StepRuleReportInv == IInv /\ ReportInv /\ StepRule => ReportInv'
<1> SUFFICES ASSUME IInv, ReportInv, StepRule PROVE ReportInv'
  OBVIOUS
<1> DEFINE k == index + 1
           new == IF IsFinalDenyAll(k) THEN {} ELSE CheckRule(k, Diagrams(k))
<1>1. /\ index < Len(acl) /\ index' = k /\ acl' = acl
      /\ anomalies' = anomalies \cup new /\ status' = status
      /\ status = "running"
  BY DEF StepRule
<1>2. 1 .. k = (1 .. index) \cup {k} /\ k \notin 1 .. index
  BY <1>1, AclType DEF IInv, TypeOK
<1>3. Checked' = Checked \cup (IF IsFinalDenyAll(k) THEN {} ELSE {k})
  BY <1>1, <1>2 DEF Checked, IsFinalDenyAll
<1>4. ASSUME NEW a \in anomalies'
      PROVE  a.rule \in Checked' /\ Fact(a)
  <2>1. CASE a \in anomalies
    BY <2>1, <1>3 DEF ReportInv
  <2>2. CASE a \in new
    <3>1. a.rule = k /\ Fact(a)
      BY <2>2, <1>1, CheckRuleType, CheckRuleFact DEF IInv
    <3>2. QED
      BY <2>2, <3>1, <1>3
  <2>3. QED
    BY <1>1, <2>1, <2>2
<1>5. ASSUME NEW j \in Checked', (AnomaliesOf(j) = {})'
      PROVE  ~Hidden(j) /\ TakenBy(j, Opposite(acl[j].action)) = {}
  <2>1. CASE j \in Checked
    BY <2>1, <1>1, <1>5 DEF AnomaliesOf, ReportInv
  <2>2. CASE j = k /\ ~IsFinalDenyAll(k)
    <3>1. \A a \in CheckRule(k, Diagrams(k)) : a.rule = k
      BY <1>1, CheckRuleType DEF IInv
    <3>2. CheckRule(k, Diagrams(k)) = {}
      BY <3>1, <2>2, <1>1, <1>5 DEF AnomaliesOf
    <3>3. QED
      BY <3>2, <2>2, <1>1, CheckRuleSilence
  <2>3. QED
    BY <1>3, <2>1, <2>2
<1>6. QED
  BY <1>1, <1>4, <1>5, FactsAreStable DEF ReportInv

LEMMA NextReportInv == IInv /\ ReportInv /\ [Next]_vars => ReportInv'
<1> SUFFICES ASSUME IInv, ReportInv, [Next]_vars PROVE ReportInv'
  OBVIOUS
<1>1. CASE StepRule
  BY <1>1, StepRuleReportInv
<1>2. CASE Abort
  BY <1>2 DEF Abort, ReportInv
<1>3. ASSUME acl' = acl, index' = index, anomalies' = anomalies,
             status = "interrupted" => status' = "interrupted"
      PROVE  ReportInv'
  <2>1. Checked' = Checked /\ \A k : AnomaliesOf(k)' = AnomaliesOf(k)
    BY <1>3 DEF Checked, IsFinalDenyAll, AnomaliesOf
  <2>2. QED
    BY <2>1, <1>3, FactsAreStable DEF ReportInv
<1>4. CASE Finish
  BY <1>3, <1>4 DEF Finish
<1>5. CASE CtrlC
  BY <1>3, <1>5 DEF CtrlC
<1>6. CASE UNCHANGED vars
  BY <1>3, <1>6 DEF vars
<1>7. QED
  BY <1>1, <1>2, <1>4, <1>5, <1>6 DEF Next

\* Both invariants hold of every pass.
THEOREM SpecReportInv == Spec => [](IInv /\ ReportInv)
<1>1. Init => ReportInv
  <2> SUFFICES ASSUME Init PROVE ReportInv
    OBVIOUS
  <2>1. anomalies = {} /\ Checked = {}
    BY DEF Init, Checked
  <2>2. QED
    BY <2>1 DEF ReportInv
<1>2. QED
  BY InitIInv, NextIInv, <1>1, NextReportInv, PTL DEF Spec

\* The rules said to be fully masked, characterised by the rules before them.
LEMMA MaskedAreHidden ==
    ASSUME IInv, ReportInv
    PROVE  /\ \A k \in MaskedRules : k \in Checked /\ Hidden(k)
           /\ status # "interrupted" => MaskedRules = {k \in Checked : Hidden(k)}
<1>1. \A k \in MaskedRules : k \in Checked /\ Hidden(k)
  BY DEF MaskedRules, ReportInv, Fact
<1>2. ASSUME status # "interrupted", NEW k \in Checked, Hidden(k)
      PROVE  k \in MaskedRules
  <2>1. PICK a \in anomalies : a.rule = k
    BY <1>2 DEF ReportInv, AnomaliesOf
  <2>2. SaysFullyMasked(a)
    BY <2>1, <1>2 DEF ReportInv, Fact
  <2>3. QED
    BY <2>1, <2>2 DEF MaskedRules
<1>3. QED
  BY <1>1, <1>2

\* A rule of the prefix is hidden when it matches packets and decides none.
LEMMA HiddenDecidesNothing ==
    ASSUME TypeOK, NEW k \in 1 .. index
    PROVE  Hidden(k) <=> acl[k].pred # {} /\ Effective(acl, 1 .. index, k) = {}
<1>1. index \in Nat
  BY AclType DEF TypeOK
<1>2. QED
  BY <1>1, PrefixEffective DEF Hidden

\* A packet some walked rule matches has a first match among them.
LEMMA MatchedIsDecided ==
    ASSUME IInv, NEW k \in 1 .. index, NEW p \in acl[k].pred
    PROVE  /\ p \in Packet
           /\ \E m \in 1 .. index : FirstMatch(acl, 1 .. index, m, p)
<1>1. p \in Packet
  BY AclType DEF IInv, TypeOK
<1>2. p \notin R
  BY <1>1 DEF IInv, StateIsFirstMatch, Unmatched
<1>3. p \in A \cup D
  BY <1>1, <1>2 DEF IInv
<1>4. QED
  BY <1>1, <1>3 DEF IInv, StateIsFirstMatch, Decided

-----------------------------------------------------------------------------
(***************************************************************************)
(* The correctness of the report.                                          *)
(***************************************************************************)

\* A rule is called fully masked if and only if it matches packets and
\* decides none of them.
THEOREM MaskedExact == Spec => []MaskedIffDecidesNothing
<1>1. IInv /\ ReportInv => MaskedIffDecidesNothing
  <2> SUFFICES ASSUME IInv, ReportInv, status # "interrupted"
               PROVE  MaskedRules = {k \in Checked : /\ acl[k].pred # {}
                                                      /\ Effective(acl, 1 .. index, k) = {}}
    BY DEF MaskedIffDecidesNothing
  <2>1. MaskedRules = {k \in Checked : Hidden(k)}
    BY MaskedAreHidden
  <2>2. \A k \in Checked :
            Hidden(k) <=> acl[k].pred # {} /\ Effective(acl, 1 .. index, k) = {}
    BY HiddenDecidesNothing DEF Checked, IInv
  <2>3. QED
    BY <2>1, <2>2
<1>2. QED
  BY <1>1, SpecReportInv, PTL

\* Every packet of a shadowed rule gets the opposite action, from the rules named.
THEOREM ShadowingSound == Spec => []ShadowedGetsOpposite
<1>1. IInv /\ ReportInv => ShadowedGetsOpposite
  <2> SUFFICES ASSUME IInv, ReportInv, NEW a \in anomalies, a.type = "Shadowing"
               PROVE  /\ acl[a.rule].pred \subseteq
                            Decided(acl, 1 .. index, Opposite(acl[a.rule].action))
                                \cap NamedPackets(a.rules)
                      /\ \A j \in a.rules : acl[j].action = Opposite(acl[a.rule].action)
    BY DEF ShadowedGetsOpposite
  <2>1. ShadowFact(a)
    BY DEF ReportInv, Fact
  <2>2. index \in Nat /\ a.rule \in 1 .. index /\ a.rule - 1 \in 0 .. index
    BY AclType DEF IInv, TypeOK
  <2>3. Decided(acl, 1 .. (a.rule - 1), Opposite(acl[a.rule].action)) \subseteq
            Decided(acl, 1 .. index, Opposite(acl[a.rule].action))
    BY <2>2, DecidedGrows
  <2>4. QED
    BY <2>1, <2>3 DEF ShadowFact, TakenBy
<1>2. QED
  BY <1>1, SpecReportInv, PTL

\* Deleting all the fully masked rules together changes no decision.
THEOREM MaskedRemovable == Spec => []MaskedRulesRemovable
<1>1. IInv /\ ReportInv => MaskedRulesRemovable
  <2> SUFFICES ASSUME IInv, ReportInv, NEW action \in RuleAction, NEW p \in Packet
               PROVE  p \in Decided(acl, 1 .. index, action) <=>
                          p \in Decided(acl, (1 .. index) \ MaskedRules, action)
    BY DEF MaskedRulesRemovable, SameDecisions, Decided
  <2>1. index \in Nat
    BY AclType DEF IInv, TypeOK
  <2>2. \A k \in 1 .. index : FirstMatch(acl, 1 .. index, k, p) => k \notin MaskedRules
    BY MaskedAreHidden, HiddenDecidesNothing DEF IInv, Effective
  <2>3. ASSUME p \in Decided(acl, 1 .. index, action)
        PROVE  p \in Decided(acl, (1 .. index) \ MaskedRules, action)
    BY <2>2, <2>3 DEF Decided, FirstMatch
  <2>4. ASSUME p \in Decided(acl, (1 .. index) \ MaskedRules, action)
        PROVE  p \in Decided(acl, 1 .. index, action)
    <3>1. PICK k \in (1 .. index) \ MaskedRules :
                acl[k].action = action /\ FirstMatch(acl, (1 .. index) \ MaskedRules, k, p)
      BY <2>4 DEF Decided
    <3>2. PICK m \in 1 .. index : FirstMatch(acl, 1 .. index, m, p)
      BY <3>1, MatchedIsDecided DEF FirstMatch
    <3>3. m \in (1 .. index) \ MaskedRules
      BY <2>2, <3>2
    <3>4. ~(m < k) /\ ~(k < m)
      BY <3>1, <3>2, <3>3 DEF FirstMatch
    <3>5. m = k
      BY <2>1, <3>1, <3>4
    <3>6. QED
      BY <3>1, <3>2, <3>5 DEF Decided
  <2>5. QED
    BY <2>3, <2>4
<1>2. QED
  BY <1>1, SpecReportInv, PTL

\* No conflict between a rule and an earlier decision goes unreported.
THEOREM ConflictsAreReported == Spec => []ConflictsReported
<1>1. IInv /\ ReportInv => ConflictsReported
  BY DEF ReportInv, ConflictsReported
<1>2. QED
  BY <1>1, SpecReportInv, PTL

\* The rules an anomaly names cover the packets its message speaks of.
THEOREM ExplanationSound == Spec => []NamedRulesExplain
<1>1. IInv /\ ReportInv => NamedRulesExplain
  BY DEF ReportInv, Fact, NamedRulesExplain
<1>2. QED
  BY <1>1, SpecReportInv, PTL

\* A rule without anomaly is obeyed on every packet it matches.
THEOREM SilenceSound == Spec => []SilenceMeansObeyed
<1>1. IInv /\ ReportInv => SilenceMeansObeyed
  <2> SUFFICES ASSUME IInv, ReportInv, status # "interrupted",
                      NEW k \in Checked, AnomaliesOf(k) = {}
               PROVE  /\ acl[k].pred \subseteq Decided(acl, 1 .. index, acl[k].action)
                      /\ acl[k].pred # {} => Effective(acl, 1 .. index, k) # {}
    BY DEF SilenceMeansObeyed
  <2>1. ~Hidden(k) /\ TakenBy(k, Opposite(acl[k].action)) = {}
    BY DEF ReportInv
  <2>2. index \in Nat /\ k \in 1 .. index
    BY AclType DEF IInv, TypeOK, Checked
  <2>3. ASSUME NEW p \in acl[k].pred
        PROVE  p \in Decided(acl, 1 .. index, acl[k].action)
    <3>1. PICK m \in 1 .. index : FirstMatch(acl, 1 .. index, m, p)
      BY <2>2, MatchedIsDecided
    <3>2. p \in Packet /\ p \in acl[m].pred /\ ~(k < m)
      BY <2>2, <3>1, MatchedIsDecided DEF FirstMatch
    <3>3. acl[m].action \in RuleAction /\ acl[k].action \in RuleAction
      BY <2>2, AclType DEF IInv, TypeOK
    <3>4. ASSUME acl[m].action # acl[k].action
          PROVE  FALSE
      <4>1. m \in 1 .. (k - 1) /\ acl[m].action = Opposite(acl[k].action)
        BY <2>2, <3>2, <3>3, <3>4 DEF Opposite, RuleAction
      <4>2. FirstMatch(acl, 1 .. (k - 1), m, p)
        BY <2>2, <3>1, <4>1 DEF FirstMatch
      <4>3. p \in TakenBy(k, Opposite(acl[k].action))
        BY <3>2, <4>1, <4>2 DEF TakenBy, Decided
      <4>4. QED
        BY <2>1, <4>3
    <3>5. QED
      BY <3>1, <3>2, <3>4 DEF Decided
  <2>4. QED
    BY <2>1, <2>2, <2>3, HiddenDecidesNothing DEF IInv
<1>2. QED
  BY <1>1, SpecReportInv, PTL

-----------------------------------------------------------------------------
(***************************************************************************)
(* The implementation of PacketVerdicts, step by step.                     *)
(***************************************************************************)
LEMMA InitImplements == Init => Verdicts!PInit
<1> SUFFICES ASSUME Init PROVE Verdicts!PInit
  OBVIOUS
<1>1. \A p \in Packet : VerdictOf(p) = "none"
  BY DEF Init, VerdictOf
<1>2. MaskedRules = {} /\ Outcome = "pending"
  BY DEF Init, MaskedRules, Outcome
<1>3. QED
  BY <1>1, <1>2 DEF Init, Verdicts!PInit

MaskedExactly == status # "interrupted" => MaskedRules = {k \in Checked : Hidden(k)}

LEMMA MaskedExactlyAlways == Spec => []MaskedExactly
<1>1. IInv /\ ReportInv => MaskedExactly
  BY MaskedAreHidden DEF MaskedExactly
<1>2. QED
  BY <1>1, SpecReportInv, PTL

LEMMA StepRuleImplements ==
    IInv /\ ReportInv /\ MaskedExactly' /\ StepRule => Verdicts!Walk
<1> SUFFICES ASSUME IInv, ReportInv, MaskedExactly', StepRule
             PROVE  Verdicts!Walk
  OBVIOUS
<1> DEFINE k == index + 1
           P == acl[k].pred
<1>1. /\ status = "running" /\ index < Len(acl) /\ index' = k /\ acl' = acl
      /\ status' = status /\ missing_deny_all' = missing_deny_all
      /\ Update(acl[k].action, Diagrams(k)[acl[k].id])
  BY DEF StepRule
<1>2. /\ index \in Nat /\ k \in 1 .. Len(acl)
      /\ 1 .. k = (1 .. index) \cup {k} /\ k - 1 = index
      /\ P \subseteq Packet /\ acl[k].action \in {"ALLOW", "DENY"}
  BY <1>1, AclType DEF IInv, TypeOK, RuleAction
<1>3. Diagrams(k)[acl[k].id] = P
  BY <1>1, <1>2, DiagramsCurrent DEF IInv
<1>4. /\ A' = IF acl[k].action = "ALLOW" THEN A \cup (R \cap P) ELSE A
      /\ D' = IF acl[k].action = "DENY" THEN D \cup (R \cap P) ELSE D
      /\ R = Packet \ (A \cup D)
  BY <1>1, <1>3 DEF Update, IInv
<1>5. \A p \in Packet : VerdictOf(p) = "none" <=> p \in R
  BY <1>4 DEF VerdictOf
<1>6. ASSUME NEW p \in Packet
      PROVE  VerdictOf(p)' = IF p \in P /\ VerdictOf(p) = "none"
                             THEN acl[k].action ELSE VerdictOf(p)
  BY <1>2, <1>4 DEF VerdictOf
<1>7. [p \in Packet |-> VerdictOf(p)'] =
          [p \in Packet |-> IF p \in P /\ [q \in Packet |-> VerdictOf(q)][p] = "none"
                           THEN acl[k].action ELSE [q \in Packet |-> VerdictOf(q)][p]]
  BY <1>6
<1>8. MaskedRules' = MaskedRules \cup (IF ~IsFinalDenyAll(k) /\ Hidden(k) THEN {k} ELSE {})
  <2>1. MaskedRules = {j \in Checked : Hidden(j)}
    BY <1>1, MaskedAreHidden
  <2>2. MaskedRules' = {j \in Checked' : Hidden(j)'}
    BY <1>1 DEF MaskedExactly
  <2>3. Checked' = Checked \cup (IF IsFinalDenyAll(k) THEN {} ELSE {k})
    BY <1>1, <1>2 DEF Checked, IsFinalDenyAll
  <2>4. \A j : Hidden(j)' <=> Hidden(j)
    BY <1>1, FactsAreStable
  <2>5. QED
    BY <2>1, <2>2, <2>3, <2>4, <1>1
<1>9. Hidden(k) <=> P # {} /\ \A p \in P : [q \in Packet |-> VerdictOf(q)][p] # "none"
  <2>1. Hidden(k) <=> P # {} /\ P \cap R = {}
    BY <1>2 DEF Hidden, IInv, StateIsFirstMatch
  <2>2. QED
    BY <2>1, <1>2, <1>5
<1>10. IsFinalDenyAll(k) <=> k = Len(acl) /\ acl[k].action = "DENY" /\ acl[k].pred = Packet
  BY DEF IsFinalDenyAll, IsDenyAll, IsAny
<1>11. Outcome = "pending" /\ Outcome' = "pending"
  BY <1>1 DEF Outcome
<1>12. QED
  BY <1>1, <1>7, <1>8, <1>9, <1>10, <1>11 DEF Verdicts!Walk, Verdicts!Closing

LEMMA FinishImplements == IInv /\ Finish => Verdicts!Conclude
<1> SUFFICES ASSUME IInv, Finish PROVE Verdicts!Conclude
  OBVIOUS
<1>1. (\E p \in Packet : [q \in Packet |-> VerdictOf(q)][p] = "none") <=> R # {}
  BY DEF IInv, VerdictOf
<1>2. Outcome = "pending" /\ Outcome' = IF R # {} THEN "deny all missing" ELSE "complete"
  BY DEF Finish, Outcome, IsNone
<1>3. UNCHANGED <<acl, index, MaskedRules, [p \in Packet |-> VerdictOf(p)]>>
  BY DEF Finish, MaskedRules, SaysFullyMasked, VerdictOf
<1>4. QED
  BY <1>1, <1>2, <1>3 DEF Finish, Verdicts!Conclude

LEMMA AbortImplements == Abort => Verdicts!GiveUp
<1> SUFFICES ASSUME Abort PROVE Verdicts!GiveUp
  OBVIOUS
<1>1. MaskedRules' = {} /\ Outcome = "pending" /\ Outcome' = "given up"
  BY DEF Abort, MaskedRules, Outcome
<1>2. UNCHANGED <<acl, index, [p \in Packet |-> VerdictOf(p)]>>
  BY DEF Abort, VerdictOf
<1>3. QED
  BY <1>1, <1>2 DEF Abort, Verdicts!GiveUp

\* The diagram-based pass implements the packet-by-packet walk.
THEOREM Refinement == Spec => ImplementsVerdicts
<1>1. IInv /\ ReportInv /\ MaskedExactly' /\ [Next]_vars =>
          [Verdicts!PNext]_Verdicts!pvars
  <2> SUFFICES ASSUME IInv, ReportInv, MaskedExactly', [Next]_vars
               PROVE  [Verdicts!PNext]_Verdicts!pvars
    OBVIOUS
  <2>1. CASE StepRule
    BY <2>1, StepRuleImplements DEF Verdicts!PNext
  <2>2. CASE Finish
    BY <2>2, FinishImplements DEF Verdicts!PNext
  <2>3. CASE Abort
    BY <2>3, AbortImplements DEF Verdicts!PNext
  <2>4. ASSUME UNCHANGED <<acl, index, A, D, anomalies, missing_deny_all, status>>
        PROVE  UNCHANGED Verdicts!pvars
    BY <2>4 DEF Verdicts!pvars, MaskedRules, SaysFullyMasked, VerdictOf, Outcome
  <2>5. CASE CtrlC
    BY <2>4, <2>5 DEF CtrlC
  <2>6. CASE UNCHANGED vars
    BY <2>4, <2>6 DEF vars
  <2>7. QED
    BY <2>1, <2>2, <2>3, <2>5, <2>6 DEF Next
<1>2. QED
  BY InitImplements, <1>1, SpecReportInv, MaskedExactlyAlways, PTL DEF Spec, ImplementsVerdicts, Verdicts!PSpec


\* The flag of Ctrl+C is read before every rule: whatever the list, once it is
\* set no further rule is looked at, and unless all had been the pass ends with
\* nothing reported (the invariant is not needed, only what each step reads).
THEOREM InterruptStops == Spec => InterruptHonoured
<1> DEFINE Heeded == interrupted /\ index < Len(acl) /\ status = "running" =>
                        status' = "interrupted" /\ anomalies' = {} /\ index' = index
<1>1. IInv /\ [Next]_vars => [Heeded]_vars
  <2> SUFFICES ASSUME IInv, Next, interrupted, index < Len(acl), status = "running"
               PROVE  status' = "interrupted" /\ anomalies' = {} /\ index' = index
    OBVIOUS
  <2>1. index \in Nat /\ Len(acl) \in Nat /\ index # Len(acl)
    BY AclType DEF IInv, TypeOK
  <2>2. ~StepRule /\ ~Finish /\ ~CtrlC
    BY <2>1 DEF StepRule, Finish, CtrlC
  <2>3. Abort
    BY <2>2 DEF Next
  <2>4. QED
    BY <2>3 DEF Abort
<1>2. Spec => [][Heeded]_vars
  BY <1>1, SpecIInv, PTL DEF Spec
<1>3. QED
  BY <1>2 DEF InterruptHonoured
=============================================================================
