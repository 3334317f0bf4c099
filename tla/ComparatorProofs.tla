-------------------------- MODULE ComparatorProofs --------------------------
(***************************************************************************)
(* Proofs about PolicyComparator, for every set of packets and lists of    *)
(* any length.                                                             *)
(*                                                                         *)
(* The argument: compute_bdd keeps no set of remaining packets, but what   *)
(* its two sets leave out is exactly what no enabled rule matched (the     *)
(* third conjunct of Walked), so subtracting the other set from a rule     *)
(* adds the same packets as intersecting with the remaining ones.          *)
(***************************************************************************)
EXTENDS PolicyComparator, TLAPS

(***************************************************************************)
(* First-match evaluation, for any set `on' of rules that take part.       *)
(***************************************************************************)
\* The test of the implication diagram decides inclusion.
LEMMA SubsetByImplication ==
    ASSUME NEW a \in SUBSET Packet, NEW b \in SUBSET Packet
    PROVE  IsSubset(a, b) <=> a \subseteq b
BY DEF IsSubset

\* One more rule leaves unmatched the packets it does not match itself.
LEMMA UnmatchedExtend ==
    ASSUME NEW rules, NEW on, NEW k
    PROVE  Unmatched(rules, on \cup {k}) = Unmatched(rules, on) \ rules[k].pred
BY DEF Unmatched

\* the unmatched ones.
LEMMA DecidedExtend ==
    ASSUME NEW rules, NEW on, NEW k, NEW action,
           \A j \in on : j < k /\ ~(k < j), ~(k < k)
    PROVE  Decided(rules, on \cup {k}, action) =
               Decided(rules, on, action) \cup
                   (IF rules[k].action = action
                    THEN rules[k].pred \cap Unmatched(rules, on) ELSE {})
<1>1. ASSUME NEW p \in Packet
      PROVE  p \in Decided(rules, on \cup {k}, action) <=>
                 \/ p \in Decided(rules, on, action)
                 \/ /\ rules[k].action = action
                    /\ p \in rules[k].pred \cap Unmatched(rules, on)
  <2>1. \A j \in on : FirstMatch(rules, on \cup {k}, j, p) <=> FirstMatch(rules, on, j, p)
    BY DEF FirstMatch
  <2>2. FirstMatch(rules, on \cup {k}, k, p) <=>
            p \in rules[k].pred /\ p \in Unmatched(rules, on)
    BY DEF FirstMatch, Unmatched
  <2>3. QED
    BY <2>1, <2>2 DEF Decided
<1>2. Decided(rules, on \cup {k}, action) \subseteq Packet
      /\ Decided(rules, on, action) \subseteq Packet
      /\ Unmatched(rules, on) \subseteq Packet
  BY DEF Decided, Unmatched
<1>3. QED
  BY <1>1, <1>2

\* What the local diagrams of compute_bdd are after n iterations on `rules'.
Walked(rules, n) ==
    /\ allowed = Decided(rules, Enabled(rules, n), "ALLOW")
    /\ denied = Decided(rules, Enabled(rules, n), "DENY")
    /\ Unmatched(rules, Enabled(rules, n)) = Packet \ (allowed \cup denied)

Compared ==
    relations # NoRelations =>
        /\ current = 3
        /\ relations = [allowed |-> Compare(bdds[1].allowed, bdds[2].allowed),
                        denied |-> Compare(bdds[1].denied, bdds[2].denied)]

IInv ==
    /\ TypeOK
    /\ current < 3 => Walked(lists[current], index)
    /\ ComputedIsFirstMatch
    /\ Compared

LEMMA ListType ==
    ASSUME NEW rules \in RuleLists
    PROVE  /\ Len(rules) \in Nat
           /\ \A k \in 1 .. Len(rules) :
                 /\ rules[k].status \in RuleStatus
                 /\ rules[k].action \in RuleAction
                 /\ rules[k].pred \subseteq Packet
<1>1. rules \in Seq(ListedRule)
  BY RuleListsAssumption
<1>2. Len(rules) \in Nat /\ \A k \in 1 .. Len(rules) : rules[k] \in ListedRule
  BY <1>1
<1>3. QED
  BY <1>2 DEF ListedRule, Bddnode

\* Nothing is decided before the first rule.
LEMMA NothingWalked ==
    ASSUME NEW rules
    PROVE  /\ Decided(rules, Enabled(rules, 0), "ALLOW") = {}
           /\ Decided(rules, Enabled(rules, 0), "DENY") = {}
           /\ Unmatched(rules, Enabled(rules, 0)) = Packet
<1>1. Enabled(rules, 0) = {}
  BY DEF Enabled
<1>2. QED
  BY <1>1 DEF Decided, Unmatched

LEMMA CompareType ==
    ASSUME NEW a, NEW b
    PROVE  Compare(a, b) \in MnodeRelationship /\ Compare(a, b) # "none"
BY DEF Compare, MnodeRelationship

LEMMA InitIInv == Init => IInv
<1> SUFFICES ASSUME Init PROVE IInv
  OBVIOUS
<1>1. /\ lists \in [1 .. 2 -> RuleLists] /\ current = 1 /\ index = 0
      /\ allowed = {} /\ denied = {} /\ DOMAIN bdds = {} /\ relations = NoRelations
  BY DEF Init
<1>2. Len(lists[1]) \in Nat
  BY <1>1, ListType
<1>3. TypeOK
  BY <1>1, <1>2 DEF TypeOK, Bddnode
<1>4. Walked(lists[current], index)
  BY <1>1, NothingWalked DEF Walked
<1>5. QED
  BY <1>1, <1>3, <1>4 DEF IInv, ComputedIsFirstMatch, Compared

\* One iteration keeps the sets those of the rules walked.
LEMMA StepWalked ==
    IInv /\ StepRule => Walked(lists[current], index)'
<1> SUFFICES ASSUME IInv, StepRule PROVE Walked(lists[current], index)'
  OBVIOUS
<1> DEFINE rules == lists[current]
           k == index + 1
           on == Enabled(rules, index)
           P == rules[k].pred
<1>1. /\ current < 3 /\ current \in 1 .. 2 /\ lists' = lists /\ current' = current
      /\ index' = k /\ ComputeStep(rules[k])
  BY DEF StepRule, IInv, TypeOK
<1>2. rules \in RuleLists /\ index \in Nat /\ index < Len(rules) /\ k \in 1 .. Len(rules)
  <2>1. rules \in RuleLists /\ index \in Nat /\ index < Len(rules)
    BY <1>1 DEF StepRule, IInv, TypeOK
  <2>2. QED
    BY <2>1, ListType
<1>3. rules[k].status \in RuleStatus /\ rules[k].action \in RuleAction /\ P \subseteq Packet
  BY <1>2, ListType
<1>4. /\ allowed = Decided(rules, on, "ALLOW")
      /\ denied = Decided(rules, on, "DENY")
      /\ Unmatched(rules, on) = Packet \ (allowed \cup denied)
  BY <1>1 DEF IInv, Walked
<1>5. Walked(lists[current], index)'
  <2>1. CASE rules[k].status = "ENABLED"
    <3>1. Enabled(rules, k) = on \cup {k}
      BY <1>2, <2>1 DEF Enabled
    <3>2. (\A j \in on : j < k /\ ~(k < j)) /\ ~(k < k)
      BY <1>2 DEF Enabled
    <3>3. Unmatched(rules, Enabled(rules, k)) = Unmatched(rules, on) \ P
      BY <3>1, UnmatchedExtend
    <3> HIDE DEF on, k
    <3>4. \A action : Decided(rules, on \cup {k}, action) =
              Decided(rules, on, action) \cup
                  (IF rules[k].action = action THEN rules[k].pred \cap Unmatched(rules, on) ELSE {})
      BY <3>2, DecidedExtend
    <3>5. /\ Decided(rules, Enabled(rules, k), "ALLOW") =
                allowed \cup (IF rules[k].action = "ALLOW" THEN P \ denied ELSE {})
          /\ Decided(rules, Enabled(rules, k), "DENY") =
                denied \cup (IF rules[k].action = "DENY" THEN P \ allowed ELSE {})
      BY <3>1, <3>4, <1>3, <1>4
    <3>6. /\ allowed' = allowed \cup (IF rules[k].action = "ALLOW" THEN P \ denied ELSE {})
          /\ denied' = denied \cup (IF rules[k].action = "DENY" THEN P \ allowed ELSE {})
      BY <1>1, <1>3, <2>1 DEF ComputeStep, RuleAction
    <3>7. Unmatched(rules, Enabled(rules, k)) = Packet \ (allowed' \cup denied')
      BY <1>3, <1>4, <3>3, <3>6 DEF RuleAction
    <3>8. /\ allowed' = Decided(rules, Enabled(rules, k), "ALLOW")
          /\ denied' = Decided(rules, Enabled(rules, k), "DENY")
      BY <3>5, <3>6
    <3>9. QED
      BY <3>7, <3>8, <1>1 DEF Walked
  <2>2. CASE rules[k].status = "DISABLED"
    <3>1. Enabled(rules, k) = on
      BY <1>2, <2>2 DEF Enabled
    <3>2. allowed' = allowed /\ denied' = denied
      BY <1>1, <2>2 DEF ComputeStep
    <3>3. QED
      BY <1>1, <1>4, <3>1, <3>2 DEF Walked
  <2>3. QED
    BY <1>3, <2>1, <2>2 DEF RuleStatus
<1>6. QED
  BY <1>5

LEMMA StepIInv == IInv /\ StepRule => IInv'
<1> SUFFICES ASSUME IInv, StepRule PROVE IInv'
  OBVIOUS
<1>1. /\ lists' = lists /\ current' = current /\ bdds' = bdds /\ relations' = relations
      /\ current \in 1 .. 2 /\ index' = index + 1 /\ index \in Nat
      /\ index < Len(lists[current]) /\ lists[current] \in RuleLists
      /\ ComputeStep(lists[current][index + 1])
  BY DEF StepRule, IInv, TypeOK
<1>2. index + 1 \in 1 .. Len(lists[current])
  BY <1>1, ListType
<1>3. /\ lists[current][index + 1].pred \subseteq Packet
      /\ allowed \subseteq Packet /\ denied \subseteq Packet
  BY <1>1, <1>2, ListType DEF IInv, TypeOK, Bddnode
<1>4. allowed' \subseteq Packet /\ denied' \subseteq Packet
  BY <1>1, <1>3 DEF ComputeStep
<1>5. TypeOK'
  BY <1>1, <1>2, <1>4 DEF IInv, TypeOK, Bddnode
<1>6. ComputedIsFirstMatch'
  BY <1>1 DEF IInv, ComputedIsFirstMatch, DecidedBy
<1>7. Compared'
  BY <1>1 DEF IInv, Compared
<1>8. QED
  BY <1>5, <1>6, <1>7, StepWalked DEF IInv

LEMMA ReturnIInv == IInv /\ Return => IInv'
<1> SUFFICES ASSUME IInv, Return PROVE IInv'
  OBVIOUS
<1>1. /\ lists' = lists /\ current' = current + 1 /\ index' = 0 /\ relations' = relations
      /\ current \in 1 .. 2 /\ index = Len(lists[current])
      /\ allowed' = {} /\ denied' = {}
      /\ bdds' = [i \in DOMAIN bdds \cup {current} |->
                     IF i = current THEN [allowed |-> allowed, denied |-> denied] ELSE bdds[i]]
  BY DEF Return, IInv, TypeOK
<1>2. /\ DOMAIN bdds = 1 .. (current - 1)
      /\ DOMAIN bdds' = 1 .. (current' - 1)
      /\ bdds'[current] = [allowed |-> allowed, denied |-> denied]
      /\ \A i \in DOMAIN bdds : bdds'[i] = bdds[i]
      /\ DOMAIN bdds' = DOMAIN bdds \cup {current}
  BY <1>1 DEF IInv, TypeOK
<1>3. lists \in [1 .. 2 -> RuleLists] /\ current' \in 1 .. 3
  BY <1>1 DEF IInv, TypeOK
<1>4. TypeOK'
  <2>1. ASSUME NEW i \in DOMAIN bdds'
        PROVE  bdds'[i] \in Result
    <3>1. CASE i = current
      <4>1. allowed \in Bddnode /\ denied \in Bddnode
        BY DEF IInv, TypeOK
      <4>2. QED
        BY <1>2, <3>1, <4>1 DEF Result
    <3>2. CASE i \in DOMAIN bdds
      <4>1. bdds[i] \in Result
        BY <3>2 DEF IInv, TypeOK
      <4>2. QED
        BY <1>2, <3>2, <4>1
    <3>3. QED
      BY <1>2, <3>1, <3>2
  <2>2. current' < 3 => index' \in 0 .. Len(lists'[current'])
    <3>1. current' < 3 => lists[current'] \in RuleLists
      BY <1>3
    <3>2. QED
      BY <1>1, <3>1, ListType
  <2>3. index' \in Nat /\ relations' \in Relations \cup {NoRelations}
    BY <1>1 DEF IInv, TypeOK
  <2>4. QED
    BY <1>1, <1>2, <1>3, <2>1, <2>2, <2>3 DEF TypeOK, Bddnode
<1>5. (current < 3 => Walked(lists[current], index))'
  <2>1. Walked(lists[current], index)'
    BY <1>1, NothingWalked DEF Walked
  <2>2. QED
    BY <2>1
<1>6. ComputedIsFirstMatch'
  <2>1. \A i \in {1, 2} : \A action : DecidedBy(i, action)' = DecidedBy(i, action)
    BY <1>1 DEF DecidedBy
  <2>2. /\ allowed = DecidedBy(current, "ALLOW")
        /\ denied = DecidedBy(current, "DENY")
    BY <1>1 DEF IInv, Walked, DecidedBy
  <2>3. ASSUME NEW i \in DOMAIN bdds'
        PROVE  /\ bdds'[i].allowed = DecidedBy(i, "ALLOW")'
               /\ bdds'[i].denied = DecidedBy(i, "DENY")'
    <3>1. i \in {1, 2}
      BY <1>1, <1>2
    <3>2. CASE i = current
      BY <1>2, <2>1, <2>2, <3>1, <3>2
    <3>3. CASE i \in DOMAIN bdds
      BY <1>2, <2>1, <3>1, <3>3 DEF IInv, ComputedIsFirstMatch
    <3>4. QED
      BY <1>2, <3>2, <3>3
  <2>4. QED
    BY <2>3 DEF ComputedIsFirstMatch
<1>7. Compared'
  BY <1>1 DEF IInv, Compared
<1>8. QED
  BY <1>4, <1>5, <1>6, <1>7 DEF IInv

LEMMA CompareIInv == IInv /\ CompareBdds => IInv'
<1> SUFFICES ASSUME IInv, CompareBdds PROVE IInv'
  OBVIOUS
<1>1. /\ lists' = lists /\ current' = current /\ index' = index /\ bdds' = bdds
      /\ allowed' = allowed /\ denied' = denied /\ current = 3
      /\ relations' = [allowed |-> Compare(bdds[1].allowed, bdds[2].allowed),
                       denied |-> Compare(bdds[1].denied, bdds[2].denied)]
  BY DEF CompareBdds
<1>2. relations' \in Relations
  BY <1>1, CompareType DEF Relations
<1>3. TypeOK'
  BY <1>1, <1>2 DEF IInv, TypeOK
<1>4. (current < 3 => Walked(lists[current], index))'
  BY <1>1
<1>5. ComputedIsFirstMatch'
  BY <1>1 DEF IInv, ComputedIsFirstMatch, DecidedBy
<1>6. Compared'
  BY <1>1 DEF Compared
<1>7. QED
  BY <1>3, <1>4, <1>5, <1>6 DEF IInv

LEMMA StutterIInv == IInv /\ UNCHANGED vars => IInv'
<1> SUFFICES ASSUME IInv, UNCHANGED vars PROVE IInv'
  OBVIOUS
<1>1. TypeOK'
  BY DEF IInv, TypeOK, vars
<1>2. (current < 3 => Walked(lists[current], index))'
  BY DEF IInv, Walked, vars
<1>3. ComputedIsFirstMatch' /\ Compared'
  BY DEF IInv, ComputedIsFirstMatch, DecidedBy, Compared, vars
<1>4. QED
  BY <1>1, <1>2, <1>3 DEF IInv

LEMMA SpecIInv == Spec => []IInv
<1>1. IInv /\ [Next]_vars => IInv'
  BY StepIInv, ReturnIInv, CompareIInv, StutterIInv DEF Next
<1>2. QED
  BY InitIInv, <1>1, PTL DEF Spec

-----------------------------------------------------------------------------
\* The variables keep their types.
THEOREM ComparatorTypeCorrect == Spec => []TypeOK
<1>1. IInv => TypeOK
  BY DEF IInv
<1>2. QED
  BY <1>1, SpecIInv, PTL

\* compute_bdd computes first-match evaluation of the enabled rules.
THEOREM ComputedCorrect == Spec => []ComputedIsFirstMatch
<1>1. IInv => ComputedIsFirstMatch
  BY DEF IInv
<1>2. QED
  BY <1>1, SpecIInv, PTL

\* What the result is, in terms of the rules.
LEMMA ResultOfRules ==
    ASSUME IInv, relations # NoRelations
    PROVE  relations = [allowed |-> Compare(DecidedBy(1, "ALLOW"), DecidedBy(2, "ALLOW")),
                        denied |-> Compare(DecidedBy(1, "DENY"), DecidedBy(2, "DENY"))]
<1>1. 1 \in DOMAIN bdds /\ 2 \in DOMAIN bdds
  BY DEF IInv, TypeOK, Compared
<1>2. QED
  BY <1>1 DEF IInv, Compared, ComputedIsFirstMatch

\* The relation of two sets of packets says what it seems to say.
LEMMA CompareSays ==
    ASSUME NEW a \in SUBSET Packet, NEW b \in SUBSET Packet
    PROVE  SaysOf(Compare(a, b), a, b) /\ (Compare(a, b) = "equal" <=> a = b)
<1>1. (IsSubset(a, b) <=> a \subseteq b) /\ (IsSubset(b, a) <=> b \subseteq a)
  BY SubsetByImplication
<1>2. QED
  BY <1>1 DEF Compare, SaysOf, IsDisjoint

LEMMA DecidedByType ==
    ASSUME NEW i, NEW action
    PROVE  DecidedBy(i, action) \in SUBSET Packet
BY DEF DecidedBy, Decided

\* Two lists are called equivalent exactly when they decide the same.
THEOREM EquivalenceExact == Spec => []EquivalentExact
<1>1. IInv => EquivalentExact
  <2> SUFFICES ASSUME IInv, relations # NoRelations
               PROVE  (relations = [allowed |-> "equal", denied |-> "equal"]) <=>
                          \A action \in RuleAction : DecidedBy(1, action) = DecidedBy(2, action)
    BY DEF EquivalentExact
  <2>1. (relations.allowed = "equal" <=> DecidedBy(1, "ALLOW") = DecidedBy(2, "ALLOW"))
        /\ (relations.denied = "equal" <=> DecidedBy(1, "DENY") = DecidedBy(2, "DENY"))
    BY ResultOfRules, DecidedByType, CompareSays
  <2>2. relations = [allowed |-> relations.allowed, denied |-> relations.denied]
    BY ResultOfRules
  <2>3. QED
    BY <2>1, <2>2 DEF RuleAction
<1>2. QED
  BY <1>1, SpecIInv, PTL

\* The relations shown for lists that are not equivalent are right.
THEOREM RelationsCorrect == Spec => []RelationsExact
<1>1. IInv => RelationsExact
  BY ResultOfRules, DecidedByType, CompareSays DEF RelationsExact
<1>2. QED
  BY <1>1, SpecIInv, PTL
=============================================================================
