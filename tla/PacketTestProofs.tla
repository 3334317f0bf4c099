-------------------------- MODULE PacketTestProofs --------------------------
(***************************************************************************)
(* Proofs about PacketTest, for every policy, every test and every set of  *)
(* zones, addresses, services, applications and users.                     *)
(*                                                                         *)
(* BlurExact says that the diagrams without the fields a test leaves out   *)
(* are the full diagrams seen without these fields: the search then        *)
(* compares what was asked with what every rule matches.  SearchInv is its *)
(* invariant: no rule that was passed over contains what was asked.        *)
(***************************************************************************)
EXTENDS PacketTest, WellFoundedInduction, TLAPS

LEMMA SubsetByImplication ==
    ASSUME NEW a \in SUBSET Packet, NEW b \in SUBSET Packet
    PROVE  IsSubset(a, b) <=> a \subseteq b
BY DEF IsSubset

\* A set of positions has a first one.
LEMMA LeastNatural ==
    ASSUME NEW T \in SUBSET Nat, T # {}
    PROVE  \E m \in T : \A k \in T : m <= k
<1>1. PICK m \in T : \A k \in T : ~(<<k, m>> \in OpToRel(<, Nat))
  BY WFMin, NatLessThanWellFounded
<1>2. \A k \in T : ~(k < m)
  BY <1>1 DEF OpToRel
<1>3. QED
  BY <1>2

(***************************************************************************)
(* Diagrams without some fields.                                           *)
(***************************************************************************)
\* A service of an application rule is one of the default services of its
\* applications.
LEMMA ServiceOfApplication ==
    ASSUME NEW pred \in Predicate, NEW p \in Packet, NEW node \in pred.applications,
           pred.use_app_svc, ApplicationMatches(node, pred.use_app_svc, p)
    PROVE  p.service \in ServicesOf(pred.applications)
<1>1. p.service \in Service /\ p.application \in Application
  BY DEF Packet
<1>2. CASE node = AnyApplication
  BY <1>1, <1>2 DEF ServicesOf
<1>3. CASE node # AnyApplication
  BY <1>1, <1>3 DEF ServicesOf, ApplicationMatches
<1>4. QED
  BY <1>2, <1>3

\* Conversely, some application of the rule has the service.
LEMMA ApplicationOfService ==
    ASSUME NEW pred \in Predicate, WellFormed(pred), NEW p \in Packet,
           p.service \in (IF pred.app_services THEN ServicesOf(pred.applications) ELSE pred.services)
    PROVE  \E a \in Application : \E node \in pred.applications :
              \/ node = AnyApplication
              \/ a = node /\ (pred.use_app_svc => p.service \in DefaultServices[node])
<1>1. p.application \in Application
  BY DEF Packet
<1>2. pred.applications \subseteq Application \cup {AnyApplication}
  BY DEF Predicate
<1>3. CASE pred.use_app_svc
  <2>1. p.service \in ServicesOf(pred.applications)
    BY <1>3 DEF WellFormed
  <2>2. AnyApplication \in pred.applications
        \/ \E a \in pred.applications \ {AnyApplication} : p.service \in DefaultServices[a]
    BY <2>1 DEF ServicesOf
  <2>3. QED
    BY <1>1, <1>2, <2>2
<1>4. CASE ~pred.use_app_svc
  <2>1. PICK node \in pred.applications : TRUE
    BY DEF WellFormed
  <2>2. QED
    BY <1>1, <1>2, <1>4, <2>1
<1>5. QED
  BY <1>3, <1>4

\* What two packets that look alike have in common.
LEMMA ViewsEqual ==
    ASSUME NEW fields, NEW p, NEW q
    PROVE  View(p, fields) = View(q, fields) <=> \A field \in fields : p[field] = q[field]
<1>1. ASSUME View(p, fields) = View(q, fields), NEW field \in fields
      PROVE  p[field] = q[field]
  <2>1. View(p, fields)[field] = p[field] /\ View(q, fields)[field] = q[field]
    BY DEF View
  <2>2. QED
    BY <1>1, <2>1
<1>2. ASSUME \A field \in fields : p[field] = q[field]
      PROVE  View(p, fields) = View(q, fields)
  BY <1>2 DEF View
<1>3. QED
  BY <1>1, <1>2

LEMMA BlurredMember ==
    ASSUME NEW bdd, NEW fields, NEW p
    PROVE  p \in Blurred(bdd, fields) <=>
               p \in Packet /\ \E q \in bdd : \A field \in fields : p[field] = q[field]
BY ViewsEqual DEF Blurred

\* The fields that are given, and the options that stand for them.
LEMMA FieldsOfOptions ==
    /\ {"src_address", "dst_address", "service"} \subseteq FieldsGiven
    /\ "src_zone" \in FieldsGiven <=> "SourceZone" \in BddOptions(test)
    /\ "dst_zone" \in FieldsGiven <=> "DestinationZone" \in BddOptions(test)
    /\ "application" \in FieldsGiven <=> "Application" \in BddOptions(test)
    /\ "user" \in FieldsGiven <=> "User" \in BddOptions(test)
    /\ FieldsGiven \subseteq {"src_zone", "src_address", "dst_zone", "dst_address",
                              "service", "application", "user"}
BY DEF FieldsGiven, BddOptions, BddOption

\* A packet that the diagram without some fields takes looks like one that the
\* rule matches: the fields left out get the values the rule wants.
LEMMA BlurCompletes ==
    ASSUME NEW pred \in Predicate, WellFormed(pred),
           NEW p \in MakeBddWith(pred, BddOptions(test))
    PROVE  \E q \in MakeBdd(pred) : \A field \in FieldsGiven : p[field] = q[field]
<1> DEFINE options == BddOptions(test)
<1>1. p \in Packet
  BY DEF MakeBddWith
<1>2. PICK zs \in Zone : /\ zs \in pred.src_zones
                         /\ "SourceZone" \in options => zs = p.src_zone
  BY <1>1 DEF MakeBddWith, WellFormed, Predicate, Packet
<1>3. PICK zd \in Zone : /\ zd \in pred.dst_zones
                         /\ "DestinationZone" \in options => zd = p.dst_zone
  BY <1>1 DEF MakeBddWith, WellFormed, Predicate, Packet
<1>4. PICK u \in User : u \in pred.users /\ ("User" \in options => u = p.user)
  BY <1>1 DEF MakeBddWith, WellFormed, Predicate, Packet
<1>5. PICK a \in Application :
          /\ \E node \in pred.applications :
                \/ node = AnyApplication
                \/ a = node /\ (pred.use_app_svc => p.service \in DefaultServices[node])
          /\ "Application" \in options => a = p.application
  <2>1. CASE "Application" \in options
    <3>1. \E node \in pred.applications : ApplicationMatches(node, pred.use_app_svc, p)
      BY <2>1 DEF MakeBddWith
    <3>2. p.application \in Application
      BY <1>1 DEF Packet
    <3>3. QED
      BY <3>1, <3>2 DEF ApplicationMatches
  <2>2. CASE "Application" \notin options
    <3>1. p.service \in (IF pred.app_services THEN ServicesOf(pred.applications) ELSE pred.services)
      BY <2>2 DEF MakeBddWith
    <3>2. QED
      BY <1>1, <2>2, <3>1, ApplicationOfService
  <2>3. QED
    BY <2>1, <2>2
<1> DEFINE q == [src_zone |-> zs, src_address |-> p.src_address, dst_zone |-> zd,
                 dst_address |-> p.dst_address, service |-> p.service, application |-> a, user |-> u]
<1>6. q \in Packet
  BY <1>1 DEF Packet
<1>7. AddressesMatch(pred, q) /\ (~pred.app_services => p.service \in pred.services)
  BY DEF MakeBddWith, AddressesMatch
<1>8. \E node \in pred.applications : ApplicationMatches(node, pred.use_app_svc, q)
  BY <1>5 DEF ApplicationMatches
<1>9. q \in MakeBdd(pred)
  BY <1>2, <1>3, <1>4, <1>6, <1>7, <1>8 DEF MakeBdd
<1>10. \A field \in FieldsGiven : p[field] = q[field]
  <2>1. /\ q.src_address = p.src_address /\ q.dst_address = p.dst_address /\ q.service = p.service
        /\ q.src_zone = zs /\ q.dst_zone = zd /\ q.application = a /\ q.user = u
    OBVIOUS
  <2> HIDE DEF q
  <2>2. QED
    BY <1>2, <1>3, <1>4, <1>5, <2>1, FieldsOfOptions
<1>11. QED
  BY <1>9, <1>10

\* A packet that looks like one the rule matches is taken by the diagram
\* without the other fields, which keeps the default services of a rule whose
\* applications it leaves out.
LEMMA BlurSound ==
    ASSUME NEW pred \in Predicate, WellFormed(pred), NEW p \in Packet,
           NEW q \in MakeBdd(pred), \A field \in FieldsGiven : p[field] = q[field]
    PROVE  p \in MakeBddWith(pred, BddOptions(test))
<1> DEFINE options == BddOptions(test)
<1>1. /\ q \in Packet /\ q.src_zone \in pred.src_zones /\ q.dst_zone \in pred.dst_zones
      /\ AddressesMatch(pred, q) /\ q.user \in pred.users
      /\ ~pred.app_services => q.service \in pred.services
  BY DEF MakeBdd
<1>2. PICK node \in pred.applications : ApplicationMatches(node, pred.use_app_svc, q)
  BY DEF MakeBdd
<1>3. /\ p.src_address = q.src_address /\ p.dst_address = q.dst_address /\ p.service = q.service
      /\ "SourceZone" \in options => p.src_zone = q.src_zone
      /\ "DestinationZone" \in options => p.dst_zone = q.dst_zone
      /\ "Application" \in options => p.application = q.application
      /\ "User" \in options => p.user = q.user
  BY FieldsOfOptions
<1>4. AddressesMatch(pred, p)
  BY <1>1, <1>3 DEF AddressesMatch
<1>5. "Application" \in options => ApplicationMatches(node, pred.use_app_svc, p)
  BY <1>2, <1>3 DEF ApplicationMatches
<1>6. p.service \in (IF pred.app_services THEN ServicesOf(pred.applications) ELSE pred.services)
  BY <1>1, <1>2, <1>3, ServiceOfApplication DEF WellFormed
<1>7. ~pred.app_services => p.service \in pred.services
  BY <1>1, <1>3
<1>8. QED
  BY <1>1, <1>3, <1>4, <1>5, <1>6, <1>7 DEF MakeBddWith

\* Leaving fields out of a diagram is not caring for their values
\* (predicate.cpp, make_bdd with options).
THEOREM BlurExact ==
    ASSUME NEW pred \in Predicate, WellFormed(pred)
    PROVE  MakeBddWith(pred, BddOptions(test)) = Blurred(MakeBdd(pred), FieldsGiven)
<1>1. ASSUME NEW p \in MakeBddWith(pred, BddOptions(test))
      PROVE  p \in Blurred(MakeBdd(pred), FieldsGiven)
  <2>1. p \in Packet
    BY DEF MakeBddWith
  <2>2. QED
    BY <2>1, BlurCompletes, BlurredMember
<1>2. ASSUME NEW p \in Blurred(MakeBdd(pred), FieldsGiven)
      PROVE  p \in MakeBddWith(pred, BddOptions(test))
  BY BlurSound, BlurredMember
<1>3. QED
  BY <1>1, <1>2

(***************************************************************************)
(* The search.                                                             *)
(***************************************************************************)
Found == answer = [allowed |-> acl[index + 1].action = "ALLOW", rule |-> index + 1]
Denied == answer = [allowed |-> FALSE, rule |-> 0]

SearchInv ==
    /\ acl \in Acls /\ test \in Tests
    /\ TypeOK
    /\ \A k \in 1 .. index : ~Contains(k)
    /\ answered => \/ index < Len(acl) /\ Contains(index + 1) /\ Found
                   \/ index = Len(acl) /\ Denied

LEMMA RulesOfAcl ==
    ASSUME acl \in Acls
    PROVE  /\ acl \in Seq(FirewallRule) /\ Len(acl) \in Nat /\ DOMAIN acl = 1 .. Len(acl)
           /\ \A k \in DOMAIN acl :
                 /\ acl[k].predicate \in Predicate /\ WellFormed(acl[k].predicate)
                 /\ acl[k].action \in RuleAction
<1>1. acl \in Seq(FirewallRule)
  BY PacketTestAssumption
<1>2. Len(acl) \in Nat /\ DOMAIN acl = 1 .. Len(acl) /\ \A k \in DOMAIN acl : acl[k] \in FirewallRule
  BY <1>1
<1>3. \A rule \in FirewallRule : rule.predicate \in Predicate /\ rule.action \in RuleAction
  BY DEF FirewallRule
<1>4. QED
  BY <1>1, <1>2, <1>3, PacketTestAssumption

LEMMA Positions ==
    ASSUME SearchInv
    PROVE  index \in Nat /\ Len(acl) \in Nat /\ index <= Len(acl) /\ DOMAIN acl = 1 .. Len(acl)
<1>1. index \in 0 .. Len(acl) /\ acl \in Acls
  BY DEF SearchInv, TypeOK
<1>2. Len(acl) \in Nat /\ DOMAIN acl = 1 .. Len(acl)
  BY <1>1, RulesOfAcl
<1>3. QED
  BY <1>1, <1>2

LEMMA InitSearch == Init => SearchInv
<1> SUFFICES ASSUME Init PROVE SearchInv
  OBVIOUS
<1>1. acl \in Seq(FirewallRule) /\ test \in Test /\ Len(acl) \in Nat
  BY RulesOfAcl, PacketTestAssumption DEF Init
<1>2. answer = NoAnswer /\ answer \in Answer /\ answer.rule = 0
  BY DEF Init, NoAnswer, Answer
<1>3. TypeOK
  <2>1. index = 0 /\ answered = FALSE
    BY DEF Init
  <2>2. index \in 0 .. Len(acl) /\ answer.rule <= Len(acl) /\ answer.rule \in {0, index + 1}
    BY <1>1, <1>2, <2>1
  <2>3. QED
    BY <1>1, <1>2, <2>1, <2>2 DEF TypeOK
<1>4. QED
  BY <1>3 DEF Init, SearchInv

LEMMA StepNextRule ==
    ASSUME SearchInv, NextRule
    PROVE  SearchInv'
<1>1. UNCHANGED <<acl, test, answered, answer>> /\ index' = index + 1 /\ ~answered
  BY DEF NextRule
<1>2. index \in Nat /\ Len(acl) \in Nat /\ index < Len(acl)
  BY Positions DEF NextRule
<1>3. answer.rule = 0
  BY <1>1 DEF SearchInv, TypeOK, NoAnswer
<1>4. TypeOK'
  BY <1>1, <1>2, <1>3 DEF SearchInv, TypeOK
<1>5. \A k : Contains(k)' <=> Contains(k)
  BY <1>1 DEF Contains, TestBdd
<1>6. \A k \in 1 .. index' : ~Contains(k)'
  <2>1. \A k \in 1 .. index' : k \in 1 .. index \/ k = index + 1
    BY <1>1, <1>2
  <2>2. QED
    BY <1>5, <2>1 DEF SearchInv, NextRule
<1>7. QED
  BY <1>1, <1>4, <1>6 DEF SearchInv

LEMMA StepReturn ==
    ASSUME SearchInv, ReturnRule \/ ReturnDenied
    PROVE  SearchInv'
<1>1. UNCHANGED <<acl, test, index>> /\ answered' = TRUE
  BY DEF ReturnRule, ReturnDenied
<1>2. index \in Nat /\ Len(acl) \in Nat /\ index <= Len(acl)
  BY Positions
<1>3. \A k : Contains(k)' <=> Contains(k)
  BY <1>1 DEF Contains, TestBdd
<1>4. \/ index < Len(acl) /\ Contains(index + 1) /\ Found'
      \/ index = Len(acl) /\ Denied'
  BY <1>1 DEF ReturnRule, ReturnDenied, Found, Denied
<1>5. /\ answer' \in Answer
      /\ answer'.rule \in {0, index + 1} /\ answer'.rule <= Len(acl)
  <2>1. CASE index < Len(acl) /\ Found'
    BY <1>1, <1>2, <2>1 DEF Found, Answer
  <2>2. CASE index = Len(acl) /\ Denied'
    BY <1>1, <1>2, <2>2 DEF Denied, Answer
  <2>3. QED
    BY <1>4, <2>1, <2>2
<1>6. TypeOK'
  BY <1>1, <1>5 DEF SearchInv, TypeOK
<1>7. QED
  BY <1>1, <1>3, <1>4, <1>6 DEF SearchInv

LEMMA SearchStep ==
    ASSUME SearchInv, [Next]_vars
    PROVE  SearchInv'
<1>1. CASE UNCHANGED vars
  <2>1. UNCHANGED <<acl, test, index, answered, answer>>
    BY <1>1 DEF vars
  <2>2. \A k : Contains(k)' <=> Contains(k)
    BY <2>1 DEF Contains, TestBdd
  <2>3. (Found' <=> Found) /\ (Denied' <=> Denied) /\ (TypeOK' <=> TypeOK)
    BY <2>1 DEF Found, Denied, TypeOK
  <2>4. QED
    BY <2>1, <2>2, <2>3 DEF SearchInv
<1>2. QED
  BY <1>1, StepNextRule, StepReturn DEF Next

LEMMA SearchInvariant == Spec => []SearchInv
BY InitSearch, SearchStep, PTL DEF Spec

(***************************************************************************)
(* What the search compares.                                               *)
(***************************************************************************)
LEMMA SeenRule ==
    ASSUME SearchInv, NEW k \in DOMAIN acl
    PROVE  MakeBddWith(acl[k].predicate, BddOptions(test)) = SeenAs[k].pred
BY RulesOfAcl, BlurExact DEF SearchInv, SeenAs

\* The diagram of the test is the set of packets asked about.
LEMMA AskedExact ==
    ASSUME SearchInv
    PROVE  TestBdd = Asked
<1> DEFINE pred == TestPredicate(test)
<1>1. test \in Test
  BY DEF SearchInv, TypeOK
<1>2. CASE Packet = {}
  BY <1>2 DEF TestBdd, Asked, MakeBddWith, Blurred
<1>3. CASE Packet # {}
  <2>1. Zone # {} /\ User # {}
    BY <1>3 DEF Packet
  <2>2. /\ test.src_addresses # {} /\ test.dst_addresses # {} /\ test.services # {}
    BY PacketTestAssumption DEF SearchInv
  <2>3. pred \in Predicate
    BY <1>1 DEF TestPredicate, Test, Predicate
  <2>4. WellFormed(pred)
    BY <2>1, <2>2 DEF TestPredicate, WellFormed
  <2>5. QED
    BY <2>3, <2>4, BlurExact DEF TestBdd, Asked
<1>4. QED
  BY <1>2, <1>3

\* A rule contains the test when it matches every packet asked about.
LEMMA ContainsExact ==
    ASSUME SearchInv, NEW k \in DOMAIN acl
    PROVE  Contains(k) <=> Asked \subseteq SeenAs[k].pred
<1>1. Contains(k) <=> IsSubset(Asked, SeenAs[k].pred)
  BY SeenRule, AskedExact DEF Contains
<1>2. Asked \in SUBSET Packet /\ SeenAs[k].pred \in SUBSET Packet
  BY DEF Asked, SeenAs, Blurred
<1>3. QED
  BY <1>1, <1>2, SubsetByImplication

\* The rules as they are seen keep their positions and actions.
LEMMA SeenActions ==
    ASSUME SearchInv, NEW k \in DOMAIN acl
    PROVE  SeenAs[k].action = acl[k].action
BY DEF SeenAs

(***************************************************************************)
(* The theorems.                                                           *)
(***************************************************************************)

\* The search stays inside the list and names a rule of it or none
\* (packettester.cpp, is_packet_allowed).
THEOREM TypeCorrect == Spec => []TypeOK
<1>1. SearchInv => TypeOK
  BY DEF SearchInv
<1>2. QED
  BY <1>1, SearchInvariant, PTL

\* Every rule the search looks at is seen as it is, without the fields the
\* test leaves out.
THEOREM DiagramsCorrect == Spec => []DiagramsBlur
<1>1. SearchInv => DiagramsBlur
  <2> SUFFICES ASSUME SearchInv, index < Len(acl)
               PROVE  MakeBddWith(acl[index + 1].predicate, BddOptions(test)) =
                          Blurred(MakeBdd(acl[index + 1].predicate), FieldsGiven)
    BY DEF DiagramsBlur
  <2>1. index + 1 \in DOMAIN acl
    BY Positions
  <2>2. QED
    BY <2>1, RulesOfAcl, BlurExact DEF SearchInv
<1>2. QED
  BY <1>1, SearchInvariant, PTL

\* The answer about one packet is the one of first-match evaluation.
THEOREM OnePacketCorrect == Spec => []ExactForOnePacket
<1>1. ASSUME SearchInv, answered, OnePacket, NEW p \in Asked
      PROVE  \/ answer.rule \in DOMAIN acl
                /\ FirstMatch(SeenAs, DOMAIN acl, answer.rule, p)
                /\ answer.allowed = (acl[answer.rule].action = "ALLOW")
             \/ answer = [allowed |-> FALSE, rule |-> 0] /\ p \in Unmatched(SeenAs, DOMAIN acl)
  <2>1. p \in Packet /\ index \in Nat /\ Len(acl) \in Nat /\ DOMAIN acl = 1 .. Len(acl)
    BY <1>1, Positions DEF Asked, Blurred
  <2>2. ASSUME NEW k \in DOMAIN acl
        PROVE  p \in SeenAs[k].pred <=> Contains(k)
    <3>1. \A q \in Asked : View(q, FieldsGiven) = View(p, FieldsGiven)
      BY <1>1 DEF OnePacket
    <3>2. \A q \in Asked : q \in SeenAs[k].pred <=> p \in SeenAs[k].pred
      BY <2>1, <3>1 DEF SeenAs, Blurred, Asked
    <3>3. QED
      BY <1>1, <3>2, ContainsExact
  <2>3. CASE index < Len(acl) /\ Contains(index + 1) /\ Found
    <3>1. index + 1 \in DOMAIN acl
      BY <2>1, <2>3
    <3>2. \A j \in DOMAIN acl : j < index + 1 => p \notin SeenAs[j].pred
      <4>1. \A j \in DOMAIN acl : j < index + 1 => j \in 1 .. index
        BY <2>1
      <4>2. QED
        BY <1>1, <2>2, <4>1 DEF SearchInv
    <3>3. FirstMatch(SeenAs, DOMAIN acl, index + 1, p)
      BY <2>2, <2>3, <3>1, <3>2 DEF FirstMatch
    <3>4. answer.rule = index + 1 /\ answer.allowed = (acl[index + 1].action = "ALLOW")
      BY <2>3 DEF Found
    <3>5. QED
      BY <3>1, <3>3, <3>4
  <2>4. CASE index = Len(acl) /\ Denied
    BY <1>1, <2>1, <2>2, <2>4 DEF SearchInv, Unmatched, Denied
  <2>5. QED
    BY <1>1, <2>3, <2>4 DEF SearchInv
<1>2. SearchInv => ExactForOnePacket
  BY <1>1 DEF ExactForOnePacket
<1>3. QED
  BY <1>2, SearchInvariant, PTL

\* A rule that is named answers for every packet asked about, unless a rule of
\* the other action before it takes some of them.
THEOREM GroupsCorrect == Spec => []RuleAnswersForAll
<1>1. ASSUME SearchInv, answered, answer.rule # 0
      PROVE  LET rules == SeenAs
                 action == acl[answer.rule].action
             IN  \/ Asked \subseteq Decided(rules, DOMAIN acl, action)
                 \/ \E k \in 1 .. (answer.rule - 1) :
                       acl[k].action = Opposite(action) /\ Overlaps(Asked, rules[k].pred)
  <2> DEFINE named == answer.rule
  <2>1. index \in Nat /\ Len(acl) \in Nat /\ DOMAIN acl = 1 .. Len(acl)
    BY <1>1, Positions
  <2>2. index < Len(acl) /\ Contains(index + 1) /\ named = index + 1
    BY <1>1 DEF SearchInv, Found, Denied
  <2>3. named \in DOMAIN acl /\ Asked \subseteq SeenAs[named].pred
    BY <1>1, <2>1, <2>2, ContainsExact
  <2> SUFFICES ASSUME NEW p \in Asked,
                      \A k \in 1 .. (named - 1) :
                         acl[k].action = Opposite(acl[named].action) => ~Overlaps(Asked, SeenAs[k].pred)
               PROVE  p \in Decided(SeenAs, DOMAIN acl, acl[named].action)
    OBVIOUS
  <2> DEFINE matches == {k \in DOMAIN acl : p \in SeenAs[k].pred}
  <2>4. named \in matches /\ matches \in SUBSET Nat
    BY <2>1, <2>3
  <2>5. PICK first \in matches : \A k \in matches : first <= k
    BY <2>4, LeastNatural
  <2>6. p \in Packet
    BY DEF Asked, Blurred
  <2>7. FirstMatch(SeenAs, DOMAIN acl, first, p)
    BY <2>1, <2>5 DEF FirstMatch
  <2>8. acl[first].action = acl[named].action
    <3>1. CASE first = named
      BY <3>1
    <3>2. CASE first # named
      <4>1. first \in 1 .. (named - 1) /\ Overlaps(Asked, SeenAs[first].pred)
        BY <2>1, <2>4, <2>5, <3>2 DEF Overlaps, IsDisjoint
      <4>2. acl[first].action # Opposite(acl[named].action)
        BY <4>1
      <4>3. acl[first].action \in RuleAction /\ acl[named].action \in RuleAction
        BY <1>1, <2>3, <2>5, RulesOfAcl DEF SearchInv
      <4>4. QED
        BY <4>2, <4>3 DEF Opposite, RuleAction
    <3>3. QED
      BY <3>1, <3>2
  <2>9. QED
    BY <1>1, <2>5, <2>6, <2>7, <2>8, SeenActions DEF Decided
<1>2. SearchInv => RuleAnswersForAll
  BY <1>1 DEF RuleAnswersForAll
<1>3. QED
  BY <1>2, SearchInvariant, PTL
=============================================================================
