----------------------------- MODULE PacketTest -----------------------------
(***************************************************************************)
(* PacketTester::is_packet_allowed: the rules are searched for the first   *)
(* one that matches everything the test describes.  One step is one        *)
(* iteration of the loop.                                                  *)
(*                                                                         *)
(* A test may describe many packets: its addresses and services are        *)
(* groups.  The zones may be left out, and so may the applications and     *)
(* users (the command line never gives them).                              *)
(***************************************************************************)
EXTENDS Predicates

CONSTANTS
    NoZone,     \* the null pointer given for a zone
    Acls,       \* the access control lists that may be searched
    Tests       \* the tests that may be asked

FirewallRule == [action : RuleAction, predicate : Predicate]

\* An empty set of applications or users stands for the null pointer.
Test == [src_zone : Zone \cup {NoZone}, src_addresses : SUBSET Address,
         dst_zone : Zone \cup {NoZone}, dst_addresses : SUBSET Address,
         services : SUBSET Service, applications : SUBSET Application, users : SUBSET User]

ASSUME PacketTestAssumption ==
    /\ NoZone \notin Zone
    /\ Acls \subseteq Seq(FirewallRule)
    /\ \A rules \in Acls : \A k \in DOMAIN rules : WellFormed(rules[k].predicate)
    /\ Tests \subseteq Test
    /\ \A t \in Tests : t.src_addresses # {} /\ t.dst_addresses # {} /\ t.services # {}

VARIABLES
    acl,        \* PacketTester::_acl
    test,       \* the arguments of the call
    index,      \* the number of rules passed over
    answered,   \* whether the call has returned
    answer      \* the returned pair, the rule by its position (0: nullptr)

vars == <<acl, test, index, answered, answer>>

Answer == [allowed : BOOLEAN, rule : Nat]
NoAnswer == [allowed |-> FALSE, rule |-> 0]

TypeOK ==
    /\ acl \in Seq(FirewallRule)
    /\ test \in Test
    /\ index \in 0 .. Len(acl)
    /\ answered \in BOOLEAN
    /\ answer \in Answer
    /\ ~answered => answer = NoAnswer
    /\ answer.rule \in {0, index + 1} /\ answer.rule <= Len(acl)

Init ==
    /\ acl \in Acls
    /\ test \in Tests
    /\ index = 0
    /\ answered = FALSE
    /\ answer = NoAnswer

\* Variants with a mistake, as in AnomalyAnalyzer.
BugBddOptionsNoDestination(t) ==
    {o \in BddOption :
        \/ o = "SourceZone" /\ t.src_zone # NoZone
        \/ o = "Application" /\ t.applications # {}
        \/ o = "User" /\ t.users # {}}

BddOptions(t) ==
    {o \in BddOption :
        \/ o = "SourceZone" /\ t.src_zone # NoZone
        \/ o = "DestinationZone" /\ t.dst_zone # NoZone
        \/ o = "Application" /\ t.applications # {}
        \/ o = "User" /\ t.users # {}}

TestPredicate(t) ==
    [src_zones |-> IF t.src_zone = NoZone THEN Zone ELSE {t.src_zone},
     src_addresses |-> t.src_addresses, negate_src |-> FALSE,
     dst_zones |-> IF t.dst_zone = NoZone THEN Zone ELSE {t.dst_zone},
     dst_addresses |-> t.dst_addresses, negate_dst |-> FALSE,
     services |-> t.services, app_services |-> FALSE,
     applications |-> IF t.applications = {} THEN {AnyApplication} ELSE t.applications,
     use_app_svc |-> FALSE,
     users |-> IF t.users = {} THEN User ELSE t.users]

TestBdd == MakeBddWith(TestPredicate(test), BddOptions(test))

BugContainsOverlaps(k) ==
    Overlaps(TestBdd, MakeBddWith(acl[k].predicate, BddOptions(test)))

\* Is the traffic defined by the test predicate accepted by this rule?
Contains(k) == IsSubset(TestBdd, MakeBddWith(acl[k].predicate, BddOptions(test)))

NextRule ==
    /\ ~answered /\ index < Len(acl)
    /\ ~Contains(index + 1)
    /\ index' = index + 1
    /\ UNCHANGED <<acl, test, answered, answer>>

ReturnRule ==
    /\ ~answered /\ index < Len(acl)
    /\ Contains(index + 1)
    /\ answered' = TRUE
    /\ answer' = [allowed |-> acl[index + 1].action = "ALLOW", rule |-> index + 1]
    /\ UNCHANGED <<acl, test, index>>

ReturnDenied ==
    /\ ~answered /\ index = Len(acl)
    /\ answered' = TRUE
    /\ answer' = [allowed |-> FALSE, rule |-> 0]
    /\ UNCHANGED <<acl, test, index>>

Next == NextRule \/ ReturnRule \/ ReturnDenied

Spec == Init /\ [][Next]_vars

-----------------------------------------------------------------------------
(***************************************************************************)
(* The reference: the packets asked about and what every rule matches of   *)
(* them, computed from the full diagrams and blurred afterwards.           *)
(***************************************************************************)
FieldsGiven ==
    {"src_address", "dst_address", "service"}
        \cup (IF test.src_zone # NoZone THEN {"src_zone"} ELSE {})
        \cup (IF test.dst_zone # NoZone THEN {"dst_zone"} ELSE {})
        \cup (IF test.applications # {} THEN {"application"} ELSE {})
        \cup (IF test.users # {} THEN {"user"} ELSE {})

Asked == Blurred(MakeBdd(TestPredicate(test)), FieldsGiven)
SeenAs == [k \in DOMAIN acl |->
              [action |-> acl[k].action,
               pred |-> Blurred(MakeBdd(acl[k].predicate), FieldsGiven)]]

(***************************************************************************)
(* Leaving a field out of the diagram of a rule is the same as not caring  *)
(* for its value: a rule on applications with "app-default" services still *)
(* stands for their default services.                                      *)
(***************************************************************************)
DiagramsBlur ==
    ~answered /\ index < Len(acl) =>
        MakeBddWith(acl[index + 1].predicate, BddOptions(test)) =
            Blurred(MakeBdd(acl[index + 1].predicate), FieldsGiven)

\* A test about one packet, as far as the fields it gives are concerned.
OnePacket ==
    LET views == {View(p, FieldsGiven) : p \in Asked}
    IN  \A v, w \in views : v = w

(***************************************************************************)
(* For one packet the answer is the one of first-match evaluation: the     *)
(* rule named is the one that decides it, and no rule is named exactly     *)
(* when no rule matches it.                                                *)
(***************************************************************************)
ExactForOnePacket ==
    answered /\ OnePacket =>
        LET rules == SeenAs IN
        \A p \in Asked :
            \/ answer.rule \in DOMAIN acl
               /\ FirstMatch(rules, DOMAIN acl, answer.rule, p)
               /\ answer.allowed = (acl[answer.rule].action = "ALLOW")
            \/ answer = [allowed |-> FALSE, rule |-> 0] /\ p \in Unmatched(rules, DOMAIN acl)

(***************************************************************************)
(* For many packets, an answer that names a rule holds for each of them    *)
(* unless a rule of the other action stands before it and takes some.      *)
(***************************************************************************)
RuleAnswersForAll ==
    answered /\ answer.rule # 0 =>
        LET rules == SeenAs
            action == acl[answer.rule].action
        IN  \/ Asked \subseteq Decided(rules, DOMAIN acl, action)
            \/ \E k \in 1 .. (answer.rule - 1) :
                  acl[k].action = Opposite(action) /\ Overlaps(Asked, rules[k].pred)
=============================================================================
