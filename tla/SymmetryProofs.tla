--------------------------- MODULE SymmetryProofs ---------------------------
(***************************************************************************)
(* Proofs about SymmetryAnalyzer, for every policy of every set of zones,  *)
(* addresses, services, applications and users.                            *)
(*                                                                         *)
(* The heart is a lemma about Predicates: the diagram of the symmetrical   *)
(* predicate is the one of the predicate with every packet turned round,   *)
(* when both address groups are negated or none is.  The analysis itself   *)
(* keeps the invariant SymmetryInv: the cache tells the truth about every  *)
(* rule, and the pairs found are those among the pairs compared so far.    *)
(***************************************************************************)
EXTENDS SymmetryAnalyzer, TLAPS

Turned(bdd) == {Reverse(p) : p \in bdd}

(***************************************************************************)
(* Turning packets round.                                                  *)
(***************************************************************************)
LEMMA ReverseFields ==
    ASSUME NEW p \in Packet
    PROVE  /\ Reverse(p) \in Packet
           /\ Reverse(p).src_zone = p.dst_zone /\ Reverse(p).dst_zone = p.src_zone
           /\ Reverse(p).src_address = p.dst_address /\ Reverse(p).dst_address = p.src_address
           /\ Reverse(p).service = p.service /\ Reverse(p).application = p.application
           /\ Reverse(p).user = p.user
BY DEF Reverse, Packet

\* The answer to the answer is the packet itself.
LEMMA ReverseTwice ==
    ASSUME NEW p \in Packet
    PROVE  Reverse(Reverse(p)) = p
BY DEF Reverse, Packet

LEMMA TurnedMember ==
    ASSUME NEW bdd \in SUBSET Packet, NEW p \in Packet
    PROVE  p \in Turned(bdd) <=> Reverse(p) \in bdd
BY ReverseFields, ReverseTwice DEF Turned

LEMMA TurnedPackets ==
    ASSUME NEW bdd \in SUBSET Packet
    PROVE  Turned(bdd) \in SUBSET Packet
BY ReverseFields DEF Turned

\* Two diagrams are turned versions of each other, in one direction or the other.
LEMMA TurnedEqual ==
    ASSUME NEW a \in SUBSET Packet, NEW b \in SUBSET Packet
    PROVE  Turned(a) = b <=> a = Turned(b)
<1>1. ASSUME NEW c \in SUBSET Packet
      PROVE  Turned(Turned(c)) = c
  <2>1. \A p \in Packet : p \in Turned(Turned(c)) <=> p \in c
    BY TurnedPackets, TurnedMember, ReverseFields, ReverseTwice
  <2>2. QED
    BY <2>1, TurnedPackets
<1>2. QED
  BY <1>1

(***************************************************************************)
(* Predicates.                                                             *)
(***************************************************************************)
LEMMA MakeBddPackets ==
    ASSUME NEW pred
    PROVE  MakeBdd(pred) \in SUBSET Packet
BY DEF MakeBdd

\* The services of an application rule stay when the predicate is copied: a
\* packet that an application matches has one of its default services.
LEMMA DefaultServiceMatched ==
    ASSUME NEW pred \in Predicate, WellFormed(pred), pred.app_services,
           NEW p \in Packet, NEW node \in pred.applications,
           ApplicationMatches(node, pred.use_app_svc, p)
    PROVE  p.service \in pred.services
<1>1. pred.use_app_svc /\ pred.services = ServicesOf(pred.applications)
  BY DEF WellFormed
<1>2. p.service \in Service /\ p.application \in Application
  BY DEF Packet
<1>3. CASE node = AnyApplication
  BY <1>1, <1>2, <1>3 DEF ServicesOf
<1>4. CASE node # AnyApplication
  <2>1. p.service \in DefaultServices[node]
    BY <1>1, <1>4 DEF ApplicationMatches
  <2>2. QED
    BY <1>1, <1>2, <1>4, <2>1 DEF ServicesOf
<1>5. QED
  BY <1>3, <1>4

LEMMA SymmetricalFields ==
    ASSUME NEW pred \in Predicate
    PROVE  LET sym == Symmetrical(pred) IN
           /\ sym.src_zones = pred.dst_zones /\ sym.dst_zones = pred.src_zones
           /\ sym.src_addresses = pred.dst_addresses /\ sym.dst_addresses = pred.src_addresses
           /\ sym.negate_src = pred.negate_src /\ sym.negate_dst = pred.negate_dst
           /\ sym.services = pred.services /\ sym.app_services = FALSE
           /\ sym.applications = pred.applications /\ sym.use_app_svc = pred.use_app_svc
           /\ sym.users = pred.users
BY DEF Symmetrical, Copy, Predicate

\* What the symmetrical predicate matches is what the predicate matches,
\* turned round (predicate.cpp, symmetrical), "app-default" services included.
THEOREM SymmetricalTurns ==
    ASSUME NEW pred \in Predicate, WellFormed(pred), pred.negate_src = pred.negate_dst
    PROVE  MakeBdd(Symmetrical(pred)) = Turned(MakeBdd(pred))
<1> DEFINE sym == Symmetrical(pred)
<1>1. ASSUME NEW p \in Packet
      PROVE  p \in MakeBdd(sym) <=> Reverse(p) \in MakeBdd(pred)
  <2> DEFINE r == Reverse(p)
  <2>1. r \in Packet
    BY ReverseFields
  <2>2. AddressesMatch(sym, p) <=> AddressesMatch(pred, r)
    BY SymmetricalFields, ReverseFields DEF AddressesMatch, Predicate
  <2>3. \A node \in pred.applications :
            ApplicationMatches(node, sym.use_app_svc, p)
                <=> ApplicationMatches(node, pred.use_app_svc, r)
    BY SymmetricalFields, ReverseFields DEF ApplicationMatches
  <2>4. ASSUME NEW node \in pred.applications, ApplicationMatches(node, pred.use_app_svc, r)
        PROVE  pred.app_services => p.service \in pred.services
    BY <2>1, <2>4, DefaultServiceMatched, ReverseFields
  <2>5. p \in MakeBdd(sym) <=>
            /\ p.src_zone \in pred.dst_zones /\ p.dst_zone \in pred.src_zones
            /\ AddressesMatch(pred, r)
            /\ p.service \in pred.services
            /\ \E node \in pred.applications : ApplicationMatches(node, pred.use_app_svc, r)
            /\ p.user \in pred.users
    BY <2>2, <2>3, SymmetricalFields DEF MakeBdd
  <2>6. r \in MakeBdd(pred) <=>
            /\ p.src_zone \in pred.dst_zones /\ p.dst_zone \in pred.src_zones
            /\ AddressesMatch(pred, r)
            /\ ~pred.app_services => p.service \in pred.services
            /\ \E node \in pred.applications : ApplicationMatches(node, pred.use_app_svc, r)
            /\ p.user \in pred.users
    BY <2>1, ReverseFields DEF MakeBdd
  <2>7. QED
    BY <2>4, <2>5, <2>6
<1>2. QED
  BY <1>1, TurnedMember, TurnedPackets, MakeBddPackets

(***************************************************************************)
(* The analysis.                                                           *)
(***************************************************************************)
SymmetricalBdd(k) == MakeBdd(Symmetrical(acl[k].predicate))

CacheInv ==
    \A k \in DOMAIN acl : acl[k].id \in DOMAIN cache => cache[acl[k].id] = SymmetricalBdd(k)

Identical(j, k) ==
    acl[j].action = acl[k].action /\ MakeBdd(acl[j].predicate) = SymmetricalBdd(k)

\* The pairs compared before the two iterators got where they are.
Compared(j, k) == j < k /\ (j < outer \/ (j = outer /\ k < inner))

PairsInv ==
    /\ status # "interrupted" =>
          \A j, k \in DOMAIN acl :
             <<j, k>> \in symmetrical_rules <=> Compared(j, k) /\ Identical(j, k)
    /\ status = "done" => inner > Len(acl) /\ outer >= Len(acl)

SymmetryInv == acl \in Acls /\ TypeOK /\ CacheInv /\ PairsInv

\* The rules of a list that may be analysed.
LEMMA RulesOfAcl ==
    ASSUME acl \in Acls
    PROVE  /\ acl \in Seq(FirewallRule) /\ Len(acl) \in Nat /\ DOMAIN acl = 1 .. Len(acl)
           /\ UniqueIds(acl)
           /\ \A k \in DOMAIN acl :
                 /\ acl[k].predicate \in Predicate /\ WellFormed(acl[k].predicate)
                 /\ acl[k].id \in Nat
<1>1. acl \in Seq(FirewallRule)
  BY SymmetryAclsAssumption
<1>2. Len(acl) \in Nat /\ DOMAIN acl = 1 .. Len(acl) /\ \A k \in DOMAIN acl : acl[k] \in FirewallRule
  BY <1>1
<1>3. \A rule \in FirewallRule : rule.predicate \in Predicate /\ rule.id \in Nat
  BY DEF FirewallRule
<1>4. QED
  BY <1>1, <1>2, <1>3, SymmetryAclsAssumption

LEMMA InitSymmetry == Init => SymmetryInv
<1> SUFFICES ASSUME Init PROVE SymmetryInv
  OBVIOUS
<1>1. DOMAIN cache = {}
  BY DEF Init
<1>2. CacheInv
  BY <1>1 DEF CacheInv
<1>3. TypeOK
  <2>1. acl \in Seq(FirewallRule) /\ (acl = <<>> \/ outer <= Len(acl))
    BY RulesOfAcl DEF Init
  <2>2. DOMAIN cache \subseteq {acl[k].id : k \in DOMAIN acl}
    BY <1>1
  <2>3. \A id \in DOMAIN cache : cache[id] \in Bddnode
    BY <1>1
  <2>4. /\ outer = 1 /\ inner = 2 /\ symmetrical_rules = {} /\ status = "running"
        /\ interrupted = FALSE
    BY DEF Init
  <2>5. symmetrical_rules \subseteq (DOMAIN acl) \X (DOMAIN acl)
    BY <2>4
  <2>6. 1 <= outer /\ outer < inner /\ inner = outer + 1 /\ outer \in Nat /\ inner \in Nat
    BY <2>4
  <2>7. QED
    BY <2>1, <2>2, <2>3, <2>4, <2>5, <2>6 DEF TypeOK
<1>4. PairsInv
  BY RulesOfAcl DEF Init, PairsInv, Compared
<1>5. QED
  BY <1>2, <1>3, <1>4 DEF Init, SymmetryInv

\* Looking a rule up in the cache, or putting it there.
LEMMA CacheLookup ==
    ASSUME SymmetryInv, inner \in DOMAIN acl, cache' = CacheAfter(acl[inner]), acl' = acl
    PROVE  /\ CacheInv'
           /\ cache'[acl[inner].id] = SymmetricalBdd(inner)
           /\ DOMAIN cache' \subseteq {acl[k].id : k \in DOMAIN acl}
           /\ \A id \in DOMAIN cache' : cache'[id] \in Bddnode
<1> DEFINE new == acl[inner].id
<1>1. CASE new \in DOMAIN cache
  BY <1>1 DEF CacheAfter, SymmetryInv, CacheInv, TypeOK, SymmetricalBdd
<1>2. CASE new \notin DOMAIN cache
  <2>1. /\ DOMAIN cache' = DOMAIN cache \cup {new}
        /\ \A id \in DOMAIN cache : cache'[id] = cache[id]
        /\ cache'[new] = SymmetricalBdd(inner)
    BY <1>2 DEF CacheAfter, SymmetricalBdd
  <2>2. \A k \in DOMAIN acl : acl[k].id = new => k = inner
    BY RulesOfAcl DEF SymmetryInv, UniqueIds
  <2>3. CacheInv'
    BY <2>1, <2>2 DEF SymmetryInv, CacheInv, SymmetricalBdd
  <2>4. SymmetricalBdd(inner) \in Bddnode
    BY MakeBddPackets DEF SymmetricalBdd, Bddnode
  <2>5. QED
    BY <2>1, <2>3, <2>4 DEF SymmetryInv, TypeOK
<1>3. QED
  BY <1>1, <1>2

\* One iteration of the inner loop adds one pair to the compared ones, and to
\* the result if it is symmetrical.
LEMMA StepComparePair ==
    ASSUME SymmetryInv, ComparePair
    PROVE  SymmetryInv'
<1>1. inner \in DOMAIN acl /\ outer \in DOMAIN acl /\ acl # <<>>
  BY RulesOfAcl DEF SymmetryInv, TypeOK, ComparePair
<1>2. /\ CacheInv' /\ cache'[acl[inner].id] = SymmetricalBdd(inner)
      /\ DOMAIN cache' \subseteq {acl[k].id : k \in DOMAIN acl}
      /\ \A id \in DOMAIN cache' : cache'[id] \in Bddnode
  BY <1>1, CacheLookup DEF ComparePair
<1>3. PairFound(acl[outer], acl[inner], cache') <=> Identical(outer, inner)
  BY <1>2 DEF PairFound, Identical
<1>4. symmetrical_rules' = symmetrical_rules \cup
          (IF Identical(outer, inner) THEN {<<outer, inner>>} ELSE {})
  BY <1>3 DEF ComparePair
<1>5. TypeOK'
  BY <1>1, <1>2, <1>4 DEF SymmetryInv, TypeOK, ComparePair
<1>6. PairsInv'
  <2>1. status' = status /\ status = "running" /\ acl' = acl
    BY DEF ComparePair
  <2>2. \A j, k \in DOMAIN acl : Identical(j, k)' <=> Identical(j, k)
    BY <2>1 DEF Identical, SymmetricalBdd
  <2>3. \A j, k \in DOMAIN acl :
            Compared(j, k)' <=> Compared(j, k) \/ (j = outer /\ k = inner)
    BY RulesOfAcl DEF SymmetryInv, TypeOK, ComparePair, Compared
  <2>4. \A j, k \in DOMAIN acl : <<j, k>> \in symmetrical_rules <=> Compared(j, k) /\ Identical(j, k)
    BY <2>1 DEF SymmetryInv, PairsInv
  <2>5. \A j, k \in DOMAIN acl :
            <<j, k>> \in symmetrical_rules'
                <=> <<j, k>> \in symmetrical_rules \/ (j = outer /\ k = inner /\ Identical(j, k))
    BY <1>4
  <2>6. QED
    BY <2>1, <2>2, <2>3, <2>4, <2>5 DEF PairsInv
<1>7. QED
  BY <1>2, <1>5, <1>6 DEF SymmetryInv, ComparePair

\* The outer loop goes on when every pair of its rule has been compared.
LEMMA StepNextRule ==
    ASSUME SymmetryInv, NextRule
    PROVE  SymmetryInv'
<1>1. TypeOK'
  BY RulesOfAcl DEF SymmetryInv, TypeOK, NextRule
<1>2. CacheInv'
  BY DEF SymmetryInv, CacheInv, NextRule, SymmetricalBdd
<1>3. \A j, k \in DOMAIN acl : Compared(j, k)' <=> Compared(j, k)
  BY RulesOfAcl DEF SymmetryInv, TypeOK, NextRule, Compared
<1>4. \A j, k \in DOMAIN acl : Identical(j, k)' <=> Identical(j, k)
  BY DEF Identical, SymmetricalBdd, NextRule
<1>5. PairsInv'
  BY <1>3, <1>4 DEF SymmetryInv, PairsInv, NextRule
<1>6. QED
  BY <1>1, <1>2, <1>5 DEF SymmetryInv, NextRule

LEMMA StepAbort ==
    ASSUME SymmetryInv, Abort
    PROVE  SymmetryInv'
<1>1. inner \in DOMAIN acl
  BY RulesOfAcl DEF SymmetryInv, TypeOK, Abort
<1>2. /\ CacheInv'
      /\ DOMAIN cache' \subseteq {acl[k].id : k \in DOMAIN acl}
      /\ \A id \in DOMAIN cache' : cache'[id] \in Bddnode
  BY <1>1, CacheLookup DEF Abort
<1>3. TypeOK'
  BY <1>2 DEF SymmetryInv, TypeOK, Abort
<1>4. PairsInv'
  BY DEF PairsInv, Abort
<1>5. QED
  BY <1>2, <1>3, <1>4 DEF SymmetryInv, Abort

\* The end of the loops, Ctrl+C, and the steps that change nothing.
LEMMA StepOther ==
    ASSUME SymmetryInv, Finish \/ CtrlC \/ UNCHANGED vars
    PROVE  SymmetryInv'
<1>1. UNCHANGED <<acl, outer, inner, cache, symmetrical_rules>>
  BY DEF Finish, CtrlC, vars
<1>2. TypeOK'
  BY <1>1 DEF SymmetryInv, TypeOK, Finish, CtrlC, vars
<1>3. CacheInv'
  BY <1>1 DEF SymmetryInv, CacheInv, SymmetricalBdd
<1>4. \A j, k \in DOMAIN acl : (Identical(j, k)' <=> Identical(j, k))
                              /\ (Compared(j, k)' <=> Compared(j, k))
  BY <1>1 DEF Identical, SymmetricalBdd, Compared
<1>5. PairsInv'
  BY <1>1, <1>4 DEF SymmetryInv, PairsInv, Finish, CtrlC, vars
<1>6. QED
  BY <1>1, <1>2, <1>3, <1>5 DEF SymmetryInv

LEMMA SymmetryStep ==
    ASSUME SymmetryInv, [Next]_vars
    PROVE  SymmetryInv'
BY StepComparePair, StepNextRule, StepAbort, StepOther DEF Next

LEMMA SymmetryInvariant == Spec => []SymmetryInv
BY InitSymmetry, SymmetryStep, PTL DEF Spec

\* The iterators stay inside the list, the cache holds diagrams of its rules,
\* and the pairs are pairs of its rules (analyzer.cpp, check_symmetry).
THEOREM TypeCorrect == Spec => []TypeOK
<1>1. SymmetryInv => TypeOK
  BY DEF SymmetryInv
<1>2. QED
  BY <1>1, SymmetryInvariant, PTL

\* A cached diagram is the diagram of its rule with every packet turned round
\* (bddcache.cpp and predicate.cpp, symmetrical).
THEOREM CacheCorrect == Spec => []CacheIsSymmetrical
<1>1. SymmetryInv => CacheIsSymmetrical
  BY RulesOfAcl, SymmetricalTurns
     DEF SymmetryInv, CacheInv, SymmetricalBdd, CacheIsSymmetrical, FlagsAgree, Turned
<1>2. QED
  BY <1>1, SymmetryInvariant, PTL

\* The analysis reports the pairs of rules that match the two directions of the
\* same connections, all of them and no others, whatever the policy.
THEOREM PairsCorrect == Spec => []PairsExact
<1>1. ASSUME SymmetryInv, status = "done", NEW j \in DOMAIN acl, NEW k \in DOMAIN acl,
             j < k, FlagsAgree(k)
      PROVE  <<j, k>> \in symmetrical_rules <=> BothWays(j, k)
  <2>1. <<j, k>> \in symmetrical_rules <=> Identical(j, k)
    BY <1>1, RulesOfAcl DEF SymmetryInv, PairsInv, TypeOK, Compared
  <2>2. SymmetricalBdd(k) = Turned(MakeBdd(acl[k].predicate))
    BY <1>1, RulesOfAcl, SymmetricalTurns DEF SymmetryInv, SymmetricalBdd, FlagsAgree
  <2>3. BothWays(j, k) <=> Identical(j, k)
    <3>1. BothWays(j, k) <=>
              acl[j].action = acl[k].action
              /\ Turned(MakeBdd(acl[j].predicate)) = MakeBdd(acl[k].predicate)
      BY DEF BothWays, Turned
    <3>2. QED
      BY <2>2, <3>1, TurnedEqual, MakeBddPackets DEF Identical
  <2>4. QED
    BY <2>1, <2>3
<1>2. SymmetryInv => PairsExact
  BY <1>1 DEF PairsExact
<1>3. QED
  BY <1>2, SymmetryInvariant, PTL
=============================================================================
