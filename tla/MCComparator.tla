---------------------------- MODULE MCComparator ----------------------------
(***************************************************************************)
(* Bounded instance of PolicyComparator: every pair of lists of at most    *)
(* MaxRules rules, enabled or not.                                         *)
(***************************************************************************)
EXTENDS PolicyComparator, TLC

CONSTANT MaxRules

MCRuleLists == UNION {[1 .. n -> ListedRule] : n \in 0 .. MaxRules}

PacketSymmetry == Permutations(Packet)
=============================================================================
