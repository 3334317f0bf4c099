----------------------------- MODULE MCAnomaly -----------------------------
(***************************************************************************)
(* Bounded instance of AnomalyCorrectness: every policy of at most         *)
(* MaxRules rules over every predicate on the packets of the cfg.  Ids run *)
(* against the policy order, so that an id is never mistaken for a place.  *)
(***************************************************************************)
EXTENDS AnomalyCorrectness, TLC

CONSTANT MaxRules

ShortRules == [action : RuleAction, pred : Bddnode]
WithIds(rules) == [k \in DOMAIN rules |->
    [id |-> 10 - k, action |-> rules[k].action, pred |-> rules[k].pred]]
MCAcls == {WithIds(rules) : rules \in UNION {[1 .. n -> ShortRules] : n \in 0 .. MaxRules}}

PacketSymmetry == Permutations(Packet)
=============================================================================
