------------------------- MODULE AnomalyCorrectness -------------------------
(***************************************************************************)
(* What makes AnomalyAnalyzer correct, stated against the first-match      *)
(* semantics of PolicyModel, and its implementation of PacketVerdicts.     *)
(***************************************************************************)
EXTENDS AnomalyAnalyzer

Checked == {k \in 1 .. index : ~IsFinalDenyAll(k)}

\* The anomaly reported on rule k: a set of at most one record.
AnomaliesOf(k) == {a \in anomalies : a.rule = k}

\* The three classes analyze_fully_masked_rule can return.
SaysFullyMasked(a) ==
    \/ a.type \in {"Shadowing", "RedundancyOrCorrelation"}
    \/ a.type = "Redundancy" /\ a.scope = "FullyMaskedRule"

MaskedRules == {a.rule : a \in {b \in anomalies : SaysFullyMasked(b)}}

\* The packets of rule k decided by an earlier rule with that action.
TakenBy(k, action) == acl[k].pred \cap Decided(acl, 1 .. (k - 1), action)

NamedPackets(rules) == UNION {acl[j].pred : j \in rules}

-----------------------------------------------------------------------------
(***************************************************************************)
(* At every point of the pass A, D and R are the packets that first-match  *)
(* evaluation of the rules walked so far accepts, denies and leaves        *)
(* undecided (State::update adds R inter P and recomputes R from I).       *)
(***************************************************************************)
StateIsFirstMatch ==
    /\ A = Decided(acl, 1 .. index, "ALLOW")
    /\ D = Decided(acl, 1 .. index, "DENY")
    /\ R = Unmatched(acl, 1 .. index)

(***************************************************************************)
(* check_rule calls a rule fully masked exactly when the rule matches some *)
(* packet and decides none, whatever combination of rules hides it.  The   *)
(* anomalies of an interrupted pass are lost, so there is nothing to say   *)
(* of them.                                                                *)
(***************************************************************************)
MaskedIffDecidesNothing ==
    status # "interrupted" =>
        MaskedRules = {k \in Checked : acl[k].pred # {} /\ Effective(acl, 1 .. index, k) = {}}

(***************************************************************************)
(* A shadowed rule never gets its way: all its packets get the opposite    *)
(* action, and the rules named as shadowing it cover all of them.          *)
(***************************************************************************)
ShadowedGetsOpposite ==
    \A a \in anomalies : a.type = "Shadowing" =>
        /\ acl[a.rule].pred \subseteq
               Decided(acl, 1 .. index, Opposite(acl[a.rule].action)) \cap NamedPackets(a.rules)
        /\ \A j \in a.rules : acl[j].action = Opposite(acl[a.rule].action)

(***************************************************************************)
(* The fully masked rules can be deleted, all of them at once, and no      *)
(* packet gets another decision.                                           *)
(***************************************************************************)
MaskedRulesRemovable ==
    SameDecisions(acl, 1 .. index, (1 .. index) \ MaskedRules)

(***************************************************************************)
(* A conflict is never silent: when an earlier rule took some packet of a  *)
(* checked rule and gave it the opposite action, the rule is reported.     *)
(* (The silent exit of analyze_partially_masked_rule is only reached by    *)
(* rules that agree with all that was decided before.)                     *)
(***************************************************************************)
ConflictsReported ==
    status # "interrupted" =>
        \A k \in Checked :
            TakenBy(k, Opposite(acl[k].action)) # {} => AnomaliesOf(k) # {}

(***************************************************************************)
(* The lists an anomaly names are its evidence: for the classes built with *)
(* find_overlaping they contain every rule that took a packet of the rule, *)
(* and so cover all the packets the message speaks of.                     *)
(***************************************************************************)
Explains(a) ==
    LET k == a.rule
        same == TakenBy(k, acl[k].action)
        other == TakenBy(k, Opposite(acl[k].action))
    IN  /\ a.type = "Correlation" => other # {} /\ other \subseteq NamedPackets(a.rules)
        /\ a.type = "RedundancyOrCorrelation" =>
              /\ same # {} /\ same \subseteq NamedPackets(a.rules)
              /\ other # {} /\ other \subseteq NamedPackets(a.correlated)
        /\ a.type = "Redundancy" =>
              /\ same # {}
              /\ a.scope = "FullyMaskedRule" =>
                    other = {} /\ acl[k].pred \subseteq NamedPackets(a.rules)

NamedRulesExplain == \A a \in anomalies : Explains(a)

(***************************************************************************)
(* A rule that gets no anomaly and is not an empty node decides at least   *)
(* one packet, and every packet of it gets the action it asks for.         *)
(***************************************************************************)
SilenceMeansObeyed ==
    status # "interrupted" =>
        \A k \in Checked :
            AnomaliesOf(k) = {} =>
                /\ acl[k].pred \subseteq Decided(acl, 1 .. index, acl[k].action)
                /\ acl[k].pred # {} => Effective(acl, 1 .. index, k) # {}

(***************************************************************************)
(* The warning "a deny all rule is missing" is given exactly when some     *)
(* packet matches no rule at all, whether or not the last rule is the      *)
(* literal deny-all.                                                       *)
(***************************************************************************)
MissingDenyAllExact ==
    status = "done" =>
        missing_deny_all = (Unmatched(acl, DOMAIN acl) # {})

-----------------------------------------------------------------------------
(***************************************************************************)
(* Implementation of the abstract walk: a packet's verdict is read from    *)
(* the set it is in, a rule is useless when it is reported fully masked.   *)
(***************************************************************************)
VerdictOf(p) == IF p \in A THEN "ALLOW" ELSE IF p \in D THEN "DENY" ELSE "none"

Outcome == IF status = "running" THEN "pending"
           ELSE IF status = "interrupted" THEN "given up"
           ELSE IF missing_deny_all THEN "deny all missing" ELSE "complete"

Verdicts == INSTANCE PacketVerdicts WITH
    policy <- acl, seen <- index, useless <- MaskedRules, outcome <- Outcome,
    verdict <- [p \in Packet |-> VerdictOf(p)]

\* The analysis with diagrams does what the packet-by-packet walk does.
ImplementsVerdicts == Verdicts!PSpec

(***************************************************************************)
(* The flag of Ctrl+C is read before every rule: once it is pressed no     *)
(* further rule is looked at, and unless all had been the pass ends with   *)
(* nothing reported.                                                       *)
(***************************************************************************)
InterruptHonoured ==
    [][interrupted /\ index < Len(acl) /\ status = "running" =>
          status' = "interrupted" /\ anomalies' = {} /\ index' = index]_vars

-----------------------------------------------------------------------------
(***************************************************************************)
(* Statements of the documentation the code does not keep.                 *)
(***************************************************************************)

\* README.md:84-85: a rule reported as redundant can be removed and the
\* firewall does not change its action on any packet.  For a fully masked
\* rule the redundant rule is the rule itself, for a partially masked one the
\* rules it names ("Rule 1 is redundant with this rule").  In allow {p1},
\* deny {p1,p2}, allow {p1,p3} the third rule names the first one, which keeps
\* p1 from the second.  (Were the second rule inside the third, the third would
\* be reported as a generalization and the search for redundancy not made.)
RedundantRules(a) == IF a.scope = "FullyMaskedRule" THEN {a.rule} ELSE a.rules
RedundantRemovable ==
    \A a \in anomalies : a.type = "Redundancy" =>
        \A k \in RedundantRules(a) : SameDecisions(acl, 1 .. index, (1 .. index) \ {k})
=============================================================================
