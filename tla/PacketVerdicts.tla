--------------------------- MODULE PacketVerdicts ---------------------------
(***************************************************************************)
(* What the anomaly analysis promises, one packet at a time: the policy is *)
(* walked rule by rule, the first rule that matches a packet settles its   *)
(* verdict for good, and a rule is useless when every packet it matches    *)
(* was settled before it.  There are no diagrams and no sets A, D and R    *)
(* here; AnomalyAnalyzer implements this module.                           *)
(***************************************************************************)
EXTENDS Naturals, Sequences

CONSTANTS Packet, Acls

VARIABLES
    policy,     \* the rules, in order
    seen,       \* the number of rules walked
    verdict,    \* verdict[p]: "none" until a rule decides packet p
    useless,    \* the walked rules that decide no packet they match
    outcome     \* what the analysis finally says

pvars == <<policy, seen, verdict, useless, outcome>>

PInit ==
    /\ policy \in Acls
    /\ seen = 0
    /\ verdict = [p \in Packet |-> "none"]
    /\ useless = {}
    /\ outcome = "pending"

\* The closing rule that denies everything is never called useless.
Closing(k) == k = Len(policy) /\ policy[k].action = "DENY" /\ policy[k].pred = Packet

Walk ==
    /\ outcome = "pending" /\ seen < Len(policy)
    /\ LET k == seen + 1
           matched == policy[k].pred
       IN  /\ verdict' = [p \in Packet |-> IF p \in matched /\ verdict[p] = "none"
                                           THEN policy[k].action ELSE verdict[p]]
           /\ IF ~Closing(k) /\ matched # {} /\ \A p \in matched : verdict[p] # "none"
              THEN useless' = useless \cup {k}
              ELSE useless' = useless
           /\ seen' = k
    /\ UNCHANGED <<policy, outcome>>

Conclude ==
    /\ outcome = "pending" /\ seen = Len(policy)
    /\ outcome' = IF \E p \in Packet : verdict[p] = "none"
                  THEN "deny all missing" ELSE "complete"
    /\ UNCHANGED <<policy, seen, verdict, useless>>

\* Nothing is reported of an analysis given up.
GiveUp ==
    /\ outcome = "pending" /\ seen < Len(policy)
    /\ outcome' = "given up"
    /\ useless' = {}
    /\ UNCHANGED <<policy, seen, verdict>>

PNext == Walk \/ Conclude \/ GiveUp

PSpec == PInit /\ [][PNext]_pvars
=============================================================================
