---------------------------- MODULE NamedPolicies ----------------------------
(***************************************************************************)
(* What the firewall commands promise: policies under distinct names, one  *)
(* of which is the active one.  Only the active policy ever changes: it is *)
(* emptied, takes the next row of a file it is the beginning of, or the    *)
(* status of one of its rules is set.                                      *)
(***************************************************************************)
EXTENDS Sequences, Functions

CONSTANTS
    Names,          \* names of firewalls
    Contents        \* the rows of the files that can be loaded

VARIABLES policies, active

policyVars == <<policies, active>>

With(name, rows) ==
    [n \in DOMAIN policies \cup {name} |-> IF n = name THEN rows ELSE policies[n]]

Init ==
    /\ policies = [name \in {"default"} |-> <<>>]
    /\ active = "default"

Create(name) ==
    /\ name \notin DOMAIN policies
    /\ policies' = With(name, <<>>)
    /\ active' = name

Delete(name) ==
    /\ name \in DOMAIN policies \ {active}
    /\ policies' = Restrict(policies, DOMAIN policies \ {name})
    /\ UNCHANGED active

Select(name) ==
    /\ name \in DOMAIN policies
    /\ active' = name
    /\ UNCHANGED policies

Copy(name) ==
    /\ name \notin DOMAIN policies
    /\ policies' = With(name, policies[active])
    /\ UNCHANGED active

Clear ==
    /\ policies' = [policies EXCEPT ![active] = <<>>]
    /\ UNCHANGED active

Grow ==
    /\ \E rows \in Contents :
          \E n \in DOMAIN rows :
             /\ policies[active] = SubSeq(rows, 1, n - 1)
             /\ policies' = [policies EXCEPT ![active] = SubSeq(rows, 1, n)]
    /\ UNCHANGED active

Changed(rule, status) == [rule EXCEPT !.enabled = status]

SetStatus ==
    /\ \E k \in DOMAIN policies[active] : \E status \in BOOLEAN :
          policies' = [policies EXCEPT ![active][k] = Changed(@, status)]
    /\ UNCHANGED active

Next ==
    \/ \E name \in Names : Create(name) \/ Delete(name) \/ Select(name) \/ Copy(name)
    \/ Clear
    \/ Grow
    \/ SetStatus

Spec == Init /\ [][Next]_policyVars
=============================================================================
