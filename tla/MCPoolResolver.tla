--------------------------- MODULE MCPoolResolver ---------------------------
(***************************************************************************)
(* Every nesting of three pools with at most two members each, an object,  *)
(* an unknown name, and a name that may be both an object and a pool.      *)
(***************************************************************************)
EXTENDS PoolResolver

MCPools == {"p", "q", "r"}
MCNames == MCPools \cup {"o", "x"}

\* The order of the members of p and q, and pools of two members, matter.
MCMembers == {<<>>} \cup [1..1 -> MCNames] \cup [1..2 -> MCNames]

MCDictionaries ==
    {[objects |-> objs, pools |-> nesting] :
        objs \in {{"o"}, {"o", "q"}}, nesting \in [MCPools -> MCMembers]}

\* The root is p: the other pools are interchangeable with it.
MCInit == Init /\ root = "p"
MCSpec == MCInit /\ [][Next]_vars /\ WF_vars(Next)
=============================================================================
