---------------------------- MODULE PoolResolver ----------------------------
(***************************************************************************)
(* GenericResolver::resolve: the nested members of a pool are listed by a  *)
(* depth-first traversal that keeps its place in a stack of pools and      *)
(* throws when a pool contains itself.  One step is one iteration of the   *)
(* while loop.                                                             *)
(***************************************************************************)
EXTENDS ObjectStore

CONSTANTS
    Names,          \* the names used in the files of the store
    Dictionaries    \* the contents of the two dictionaries

ASSUME DictionariesAssumption ==
    \A dict \in Dictionaries :
       /\ dict.objects \subseteq Names
       /\ DOMAIN dict.pools \subseteq Names /\ IsFiniteSet(DOMAIN dict.pools)
       /\ \A pool \in DOMAIN dict.pools : dict.pools[pool] \in Seq(Names)

VARIABLES
    objects, pools, \* ObjectDictionary<O>, ObjectDictionary<P>
    root,           \* the pool to resolve
    chain,          \* the stack: the pools being traversed, and how many of
                    \* their members have been taken
    visited,        \* the pools of the chain, without the root
    expanded,       \* PoolMembers: objects and pools found so far
    unresolved,     \* the names that are neither
    status          \* "running", "returned", or "loop": the exception

vars == <<objects, pools, root, chain, visited, expanded, unresolved, status>>
dictionary == <<objects, pools, root>>

Members(pool) == pools[pool]

TypeOK ==
    /\ objects \in SUBSET Names
    /\ root \in DOMAIN pools
    /\ DOMAIN pools \subseteq Names
    /\ \A pool \in DOMAIN pools : pools[pool] \in Seq(Names)
    /\ chain \in Seq([pool : DOMAIN pools, taken : Nat])
    /\ \A i \in DOMAIN chain : chain[i].taken <= Len(Members(chain[i].pool))
    /\ visited \in SUBSET DOMAIN pools
    /\ expanded \in Seq([type : {"object", "pool"}, name : Names])
    /\ unresolved \in Seq(Names)
    /\ status \in {"running", "returned", "loop"}

Init ==
    /\ \E dict \in Dictionaries : objects = dict.objects /\ pools = dict.pools
    /\ root \in DOMAIN pools \ objects   \* an object of that name is used instead
    /\ chain = <<[pool |-> root, taken |-> 0]>>
    /\ visited = {}
    /\ expanded = <<>>
    /\ unresolved = <<>>
    /\ status = "running"

Traversing == status = "running" /\ chain # <<>>
Top == Last(chain)
Exhausted == Top.taken = Len(Members(Top.pool))
NextName == Members(Top.pool)[Top.taken + 1]

TopTaken == [chain EXCEPT ![Len(chain)].taken = @ + 1]

TakeObject ==
    /\ Traversing /\ ~Exhausted
    /\ NextName \in objects
    /\ chain' = TopTaken
    /\ expanded' = Append(expanded, Entry("object", NextName))
    /\ UNCHANGED <<dictionary, visited, unresolved, status>>

NestedPool == NextName \notin objects /\ NextName \in DOMAIN pools

\* Variants with a mistake, as in AnomalyAnalyzer.
\* The pool is listed on the way down.
BugEnterPool ==
    /\ Traversing /\ ~Exhausted
    /\ NestedPool /\ NextName \notin visited
    /\ visited' = visited \cup {NextName}
    /\ chain' = Append(TopTaken, [pool |-> NextName, taken |-> 0])
    /\ expanded' = Append(expanded, Entry("pool", NextName))
    /\ UNCHANGED <<dictionary, unresolved, status>>

EnterPool ==
    /\ Traversing /\ ~Exhausted
    /\ NestedPool /\ NextName \notin visited
    /\ visited' = visited \cup {NextName}
    /\ chain' = Append(TopTaken, [pool |-> NextName, taken |-> 0])
    /\ UNCHANGED <<dictionary, expanded, unresolved, status>>

\* The loop is noticed, and the traversal goes on where it was.
BugDetectLoop ==
    /\ Traversing /\ ~Exhausted
    /\ NestedPool /\ NextName \in visited
    /\ UNCHANGED vars

DetectLoop ==
    /\ Traversing /\ ~Exhausted
    /\ NestedPool /\ NextName \in visited
    /\ status' = "loop"
    /\ UNCHANGED <<dictionary, chain, visited, expanded, unresolved>>

\* A name that is neither an object nor a pool is dropped without a word.
BugSkipUnknown ==
    /\ Traversing /\ ~Exhausted
    /\ NextName \notin objects \cup DOMAIN pools
    /\ chain' = TopTaken
    /\ UNCHANGED <<dictionary, visited, expanded, unresolved, status>>

SkipUnknown ==
    /\ Traversing /\ ~Exhausted
    /\ NextName \notin objects \cup DOMAIN pools
    /\ chain' = TopTaken
    /\ unresolved' = Append(unresolved, NextName)
    /\ UNCHANGED <<dictionary, visited, expanded, status>>

\* A pool that is left stays in the set of visited pools.
BugLeavePool ==
    /\ Traversing /\ Exhausted
    /\ expanded' = Append(expanded, Entry("pool", Top.pool))
    /\ chain' = Front(chain)
    /\ UNCHANGED <<dictionary, visited, unresolved, status>>

LeavePool ==
    /\ Traversing /\ Exhausted
    /\ expanded' = Append(expanded, Entry("pool", Top.pool))
    /\ visited' = visited \ {Top.pool}
    /\ chain' = Front(chain)
    /\ UNCHANGED <<dictionary, unresolved, status>>

Return ==
    /\ status = "running" /\ chain = <<>>
    /\ status' = "returned"
    /\ UNCHANGED <<dictionary, chain, visited, expanded, unresolved>>

Next ==
    \/ TakeObject
    \/ EnterPool
    \/ DetectLoop
    \/ SkipUnknown
    \/ LeavePool
    \/ Return

\* The loop runs in one thread and waits for nothing.
Spec == Init /\ [][Next]_vars /\ WF_vars(Next)

(***************************************************************************)
(* What the traversal is for, in terms of the nesting of pools only.       *)
(***************************************************************************)
Opens(name) == name \in DOMAIN pools \ objects
ClosedUnderMembers(S) ==
    \A name \in S : Opens(name) => \A i \in DOMAIN Members(name) : Members(name)[i] \in S

\* The names reached from a pool through any number of nested pools: the least
\* closed set with the members of the pool.
ReachableFrom(pool) ==
    {name \in Names :
       \A S \in SUBSET Names :
          ClosedUnderMembers(S) /\ Range(Members(pool)) \subseteq S => name \in S}

ContainsItself(pool) == pool \in ReachableFrom(pool) /\ Opens(pool)
LoopReachable == \E pool \in {root} \cup ReachableFrom(root) : Opens(pool) /\ ContainsItself(pool)

(***************************************************************************)
(* A pool that is resolved without an error has given exactly its nested   *)
(* objects and pools, each name that is neither is reported, and no pool   *)
(* was refused or lost because it is used twice (genericresolver.h,        *)
(* resolve).                                                               *)
(***************************************************************************)
ResolutionExact ==
    status = "returned" =>
        /\ NamesOf(expanded, "object") = ReachableFrom(root) \cap objects
        /\ NamesOf(expanded, "pool") = {root} \cup {n \in ReachableFrom(root) : Opens(n)}
        /\ Range(unresolved) = ReachableFrom(root) \ (objects \cup DOMAIN pools)

\* The exception is thrown if and only if some pool reached from the root
\* contains itself, wherever the loop is and whatever is visited before it
\* (genericresolver.h, "detect loops in nested pools").
LoopExact ==
    /\ status = "loop" => LoopReachable
    /\ status = "returned" => ~LoopReachable

\* The groups of the network are built in the order of the list and look their
\* members up: a pool must come after all its members (network.cpp, "It is
\* assumed that members have been registered before calling this method").
MembersBeforePool ==
    \A k \in DOMAIN expanded : expanded[k].type = "pool" =>
        \A name \in Range(Members(expanded[k].name)) \cap (objects \cup DOMAIN pools) :
            \E j \in 1..(k - 1) : expanded[j].name = name

\* The loader's modules use the traversal as one function: it is this loop.
TraversalIsLoop ==
    LET entries == Traversal(objects, pools)[root] IN
    /\ status = "returned" => ~HasLoop(entries) /\ expanded = Expanded(entries)
                              /\ Range(unresolved) = NamesOf(entries, "unresolved")
    /\ status = "loop" => HasLoop(entries)

\* Nested pools, in a loop or not, never keep the loader busy for ever.
ResolverEnds == <>(status # "running")
=============================================================================
