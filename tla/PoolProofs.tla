----------------------------- MODULE PoolProofs -----------------------------
(***************************************************************************)
(* Proofs about PoolResolver, for every dictionary of objects and pools,   *)
(* of any size and nested in any way.                                      *)
(*                                                                         *)
(* PoolInv relates the stack to the nesting of the pools (ChainInv), what  *)
(* has been taken of the pools on the stack to what has been listed        *)
(* (TakenInv), and every listed pool to the entries before it (ListInv).   *)
(* What is reachable is a least closed set, so that no induction on the    *)
(* nesting is needed: the names settled so far are shown to be closed.     *)
(*                                                                         *)
(* The last part compares the loop with the function Traversal.  The       *)
(* function is unfolded into its levels; WalkInv says that the lists of    *)
(* the loop report a list of entries that is split between the pools of    *)
(* the stack, each with what the level below gives for its members so far. *)
(***************************************************************************)
EXTENDS PoolResolver, SequenceTheorems, FiniteSetTheorems, WellFoundedInduction, TLAPS

Place == [pool : DOMAIN pools, taken : Nat]
Depth == Len(chain)
Below == [pool \in Names |-> {pool} \cup ReachableFrom(pool)]
Known(name) == name \in objects \cup DOMAIN pools
Listed == {expanded[k].name : k \in DOMAIN expanded}
Settled == {name \in Names : IF Known(name) THEN name \in Listed ELSE name \in Range(unresolved)}

\* The stack goes down from the root, one nested pool at a time, and `visited'
\* is what stands on it above the root.
ChainInv ==
    /\ \A i \in 1 .. Depth : chain[i].pool \notin objects
    /\ Depth >= 1 => chain[1].pool = root
    /\ visited = {chain[i].pool : i \in 2 .. Depth}
    /\ \A i, j \in 2 .. Depth : chain[i].pool = chain[j].pool => i = j
    /\ \A i \in 1 .. (Depth - 1) :
          chain[i].taken >= 1 /\ Members(chain[i].pool)[chain[i].taken] = chain[i + 1].pool
    /\ \A i, j \in 1 .. Depth : i <= j => chain[j].pool \in Below[chain[i].pool]

\* Every member taken is settled, but the pools that are being traversed.
TakenInv ==
    \A i \in 1 .. Depth : \A j \in 1 .. chain[i].taken :
        (i < Depth /\ j = chain[i].taken) \/ Members(chain[i].pool)[j] \in Settled

\* The members of the pool at position k are listed before it, or reported.
Complete(k) ==
    \A name \in Range(Members(expanded[k].name)) :
        IF Known(name) THEN \E j \in 1 .. (k - 1) : expanded[j].name = name
                       ELSE name \in Range(unresolved)

ListInv ==
    /\ \A k \in DOMAIN expanded :
          \/ expanded[k].type = "object" /\ expanded[k].name \in objects \cap Below[root]
          \/ /\ expanded[k].type = "pool" /\ Opens(expanded[k].name)
             /\ expanded[k].name \in Below[root] /\ Complete(k)
    /\ \A k \in DOMAIN unresolved :
          ~Known(unresolved[k]) /\ unresolved[k] \in Below[root]

EndInv ==
    /\ chain = <<>> => root \in Listed
    /\ status = "returned" => chain = <<>>
    /\ status = "loop" => chain # <<>> /\ ~Exhausted /\ NestedPool /\ NextName \in visited

PoolInv == TypeOK /\ root \notin objects /\ ChainInv /\ TakenInv /\ ListInv /\ EndInv

(***************************************************************************)
(* Reachable names.                                                        *)
(***************************************************************************)
LEMMA LeastNatural ==
    ASSUME NEW T \in SUBSET Nat, T # {}
    PROVE  \E m \in T : \A k \in T : m <= k
<1>1. PICK m \in T : \A k \in T : ~(<<k, m>> \in OpToRel(<, Nat))
  BY WFMin, NatLessThanWellFounded
<1>2. \A k \in T : ~(k < m)
  BY <1>1 DEF OpToRel
<1>3. QED
  BY <1>2

\* The members of a pool are reachable from it, and from wherever it is
\* reachable itself.
LEMMA ReachesMembers ==
    ASSUME NEW pool, NEW name \in Range(Members(pool)), name \in Names
    PROVE  name \in ReachableFrom(pool)
BY DEF ReachableFrom

LEMMA ReachesFurther ==
    ASSUME NEW pool, NEW inner \in ReachableFrom(pool), Opens(inner),
           NEW name \in Range(Members(inner)), name \in Names
    PROVE  name \in ReachableFrom(pool)
<1> SUFFICES ASSUME NEW S \in SUBSET Names, ClosedUnderMembers(S), Range(Members(pool)) \subseteq S
             PROVE  name \in S
  BY DEF ReachableFrom
<1>1. inner \in S
  BY DEF ReachableFrom
<1>2. PICK i \in DOMAIN Members(inner) : name = Members(inner)[i]
  BY DEF Range
<1>3. QED
  BY <1>1, <1>2 DEF ClosedUnderMembers

\* What is reachable is inside any closed set that has the members.
LEMMA ReachableLeast ==
    ASSUME NEW pool, NEW S \in SUBSET Names, ClosedUnderMembers(S), Range(Members(pool)) \subseteq S
    PROVE  ReachableFrom(pool) \subseteq S
BY DEF ReachableFrom

LEMMA ReachableNames ==
    ASSUME NEW pool
    PROVE  ReachableFrom(pool) \subseteq Names
BY DEF ReachableFrom

LEMMA MembersAreNames ==
    ASSUME TypeOK, NEW pool \in DOMAIN pools
    PROVE  /\ Members(pool) \in Seq(Names) /\ Range(Members(pool)) \subseteq Names
           /\ Len(Members(pool)) \in Nat /\ DOMAIN Members(pool) = 1 .. Len(Members(pool))
<1>1. Members(pool) \in Seq(Names)
  BY DEF TypeOK, Members
<1>2. \A i \in 1 .. Len(Members(pool)) : Members(pool)[i] \in Names
  BY <1>1, ElementOfSeq
<1>3. QED
  BY <1>1, <1>2, LenProperties DEF Range

\* The dictionaries do not change.
LEMMA DictionaryKept ==
    ASSUME UNCHANGED dictionary
    PROVE  /\ objects' = objects /\ pools' = pools /\ root' = root
           /\ \A name : (Opens(name)' <=> Opens(name)) /\ (Known(name)' <=> Known(name))
           /\ \A pool : Members(pool)' = Members(pool)
           /\ \A pool : ReachableFrom(pool)' = ReachableFrom(pool)
           /\ Below' = Below
<1>1. objects' = objects /\ pools' = pools /\ root' = root
  BY DEF dictionary
<1>2. \A name : (Opens(name)' <=> Opens(name)) /\ (Known(name)' <=> Known(name))
  BY <1>1 DEF Opens, Known
<1>3. \A pool : Members(pool)' = Members(pool)
  BY <1>1 DEF Members
<1>4. ASSUME NEW S \in SUBSET Names
      PROVE  ClosedUnderMembers(S)' <=> ClosedUnderMembers(S)
  BY <1>2, <1>3 DEF ClosedUnderMembers
<1>5. \A pool : ReachableFrom(pool)' = ReachableFrom(pool)
  BY <1>3, <1>4 DEF ReachableFrom
<1>6. QED
  BY <1>1, <1>2, <1>3, <1>5 DEF Below

(***************************************************************************)
(* The stack.                                                              *)
(***************************************************************************)
LEMMA ChainPlaces ==
    ASSUME TypeOK
    PROVE  /\ Depth \in Nat /\ DOMAIN chain = 1 .. Depth
           /\ chain # <<>> => Depth >= 1 /\ Top = chain[Depth]
           /\ \A i \in 1 .. Depth :
                 /\ chain[i] \in Place /\ chain[i].pool \in DOMAIN pools /\ chain[i].taken \in Nat
                 /\ chain[i].taken <= Len(Members(chain[i].pool))
<1>1. chain \in Seq(Place)
  BY DEF TypeOK, Place
<1>2. Depth \in Nat /\ DOMAIN chain = 1 .. Depth /\ (chain # <<>> => Depth \in Nat \ {0})
  BY <1>1, EmptySeq, LenProperties DEF Depth
<1>3. \A i \in 1 .. Depth : chain[i] \in Place
  BY <1>1, ElementOfSeq DEF Depth
<1>4. \A i \in 1 .. Depth : chain[i].taken <= Len(Members(chain[i].pool))
  BY <1>2 DEF TypeOK
<1>5. QED
  BY <1>2, <1>3, <1>4 DEF Place, Top, Last, Depth

\* One more member of the pool on top is taken.
LEMMA TopTakenPlaces ==
    ASSUME TypeOK, chain # <<>>, ~Exhausted
    PROVE  /\ TopTaken \in Seq(Place) /\ Len(TopTaken) = Depth /\ DOMAIN TopTaken = 1 .. Depth
           /\ \A i \in 1 .. Depth :
                 /\ TopTaken[i].pool = chain[i].pool
                 /\ TopTaken[i].taken = IF i = Depth THEN chain[i].taken + 1 ELSE chain[i].taken
                 /\ TopTaken[i].taken <= Len(Members(chain[i].pool))
<1> DEFINE moved == [chain[Depth] EXCEPT !.taken = @ + 1]
<1>1. /\ Depth \in Nat /\ Depth >= 1 /\ DOMAIN chain = 1 .. Depth /\ chain \in Seq(Place)
      /\ Top = chain[Depth]
      /\ chain[Depth] \in Place
  BY ChainPlaces, SMTT(30) DEF TypeOK, Place
<1>2. moved \in Place /\ moved.pool = chain[Depth].pool /\ moved.taken = chain[Depth].taken + 1
  BY <1>1 DEF Place
<1>3. TopTaken = [chain EXCEPT ![Depth] = moved]
  BY DEF TopTaken, Depth
<1> HIDE DEF moved
<1>4. /\ TopTaken \in Seq(Place) /\ Len(TopTaken) = Depth
      /\ \A j \in 1 .. Depth : TopTaken[j] = IF j = Depth THEN moved ELSE chain[j]
  BY <1>1, <1>2, <1>3, ExceptSeq DEF Depth
<1>5. chain[Depth].taken + 1 <= Len(Members(chain[Depth].pool))
  <2>1. /\ chain[Depth].taken \in Nat /\ chain[Depth].taken <= Len(Members(chain[Depth].pool))
        /\ chain[Depth].pool \in DOMAIN pools
    BY <1>1, ChainPlaces
  <2>2. chain[Depth].taken # Len(Members(chain[Depth].pool))
    BY <1>1 DEF Exhausted
  <2>3. Len(Members(chain[Depth].pool)) \in Nat
    BY <2>1, MembersAreNames
  <2>4. QED
    BY <2>1, <2>2, <2>3
<1>6. DOMAIN TopTaken = 1 .. Depth
  BY <1>4, LenProperties
<1>7. QED
  BY <1>1, <1>2, <1>4, <1>5, <1>6, ChainPlaces

\* A pool is put on the stack.
LEMMA EnteredPlaces ==
    ASSUME TypeOK, chain # <<>>, ~Exhausted, NEW fresh \in Place
    PROVE  LET entered == Append(TopTaken, fresh) IN
           /\ entered \in Seq(Place) /\ Len(entered) = Depth + 1 /\ DOMAIN entered = 1 .. (Depth + 1)
           /\ entered[Depth + 1] = fresh
           /\ \A i \in 1 .. Depth :
                 /\ entered[i].pool = chain[i].pool
                 /\ entered[i].taken = IF i = Depth THEN chain[i].taken + 1 ELSE chain[i].taken
                 /\ entered[i].taken <= Len(Members(chain[i].pool))
<1> DEFINE entered == Append(TopTaken, fresh)
<1>1. /\ TopTaken \in Seq(Place) /\ Len(TopTaken) = Depth
      /\ \A i \in 1 .. Depth :
            /\ TopTaken[i].pool = chain[i].pool
            /\ TopTaken[i].taken = IF i = Depth THEN chain[i].taken + 1 ELSE chain[i].taken
            /\ TopTaken[i].taken <= Len(Members(chain[i].pool))
  BY TopTakenPlaces
<1>2. /\ entered \in Seq(Place) /\ Len(entered) = Depth + 1 /\ entered[Depth + 1] = fresh
      /\ \A i \in 1 .. Depth : entered[i] = TopTaken[i]
  BY <1>1, AppendProperties
<1>3. DOMAIN entered = 1 .. (Depth + 1)
  BY <1>2, LenProperties
<1>4. QED
  BY <1>1, <1>2, <1>3

\* The pool on top is taken off the stack.
LEMMA FrontPlaces ==
    ASSUME TypeOK, chain # <<>>
    PROVE  LET n == Depth - 1 IN
           /\ n \in Nat /\ Front(chain) \in Seq(Place) /\ Len(Front(chain)) = n
           /\ DOMAIN Front(chain) = 1 .. n
           /\ \A i \in 1 .. n : i \in 1 .. Depth /\ i # Depth /\ Front(chain)[i] = chain[i]
<1> DEFINE n == Depth - 1
           front == SubSeq(chain, 1, n)
<1>1. Depth \in Nat /\ Depth >= 1 /\ \A i \in 1 .. Depth : chain[i] \in Place
  BY ChainPlaces
<1>2. n \in Nat /\ \A i \in 1 .. n : i \in 1 .. Depth /\ i # Depth
  BY <1>1
<1>3. Front(chain) = front
  BY DEF Front, Depth
<1>4. /\ front \in Seq(Place) /\ Len(front) = IF 1 <= n THEN n - 1 + 1 ELSE 0
      /\ \A i \in 1 .. n - 1 + 1 : front[i] = chain[1 + i - 1]
  <2>1. \A i \in 1 .. n : chain[i] \in Place
    BY <1>1, <1>2
  <2>2. 1 \in Int /\ n \in Int
    BY <1>2
  <2> HIDE DEF n
  <2>3. QED
    BY <2>1, <2>2, SubSeqProperties
<1>5. Len(front) = n /\ \A i \in 1 .. n : front[i] = chain[i]
  BY <1>2, <1>4
<1>6. DOMAIN front = 1 .. n
  BY <1>4, <1>5, LenProperties
<1>7. QED
  BY <1>2, <1>3, <1>4, <1>5, <1>6

\* The next member of the pool on top.
LEMMA NextMember ==
    ASSUME PoolInv, chain # <<>>, ~Exhausted
    PROVE  LET pool == chain[Depth].pool
               n == chain[Depth].taken + 1
           IN  /\ n \in DOMAIN Members(pool) /\ NextName = Members(pool)[n]
               /\ NextName \in Names
               /\ \A i \in 1 .. Depth : NextName \in ReachableFrom(chain[i].pool)
               /\ NextName \in Below[root]
               /\ \A i \in 1 .. Depth : NextName \in Below[chain[i].pool]
<1> DEFINE pool == chain[Depth].pool
           n == chain[Depth].taken + 1
<1>1. TypeOK /\ Depth \in Nat /\ Depth >= 1 /\ Top = chain[Depth] /\ pool \in DOMAIN pools
  BY ChainPlaces DEF PoolInv
<1>2. /\ Len(Members(pool)) \in Nat /\ DOMAIN Members(pool) = 1 .. Len(Members(pool))
      /\ Range(Members(pool)) \subseteq Names
  BY <1>1, MembersAreNames
<1>3. n \in DOMAIN Members(pool)
  <2>1. chain[Depth].taken \in Nat /\ chain[Depth].taken <= Len(Members(pool))
    BY <1>1, ChainPlaces
  <2>2. chain[Depth].taken # Len(Members(pool))
    BY <1>1 DEF Exhausted
  <2>3. QED
    BY <1>2, <2>1, <2>2
<1>4. NextName = Members(pool)[n]
  BY <1>1 DEF NextName
<1>5. NextName \in Range(Members(pool)) /\ NextName \in Names
  BY <1>2, <1>3, <1>4 DEF Range
<1>6. Opens(pool)
  BY <1>1 DEF PoolInv, ChainInv, Opens
<1>7. ASSUME NEW i \in 1 .. Depth
      PROVE  NextName \in ReachableFrom(chain[i].pool)
  <2> DEFINE outer == chain[i].pool
  <2>1. pool \in Below[outer] /\ outer \in Names
    <3>1. outer \in Names
      BY <1>1, <1>7, ChainPlaces DEF TypeOK
    <3>2. \A k, l \in 1 .. Depth : k <= l => chain[l].pool \in Below[chain[k].pool]
      BY DEF PoolInv, ChainInv
    <3>3. i <= Depth /\ Depth \in 1 .. Depth
      BY <1>1, <1>7
    <3>4. QED
      BY <1>7, <3>1, <3>2, <3>3
  <2>2. CASE pool = chain[i].pool
    BY <1>5, <2>2, ReachesMembers
  <2>3. CASE pool \in ReachableFrom(chain[i].pool)
    BY <1>5, <1>6, <2>3, ReachesFurther
  <2>4. QED
    BY <2>1, <2>2, <2>3 DEF Below
<1>8. NextName \in Below[root] /\ \A i \in 1 .. Depth : NextName \in Below[chain[i].pool]
  <2>1. \A i \in 1 .. Depth : chain[i].pool \in Names
    BY <1>1, ChainPlaces DEF TypeOK
  <2>2. \A i \in 1 .. Depth : NextName \in Below[chain[i].pool]
    BY <1>7, <2>1 DEF Below
  <2>3. QED
    BY <1>1, <2>2 DEF PoolInv, ChainInv
<1>9. QED
  BY <1>3, <1>4, <1>5, <1>7, <1>8

(***************************************************************************)
(* What has been listed.                                                   *)
(***************************************************************************)
LEMMA ListTypes ==
    ASSUME TypeOK
    PROVE  /\ Len(expanded) \in Nat /\ DOMAIN expanded = 1 .. Len(expanded)
           /\ Len(unresolved) \in Nat /\ DOMAIN unresolved = 1 .. Len(unresolved)
BY LenProperties DEF TypeOK

\* One more entry at the end of the list.
LEMMA EntryAppended ==
    ASSUME TypeOK, NEW type \in {"object", "pool"}, NEW name \in Names,
           expanded' = Append(expanded, Entry(type, name)), UNCHANGED unresolved,
           UNCHANGED dictionary
    PROVE  LET n == Len(expanded) IN
           /\ expanded' \in Seq([type : {"object", "pool"}, name : Names])
           /\ n \in Nat /\ DOMAIN expanded = 1 .. n /\ DOMAIN expanded' = 1 .. (n + 1)
           /\ \A k \in 1 .. n : expanded'[k] = expanded[k]
           /\ expanded'[n + 1].type = type /\ expanded'[n + 1].name = name
           /\ Settled \subseteq Settled'
           /\ name \in Listed'
           /\ \A k \in 1 .. n : Complete(k) => Complete(k)'
<1> DEFINE n == Len(expanded)
           entry == Entry(type, name)
<1>1. entry \in [type : {"object", "pool"}, name : Names] /\ entry.type = type /\ entry.name = name
  BY DEF Entry
<1>2. n \in Nat /\ DOMAIN expanded = 1 .. n /\ expanded \in Seq([type : {"object", "pool"}, name : Names])
  BY ListTypes DEF TypeOK
<1> HIDE DEF entry
<1>3. /\ expanded' \in Seq([type : {"object", "pool"}, name : Names])
      /\ Len(expanded') = n + 1
      /\ \A k \in 1 .. n : expanded'[k] = expanded[k]
      /\ expanded'[n + 1] = entry
  <2>1. expanded' = Append(expanded, entry)
    BY DEF entry
  <2>2. QED
    BY <1>1, <1>2, <2>1, AppendProperties
<1>4. DOMAIN expanded' = 1 .. (n + 1)
  BY <1>3, LenProperties
<1> HIDE DEF n
<1>5. Listed \subseteq Listed'
  BY <1>2, <1>3, <1>4 DEF Listed
<1>6. Settled \subseteq Settled'
  BY <1>5, DictionaryKept DEF Settled
<1>7. name \in Listed'
  BY <1>1, <1>2, <1>3, <1>4 DEF Listed
<1>8. ASSUME NEW k \in 1 .. n, Complete(k)
      PROVE  Complete(k)'
  <2>1. expanded'[k] = expanded[k] /\ \A j \in 1 .. (k - 1) : expanded'[j] = expanded[j]
    BY <1>2, <1>3
  <2>2. QED
    BY <1>8, <2>1, DictionaryKept DEF Complete
<1>9. QED
  BY <1>1, <1>2, <1>3, <1>4, <1>6, <1>7, <1>8 DEF n

\* One more name that is neither an object nor a pool.
LEMMA NameReported ==
    ASSUME TypeOK, NEW name \in Names, unresolved' = Append(unresolved, name),
           UNCHANGED expanded, UNCHANGED dictionary
    PROVE  LET n == Len(unresolved) IN
           /\ unresolved' \in Seq(Names)
           /\ n \in Nat /\ DOMAIN unresolved' = 1 .. (n + 1) /\ DOMAIN unresolved = 1 .. n
           /\ \A k \in 1 .. n : unresolved'[k] = unresolved[k]
           /\ unresolved'[n + 1] = name
           /\ name \in Range(unresolved')
           /\ Settled \subseteq Settled'
           /\ \A k : Complete(k) => Complete(k)'
<1> DEFINE n == Len(unresolved)
<1>1. n \in Nat /\ DOMAIN unresolved = 1 .. n /\ unresolved \in Seq(Names)
  BY ListTypes DEF TypeOK
<1>2. /\ unresolved' \in Seq(Names) /\ Len(unresolved') = n + 1
      /\ \A k \in 1 .. n : unresolved'[k] = unresolved[k]
      /\ unresolved'[n + 1] = name
  BY <1>1, AppendProperties
<1>3. DOMAIN unresolved' = 1 .. (n + 1)
  BY <1>2, LenProperties
<1> HIDE DEF n
<1>4. Range(unresolved) \subseteq Range(unresolved') /\ name \in Range(unresolved')
  BY <1>1, <1>2, <1>3 DEF Range
<1>5. Settled \subseteq Settled'
  BY <1>4, DictionaryKept DEF Settled, Listed
<1>6. \A k : Complete(k) => Complete(k)'
  BY <1>4, DictionaryKept DEF Complete
<1>7. QED
  BY <1>1, <1>2, <1>3, <1>4, <1>5, <1>6 DEF n

(***************************************************************************)
(* The steps.                                                              *)
(***************************************************************************)
LEMMA InitPool == Init => PoolInv
<1> SUFFICES ASSUME Init PROVE PoolInv
  OBVIOUS
<1>1. PICK dict \in Dictionaries : objects = dict.objects /\ pools = dict.pools
  BY DEF Init
<1>2. /\ objects \in SUBSET Names /\ DOMAIN pools \subseteq Names
      /\ \A pool \in DOMAIN pools : pools[pool] \in Seq(Names)
  BY <1>1, DictionariesAssumption
<1> DEFINE first == [pool |-> root, taken |-> 0]
<1>3. root \in DOMAIN pools /\ root \notin objects
  BY DEF Init
<1>4. first \in Place /\ first.pool = root /\ first.taken = 0
  BY <1>3 DEF Place
<1>5. chain = <<first>> /\ visited = {} /\ expanded = <<>> /\ unresolved = <<>> /\ status = "running"
  BY DEF Init
<1> HIDE DEF first
<1>6. chain \in Seq(Place) /\ Depth = 1 /\ chain[1] = first /\ chain # <<>> /\ DOMAIN chain = {1}
  BY <1>4, <1>5 DEF Depth
<1>7. Len(Members(root)) \in Nat
  BY <1>2, <1>3 DEF Members
<1>8. TypeOK
  <2>1. \A i \in DOMAIN chain : chain[i].taken <= Len(Members(chain[i].pool))
    BY <1>4, <1>6, <1>7
  <2>2. expanded \in Seq([type : {"object", "pool"}, name : Names]) /\ unresolved \in Seq(Names)
    BY <1>5, EmptySeq
  <2>3. chain \in Seq([pool : DOMAIN pools, taken : Nat])
    BY <1>6 DEF Place
  <2>4. visited \in SUBSET DOMAIN pools /\ status \in {"running", "returned", "loop"}
    BY <1>5
  <2>5. QED
    BY <1>2, <1>3, <2>1, <2>2, <2>3, <2>4 DEF TypeOK
<1>9. ChainInv
  <2>1. \A i \in 1 .. Depth : i = 1
    BY <1>6
  <2>2. {chain[i].pool : i \in 2 .. Depth} = {} /\ 2 .. Depth = {} /\ 1 .. (Depth - 1) = {}
    BY <1>6
  <2>3. root \in Names /\ root \in Below[root]
    BY <1>2, <1>3 DEF Below
  <2>4. \A i, j \in 1 .. Depth : i <= j => chain[j].pool \in Below[chain[i].pool]
    BY <1>4, <1>6, <2>1, <2>3
  <2>5. QED
    BY <1>3, <1>4, <1>5, <1>6, <2>1, <2>2, <2>4 DEF ChainInv
<1>10. TakenInv
  BY <1>4, <1>6 DEF TakenInv
<1>11. ListInv
  <2>1. DOMAIN expanded = {} /\ DOMAIN unresolved = {}
    BY <1>5
  <2>2. QED
    BY <2>1 DEF ListInv
<1>12. EndInv
  BY <1>5, <1>6 DEF EndInv
<1>13. QED
  BY <1>3, <1>8, <1>9, <1>10, <1>11, <1>12 DEF PoolInv

\* A member that is no pool is taken: the stack keeps its shape.
LEMMA MemberTaken ==
    ASSUME PoolInv, Traversing, ~Exhausted, chain' = TopTaken, UNCHANGED <<dictionary, visited>>,
           NextName \in Settled', Settled \subseteq Settled'
    PROVE  /\ ChainInv' /\ TakenInv' /\ chain' # <<>>
           /\ chain' \in Seq([pool : DOMAIN pools', taken : Nat])
           /\ \A i \in DOMAIN chain' : chain'[i].taken <= Len(Members(chain'[i].pool))
<1>1. /\ TypeOK /\ chain # <<>> /\ Depth \in Nat /\ Depth >= 1
      /\ objects' = objects /\ pools' = pools /\ root' = root /\ visited' = visited
  BY ChainPlaces, DictionaryKept DEF PoolInv, Traversing
<1>2. /\ chain' \in Seq(Place) /\ Depth' = Depth /\ DOMAIN chain' = 1 .. Depth
      /\ \A i \in 1 .. Depth :
            /\ chain'[i].pool = chain[i].pool
            /\ chain'[i].taken = IF i = Depth THEN chain[i].taken + 1 ELSE chain[i].taken
            /\ chain'[i].taken <= Len(Members(chain[i].pool))
  BY <1>1, TopTakenPlaces DEF Depth
<1>3. \A i \in 1 .. Depth : chain[i].taken \in Nat
  BY <1>1, ChainPlaces
<1>4. ChainInv'
  <2>1. /\ \A i \in 1 .. Depth : chain[i].pool \notin objects
        /\ chain[1].pool = root
        /\ visited = {chain[i].pool : i \in 2 .. Depth}
        /\ \A i, j \in 2 .. Depth : chain[i].pool = chain[j].pool => i = j
        /\ \A i \in 1 .. (Depth - 1) :
              chain[i].taken >= 1 /\ Members(chain[i].pool)[chain[i].taken] = chain[i + 1].pool
        /\ \A i, j \in 1 .. Depth : i <= j => chain[j].pool \in Below[chain[i].pool]
    BY <1>1 DEF PoolInv, ChainInv
  <2>2. \A i \in 2 .. Depth : i \in 1 .. Depth
    BY <1>1
  <2>3. visited' = {chain'[i].pool : i \in 2 .. Depth'}
    BY <1>1, <1>2, <2>1, <2>2
  <2>4. \A i, j \in 1 .. Depth : i <= j => chain'[j].pool \in Below'[chain'[i].pool]
    BY <1>2, <2>1, DictionaryKept
  <2>5. \A i \in 1 .. (Depth - 1) :
            chain'[i].taken >= 1 /\ pools'[chain'[i].pool][chain'[i].taken] = chain'[i + 1].pool
    <3>1. \A i \in 1 .. (Depth - 1) : i \in 1 .. Depth /\ i + 1 \in 1 .. Depth /\ i # Depth
      BY <1>1
    <3>2. QED
      BY <1>1, <1>2, <2>1, <3>1 DEF Members
  <2>6. QED
    BY <1>1, <1>2, <2>1, <2>2, <2>3, <2>4, <2>5 DEF ChainInv, Members
<1>5. TakenInv'
  <2> SUFFICES ASSUME NEW i \in 1 .. Depth, NEW j \in 1 .. chain'[i].taken,
                      ~(i < Depth /\ j = chain'[i].taken)
               PROVE  Members(chain[i].pool)[j] \in Settled'
    BY <1>1, <1>2 DEF TakenInv, Members
  <2>1. CASE j \in 1 .. chain[i].taken
    <3>1. ~(i < Depth /\ j = chain[i].taken)
      BY <1>1, <1>2
    <3>2. Members(chain[i].pool)[j] \in Settled
      BY <2>1, <3>1 DEF PoolInv, TakenInv
    <3>3. QED
      BY <3>2
  <2>2. CASE j \notin 1 .. chain[i].taken
    <3>1. i = Depth /\ j = chain[Depth].taken + 1
      <4>1. i \in Nat /\ j \in Nat /\ chain[i].taken \in Nat
        BY <1>1, <1>2, <1>3
      <4>2. CASE i = Depth
        BY <1>2, <4>1, <4>2, <2>2
      <4>3. CASE i # Depth
        BY <1>2, <4>1, <4>3, <2>2
      <4>4. QED
        BY <4>2, <4>3
    <3>2. Members(chain[i].pool)[j] = NextName
      BY <1>1, <3>1, NextMember
    <3>3. QED
      BY <3>2
  <2>3. QED
    BY <2>1, <2>2
<1>6. chain' # <<>>
  BY <1>1, <1>2
<1>7. QED
  BY <1>1, <1>2, <1>4, <1>5, <1>6, DictionaryKept DEF Place

\* The list is extended with an entry that belongs there.
LEMMA EntryListed ==
    ASSUME PoolInv, NEW type \in {"object", "pool"}, NEW name \in Below[root], name \in Names,
           expanded' = Append(expanded, Entry(type, name)), UNCHANGED <<dictionary, unresolved>>,
           \/ type = "object" /\ name \in objects
           \/ /\ type = "pool" /\ Opens(name)
              /\ \A member \in Range(Members(name)) :
                    IF Known(member) THEN member \in Listed ELSE member \in Range(unresolved)
    PROVE  ListInv'
<1> DEFINE n == Len(expanded)
<1>1. TypeOK /\ ListInv /\ UNCHANGED dictionary /\ UNCHANGED unresolved
  BY DEF PoolInv
<1>2. /\ n \in Nat /\ DOMAIN expanded = 1 .. n /\ DOMAIN expanded' = 1 .. (n + 1)
      /\ \A k \in 1 .. n : expanded'[k] = expanded[k]
      /\ expanded'[n + 1].type = type /\ expanded'[n + 1].name = name
      /\ \A k \in 1 .. n : Complete(k) => Complete(k)'
  BY <1>1, EntryAppended
<1>3. objects' = objects /\ root' = root /\ Below' = Below /\ unresolved' = unresolved
  BY <1>1, DictionaryKept
<1> HIDE DEF n
<1>4. ASSUME NEW k \in 1 .. n
      PROVE  \/ expanded'[k].type = "object" /\ expanded'[k].name \in objects' \cap Below'[root']
             \/ /\ expanded'[k].type = "pool" /\ expanded'[k].name \in DOMAIN pools' \ objects'
                /\ expanded'[k].name \in Below'[root'] /\ Complete(k)'
  <2>1. expanded'[k] = expanded[k] /\ k \in DOMAIN expanded
    BY <1>2
  <2>2. Opens(expanded[k].name) => expanded'[k].name \in DOMAIN pools' \ objects'
    BY <1>1, <2>1, DictionaryKept DEF Opens
  <2>3. QED
    BY <1>1, <1>2, <1>3, <2>1, <2>2 DEF ListInv
<1>5. ASSUME NEW k \in Nat, k = n + 1, type = "pool"
      PROVE  Complete(k)'
  <2>1. \A member \in Listed : \E j \in 1 .. n : expanded'[j].name = member
    BY <1>2 DEF Listed
  <2>2. k - 1 = n /\ expanded'[k].name = name /\ pools'[name] = Members(name)
    BY <1>1, <1>2, <1>5, DictionaryKept DEF Members
  <2>3. \A member \in Range(Members(name)) :
            IF member \in objects' \cup DOMAIN pools'
            THEN \E j \in 1 .. (k - 1) : expanded'[j].name = member
            ELSE member \in Range(unresolved')
    BY <1>1, <1>3, <1>5, <2>1, <2>2, DictionaryKept DEF Known
  <2>4. QED
    BY <2>2, <2>3 DEF Complete, Members, Known
<1>6. ASSUME NEW k \in Nat, k = n + 1
      PROVE  \/ expanded'[k].type = "object" /\ expanded'[k].name \in objects' \cap Below'[root']
             \/ /\ expanded'[k].type = "pool" /\ expanded'[k].name \in DOMAIN pools' \ objects'
                /\ expanded'[k].name \in Below'[root'] /\ Complete(k)'
  <2>1. pools' = pools
    BY <1>1, DictionaryKept
  <2>2. QED
    BY <1>2, <1>3, <1>5, <1>6, <2>1 DEF Opens
<1>7. \A k \in DOMAIN expanded' : k \in 1 .. n \/ (k \in Nat /\ k = n + 1)
  BY <1>2
<1>8. \A k \in DOMAIN unresolved' :
          ~(unresolved'[k] \in objects' \cup DOMAIN pools') /\ unresolved'[k] \in Below'[root']
  <2>1. pools' = pools
    BY <1>1, DictionaryKept
  <2>2. QED
    BY <1>1, <1>3, <2>1 DEF ListInv, Known
<1>9. QED
  BY <1>4, <1>6, <1>7, <1>8 DEF ListInv, Opens, Known

LEMMA ObjectStep == PoolInv /\ TakeObject => PoolInv'
<1> SUFFICES ASSUME PoolInv, TakeObject PROVE PoolInv'
  OBVIOUS
<1>1. /\ TypeOK /\ Traversing /\ ~Exhausted /\ chain # <<>> /\ chain' = TopTaken
      /\ NextName \in objects
      /\ expanded' = Append(expanded, Entry("object", NextName))
      /\ UNCHANGED dictionary /\ visited' = visited /\ unresolved' = unresolved /\ status' = status
  BY DEF PoolInv, TakeObject, Traversing
<1>2. NextName \in Names /\ NextName \in Below[root]
  BY <1>1, NextMember
<1>3. /\ expanded' \in Seq([type : {"object", "pool"}, name : Names])
      /\ Settled \subseteq Settled' /\ NextName \in Listed'
      /\ Listed \subseteq Listed'
  <2>1. Listed \subseteq Listed'
    BY <1>1, <1>2, EntryAppended DEF Listed
  <2>2. QED
    BY <1>1, <1>2, <2>1, EntryAppended
<1>4. NextName \in Settled'
  BY <1>1, <1>2, <1>3, DictionaryKept DEF Settled, Known
<1>5. /\ ChainInv' /\ TakenInv' /\ chain' # <<>>
      /\ chain' \in Seq([pool : DOMAIN pools', taken : Nat])
      /\ \A i \in DOMAIN chain' : chain'[i].taken <= Len(Members(chain'[i].pool))
  BY <1>1, <1>3, <1>4, MemberTaken
<1>6. ListInv'
  BY <1>1, <1>2, EntryListed
<1>7. TypeOK'
  BY <1>1, <1>3, <1>5, DictionaryKept DEF TypeOK, Members
<1>8. EndInv'
  BY <1>1, <1>5 DEF EndInv, Traversing
<1>9. root' \notin objects'
  BY <1>1, DictionaryKept DEF PoolInv
<1>10. QED
  BY <1>5, <1>6, <1>7, <1>8, <1>9 DEF PoolInv

LEMMA UnknownStep == PoolInv /\ SkipUnknown => PoolInv'
<1> SUFFICES ASSUME PoolInv, SkipUnknown PROVE PoolInv'
  OBVIOUS
<1>1. /\ TypeOK /\ Traversing /\ ~Exhausted /\ chain # <<>> /\ chain' = TopTaken
      /\ ~Known(NextName)
      /\ unresolved' = Append(unresolved, NextName)
      /\ UNCHANGED dictionary /\ visited' = visited /\ expanded' = expanded /\ status' = status
  BY DEF PoolInv, SkipUnknown, Traversing, Known
<1>2. NextName \in Names /\ NextName \in Below[root]
  BY <1>1, NextMember
<1> DEFINE n == Len(unresolved)
<1>3. /\ unresolved' \in Seq(Names)
      /\ n \in Nat /\ DOMAIN unresolved' = 1 .. (n + 1) /\ DOMAIN unresolved = 1 .. n
      /\ \A k \in 1 .. n : unresolved'[k] = unresolved[k]
      /\ unresolved'[n + 1] = NextName
      /\ NextName \in Range(unresolved')
      /\ Settled \subseteq Settled'
      /\ \A k : Complete(k) => Complete(k)'
  BY <1>1, <1>2, NameReported
<1> HIDE DEF n
<1>4. NextName \in Settled'
  BY <1>1, <1>2, <1>3, DictionaryKept DEF Settled, Known
<1>5. /\ ChainInv' /\ TakenInv' /\ chain' # <<>>
      /\ chain' \in Seq([pool : DOMAIN pools', taken : Nat])
      /\ \A i \in DOMAIN chain' : chain'[i].taken <= Len(Members(chain'[i].pool))
  BY <1>1, <1>3, <1>4, MemberTaken
<1>6. ListInv'
  <2>1. objects' = objects /\ pools' = pools /\ root' = root /\ Below' = Below
    BY <1>1, DictionaryKept
  <2>2. ListInv
    BY DEF PoolInv
  <2>3. \A k \in DOMAIN expanded' :
          \/ expanded'[k].type = "object" /\ expanded'[k].name \in objects' \cap Below'[root']
          \/ /\ expanded'[k].type = "pool" /\ expanded'[k].name \in DOMAIN pools' \ objects'
             /\ expanded'[k].name \in Below'[root'] /\ Complete(k)'
    BY <1>1, <1>3, <2>1, <2>2 DEF ListInv, Opens
  <2>4. \A k \in DOMAIN unresolved' : k \in DOMAIN unresolved \/ k = n + 1
    BY <1>3
  <2>5. \A k \in DOMAIN unresolved' :
            ~(unresolved'[k] \in objects' \cup DOMAIN pools') /\ unresolved'[k] \in Below'[root']
    BY <1>1, <1>2, <1>3, <2>1, <2>2, <2>4 DEF ListInv, Known
  <2>6. QED
    BY <2>3, <2>5 DEF ListInv, Known, Opens
<1>7. TypeOK'
  BY <1>1, <1>3, <1>5, DictionaryKept DEF TypeOK, Members
<1>8. EndInv'
  BY <1>1, <1>5 DEF EndInv, Traversing
<1>9. root' \notin objects'
  BY <1>1, DictionaryKept DEF PoolInv
<1>10. QED
  BY <1>5, <1>6, <1>7, <1>8, <1>9 DEF PoolInv

\* A nested pool is entered: the member that is taken is settled when it is left.
LEMMA EnterStep == PoolInv /\ EnterPool => PoolInv'
<1> SUFFICES ASSUME PoolInv, EnterPool PROVE PoolInv'
  OBVIOUS
<1> DEFINE fresh == [pool |-> NextName, taken |-> 0]
<1>1. /\ TypeOK /\ ~Exhausted /\ status = "running" /\ chain # <<>>
      /\ NextName \notin objects /\ NextName \in DOMAIN pools /\ NextName \notin visited
      /\ visited' = visited \cup {NextName} /\ chain' = Append(TopTaken, fresh)
      /\ UNCHANGED dictionary /\ expanded' = expanded /\ unresolved' = unresolved /\ status' = status
  BY DEF PoolInv, EnterPool, Traversing, NestedPool
<1>2. /\ objects' = objects /\ pools' = pools /\ root' = root /\ Below' = Below
      /\ \A pool : Members(pool)' = Members(pool)
  BY <1>1, DictionaryKept
<1>3. fresh \in Place /\ fresh.pool = NextName /\ fresh.taken = 0
  BY <1>1 DEF Place
<1> HIDE DEF fresh
<1>4. /\ Depth \in Nat /\ Depth >= 1 /\ DOMAIN chain = 1 .. Depth /\ Top = chain[Depth]
      /\ \A i \in 1 .. Depth : chain[i].taken \in Nat /\ chain[i].pool \in DOMAIN pools
  BY <1>1, ChainPlaces
<1>5. /\ chain' \in Seq(Place) /\ Depth' = Depth + 1 /\ DOMAIN chain' = 1 .. (Depth + 1)
      /\ chain'[Depth + 1] = fresh
      /\ \A i \in 1 .. Depth :
            /\ chain'[i].pool = chain[i].pool
            /\ chain'[i].taken = IF i = Depth THEN chain[i].taken + 1 ELSE chain[i].taken
            /\ chain'[i].taken <= Len(Members(chain[i].pool))
  BY <1>1, <1>3, EnteredPlaces DEF Depth
<1>6. /\ Members(chain[Depth].pool)[chain[Depth].taken + 1] = NextName
      /\ NextName \in Names
      /\ \A i \in 1 .. Depth : NextName \in Below[chain[i].pool]
  BY <1>1, NextMember
<1>7. ChainInv
  BY DEF PoolInv
<1>8. \A i \in 1 .. (Depth + 1) : i \in 1 .. Depth \/ i = Depth + 1
  BY <1>4
<1>9. ChainInv'
  <2>1. \A i \in 1 .. (Depth + 1) : chain'[i].pool \notin objects
    BY <1>1, <1>3, <1>5, <1>7, <1>8 DEF ChainInv
  <2>2. chain'[1].pool = root
    BY <1>4, <1>5, <1>7 DEF ChainInv
  <2>3. visited' = {chain'[i].pool : i \in 2 .. (Depth + 1)}
    <3>1. visited = {chain[i].pool : i \in 2 .. Depth}
      BY <1>7 DEF ChainInv
    <3>2. \A i \in 2 .. (Depth + 1) : i \in 2 .. Depth \/ i = Depth + 1
      BY <1>4
    <3>3. \A i \in 2 .. Depth : i \in 1 .. Depth /\ i \in 2 .. (Depth + 1)
      BY <1>4
    <3>4. Depth + 1 \in 2 .. (Depth + 1)
      BY <1>4
    <3>5. QED
      BY <1>1, <1>3, <1>5, <3>1, <3>2, <3>3, <3>4, SMTT(30)
  <2>4. \A i, j \in 2 .. (Depth + 1) : chain'[i].pool = chain'[j].pool => i = j
    <3>1. \A i \in 2 .. (Depth + 1) : (i \in 2 .. Depth /\ i \in 1 .. Depth) \/ i = Depth + 1
      BY <1>4
    <3>2. \A i \in 2 .. Depth : chain[i].pool # NextName
      BY <1>1, <1>7 DEF ChainInv
    <3>3. QED
      BY <1>3, <1>5, <1>7, <3>1, <3>2 DEF ChainInv
  <2>5. ASSUME NEW i \in 1 .. Depth
        PROVE  chain'[i].taken >= 1 /\ Members(chain'[i].pool)[chain'[i].taken] = chain'[i + 1].pool
    <3>1. CASE i = Depth
      BY <1>3, <1>4, <1>5, <1>6, <3>1
    <3>2. CASE i # Depth
      <4>1. i \in 1 .. (Depth - 1) /\ i + 1 \in 1 .. Depth
        BY <1>4, <3>2
      <4>2. QED
        BY <1>5, <1>7, <3>2, <4>1 DEF ChainInv
    <3>3. QED
      BY <3>1, <3>2
  <2>6. ASSUME NEW i \in 1 .. (Depth + 1), NEW j \in 1 .. (Depth + 1), i <= j
        PROVE  chain'[j].pool \in Below[chain'[i].pool]
    <3>1. CASE j \in 1 .. Depth
      <4>1. i \in 1 .. Depth
        BY <1>4, <2>6, <3>1
      <4>2. QED
        BY <1>5, <1>7, <2>6, <3>1, <4>1 DEF ChainInv
    <3>2. CASE j = Depth + 1 /\ i \in 1 .. Depth
      BY <1>3, <1>5, <1>6, <3>2
    <3>3. CASE j = Depth + 1 /\ i = Depth + 1
      BY <1>3, <1>5, <1>6, <3>3 DEF Below
    <3>4. QED
      BY <1>8, <3>1, <3>2, <3>3
  <2>7. (Depth + 1) - 1 = Depth
    BY <1>4
  <2>8. \A i \in 1 .. Depth : chain'[i].taken >= 1 /\ pools'[chain'[i].pool][chain'[i].taken] = chain'[i + 1].pool
    BY <1>2, <2>5 DEF Members
  <2>9. QED
    BY <1>2, <1>5, <2>1, <2>2, <2>3, <2>4, <2>6, <2>7, <2>8 DEF ChainInv, Members
<1>10. Settled' = Settled /\ Listed' = Listed /\ \A k : Complete(k)' <=> Complete(k)
  <2>1. Listed' = Listed
    BY <1>1 DEF Listed
  <2>2. QED
    BY <1>1, <2>1, DictionaryKept DEF Settled, Complete
<1>11. TakenInv'
  <2> SUFFICES ASSUME NEW i \in 1 .. (Depth + 1), NEW j \in 1 .. chain'[i].taken,
                      ~(i < Depth + 1 /\ j = chain'[i].taken)
               PROVE  Members(chain'[i].pool)[j] \in Settled
    BY <1>2, <1>5, <1>10 DEF TakenInv, Members
  <2>1. i \in 1 .. Depth
    BY <1>3, <1>5, <1>8
  <2>2. j \in 1 .. chain[i].taken /\ ~(i < Depth /\ j = chain[i].taken)
    <3>1. i < Depth + 1 /\ chain[i].taken \in Nat /\ j \in Nat
      BY <1>4, <1>5, <2>1
    <3>2. CASE i = Depth
      BY <1>5, <2>1, <3>1, <3>2
    <3>3. CASE i # Depth
      BY <1>5, <2>1, <3>1, <3>3
    <3>4. QED
      BY <3>2, <3>3
  <2>3. QED
    BY <1>5, <2>1, <2>2 DEF PoolInv, TakenInv
<1>12. ListInv'
  BY <1>1, <1>2, <1>10, DictionaryKept DEF PoolInv, ListInv, Opens, Known
<1>13. TypeOK'
  <2>1. chain' \in Seq([pool : DOMAIN pools', taken : Nat])
    BY <1>2, <1>5 DEF Place
  <2>2. \A i \in 1 .. (Depth + 1) : chain'[i].taken <= Len(Members(chain'[i].pool))
    <3>1. 0 <= Len(Members(NextName))
      BY <1>1, MembersAreNames
    <3>2. QED
      BY <1>3, <1>5, <1>8, <3>1
  <2>3. \A i \in DOMAIN chain' : chain'[i].taken <= Len(pools'[chain'[i].pool])
    BY <1>2, <1>5, <2>2 DEF Members
  <2>4. QED
    BY <1>1, <1>2, <2>1, <2>3 DEF TypeOK, Members
<1>14. EndInv'
  <2>1. chain' # <<>>
    BY <1>4, <1>5
  <2>2. QED
    BY <1>1, <2>1 DEF EndInv
<1>15. root' \notin objects'
  BY <1>2 DEF PoolInv
<1>16. QED
  BY <1>9, <1>11, <1>12, <1>13, <1>14, <1>15 DEF PoolInv

\* A pool whose members are all settled is listed and left.
LEMMA LeaveStep == PoolInv /\ LeavePool => PoolInv'
<1> SUFFICES ASSUME PoolInv, LeavePool PROVE PoolInv'
  OBVIOUS
<1> DEFINE left == Top.pool
           n == Depth - 1
<1>1. /\ TypeOK /\ Exhausted /\ status = "running" /\ chain # <<>>
      /\ expanded' = Append(expanded, Entry("pool", left))
      /\ visited' = visited \ {left} /\ chain' = Front(chain)
      /\ UNCHANGED dictionary /\ unresolved' = unresolved /\ status' = status
  BY DEF PoolInv, LeavePool, Traversing
<1>2. /\ objects' = objects /\ pools' = pools /\ root' = root /\ Below' = Below
      /\ \A pool : Members(pool)' = Members(pool)
  BY <1>1, DictionaryKept
<1>3. /\ Depth \in Nat /\ Depth >= 1 /\ DOMAIN chain = 1 .. Depth /\ Top = chain[Depth]
      /\ \A i \in 1 .. Depth : chain[i] \in Place /\ chain[i].taken \in Nat /\ chain[i].pool \in DOMAIN pools
      /\ \A i \in 1 .. Depth : chain[i].taken <= Len(Members(chain[i].pool))
  BY <1>1, ChainPlaces
<1>4. ChainInv /\ TakenInv
  BY DEF PoolInv
<1>5. left \in DOMAIN pools /\ left \in Names /\ Opens(left) /\ left \in Below[root]
  BY <1>1, <1>3, <1>4 DEF ChainInv, Opens, TypeOK
<1>6. /\ n \in Nat /\ chain' \in Seq(Place) /\ Depth' = n /\ DOMAIN chain' = 1 .. n
      /\ \A i \in 1 .. n : i \in 1 .. Depth /\ i # Depth /\ chain'[i] = chain[i]
  BY <1>1, FrontPlaces DEF Depth
\* Nothing is exempt on the top of the stack: all the members are settled.
<1>7. \A member \in Range(Members(left)) :
          IF Known(member) THEN member \in Listed ELSE member \in Range(unresolved)
  <2> SUFFICES ASSUME NEW member \in Range(Members(left)) PROVE member \in Settled
    BY DEF Settled
  <2>1. PICK j \in DOMAIN Members(left) : member = Members(left)[j]
    BY DEF Range
  <2>2. j \in 1 .. chain[Depth].taken
    BY <1>1, <1>3, <1>5, <2>1, MembersAreNames DEF Exhausted
  <2>3. QED
    BY <1>3, <1>4, <2>1, <2>2 DEF TakenInv
<1>8. ListInv'
  BY <1>1, <1>5, <1>7, EntryListed
<1>9. /\ expanded' \in Seq([type : {"object", "pool"}, name : Names])
      /\ Settled \subseteq Settled' /\ left \in Listed'
  <2>1. ASSUME NEW name \in Names, name = left
        PROVE  /\ expanded' \in Seq([type : {"object", "pool"}, name : Names])
               /\ Settled \subseteq Settled' /\ name \in Listed'
    BY <1>1, <2>1, EntryAppended
  <2>2. QED
    BY <1>5, <2>1
<1>10. left \in Settled'
  BY <1>2, <1>5, <1>9 DEF Settled, Known
<1>11. ChainInv'
  <2>1. \A i \in 1 .. n : chain'[i].pool \notin objects
    BY <1>4, <1>6 DEF ChainInv
  <2>2. n >= 1 => chain'[1].pool = root
    <3>1. chain[1].pool = root
      BY <1>3, <1>4 DEF ChainInv
    <3>2. n >= 1 => 1 \in 1 .. n
      BY <1>6
    <3>3. QED
      BY <1>6, <3>1, <3>2
  <2>3. visited' = {chain'[i].pool : i \in 2 .. n}
    <3>1. visited = {chain[i].pool : i \in 2 .. Depth}
      BY <1>4 DEF ChainInv
    <3>2. \A i \in 2 .. Depth : i \in 2 .. n \/ i = Depth
      BY <1>3
    <3>3. \A i \in 2 .. n : i \in 1 .. n /\ i \in 2 .. Depth /\ Depth \in 2 .. Depth
      BY <1>3
    <3>4. \A i \in 2 .. n : chain[i].pool # left
      BY <1>3, <1>4, <1>6, <3>3 DEF ChainInv
    <3>5. \A i \in 2 .. n : chain'[i] = chain[i]
      BY <1>6, <3>3
    <3>6. {chain'[i].pool : i \in 2 .. n} = {chain[i].pool : i \in 2 .. n}
      BY <3>5
    <3>7. {chain[i].pool : i \in 2 .. Depth} \ {left} = {chain[i].pool : i \in 2 .. n}
      <4> HIDE DEF n
      <4>1. left = chain[Depth].pool
        BY <1>3
      <4>2. QED
        BY <3>2, <3>3, <3>4, <4>1
    <3>8. QED
      BY <1>1, <3>1, <3>6, <3>7
  <2>4. \A i \in 2 .. n : i \in 2 .. Depth /\ i \in 1 .. n
    BY <1>3
  <2>5. \A i, j \in 2 .. n : chain'[i].pool = chain'[j].pool => i = j
    BY <1>4, <1>6, <2>4 DEF ChainInv
  <2>6. \A i \in 1 .. (n - 1) :
            chain'[i].taken >= 1 /\ pools'[chain'[i].pool][chain'[i].taken] = chain'[i + 1].pool
    <3>1. \A i \in 1 .. (n - 1) : i \in 1 .. n /\ i + 1 \in 1 .. n /\ i \in 1 .. (Depth - 1)
      BY <1>3
    <3>2. QED
      BY <1>2, <1>4, <1>6, <3>1 DEF ChainInv, Members
  <2>7. \A i, j \in 1 .. n : i <= j => chain'[j].pool \in Below[chain'[i].pool]
    BY <1>4, <1>6 DEF ChainInv
  <2>8. QED
    BY <1>2, <1>6, <2>1, <2>2, <2>3, <2>5, <2>6, <2>7 DEF ChainInv, Members
<1>12. TakenInv'
  <2> SUFFICES ASSUME NEW i \in 1 .. n, NEW j \in 1 .. chain[i].taken,
                      ~(i < n /\ j = chain[i].taken)
               PROVE  Members(chain[i].pool)[j] \in Settled'
    BY <1>2, <1>6 DEF TakenInv, Members
  <2>1. CASE i = n /\ j = chain[i].taken
    <3>1. i \in 1 .. (Depth - 1) /\ i + 1 = Depth
      BY <1>3, <2>1
    <3>2. Members(chain[i].pool)[j] = left
      BY <1>3, <1>4, <2>1, <3>1 DEF ChainInv
    <3>3. QED
      BY <1>10, <3>2
  <2>2. CASE ~(i = n /\ j = chain[i].taken)
    <3>1. i \in 1 .. Depth /\ ~(i < Depth /\ j = chain[i].taken)
      BY <1>3, <1>6, <2>2
    <3>2. Members(chain[i].pool)[j] \in Settled
      BY <1>4, <3>1 DEF TakenInv
    <3>3. QED
      BY <1>9, <3>2
  <2>3. QED
    BY <2>1, <2>2
<1>13. TypeOK'
  <2>1. chain' \in Seq([pool : DOMAIN pools', taken : Nat])
    BY <1>2, <1>6 DEF Place
  <2>2. \A i \in DOMAIN chain' : chain'[i].taken <= Len(pools'[chain'[i].pool])
    BY <1>2, <1>3, <1>6 DEF Members
  <2>3. QED
    BY <1>1, <1>2, <1>9, <2>1, <2>2 DEF TypeOK, Members
<1>14. EndInv'
  <2>1. ASSUME chain' = <<>> PROVE root \in Listed'
    <3>1. n = 0
      BY <1>6, <2>1, EmptySeq DEF Depth
    <3>2. left = root
      BY <1>3, <1>4, <3>1 DEF ChainInv
    <3>3. QED
      BY <1>9, <3>2
  <2>2. QED
    BY <1>1, <1>2, <2>1 DEF EndInv
<1>15. root' \notin objects'
  BY <1>2 DEF PoolInv
<1>16. QED
  BY <1>8, <1>11, <1>12, <1>13, <1>14, <1>15 DEF PoolInv

\* The exception, the end of the loop and stuttering leave the lists alone.
LEMMA StatusStep ==
    ASSUME PoolInv, UNCHANGED <<dictionary, chain, visited, expanded, unresolved>>,
           status' \in {"running", "returned", "loop"},
           status' = "returned" => chain = <<>>,
           status' = "loop" => chain # <<>> /\ ~Exhausted /\ NestedPool /\ NextName \in visited
    PROVE  PoolInv'
<1>1. /\ objects' = objects /\ pools' = pools /\ root' = root /\ Below' = Below
      /\ chain' = chain /\ visited' = visited /\ expanded' = expanded /\ unresolved' = unresolved
      /\ \A pool : Members(pool)' = Members(pool)
  BY DictionaryKept
<1>2. Settled' = Settled /\ Listed' = Listed /\ \A k : Complete(k)' <=> Complete(k)
  <2>1. Listed' = Listed
    BY <1>1 DEF Listed
  <2>2. QED
    BY <1>1, <2>1 DEF Settled, Complete, Known, Members
<1>3. TypeOK'
  BY <1>1 DEF PoolInv, TypeOK, Members
<1>4. ChainInv'
  BY <1>1 DEF PoolInv, ChainInv, Depth, Members
<1>5. TakenInv'
  BY <1>1, <1>2 DEF PoolInv, TakenInv, Depth, Members
<1>6. ListInv'
  BY <1>1, <1>2 DEF PoolInv, ListInv, Opens, Known
<1>7. EndInv'
  BY <1>1, <1>2 DEF PoolInv, EndInv, Exhausted, NestedPool, NextName, Top, Last, Members
<1>8. QED
  BY <1>1, <1>3, <1>4, <1>5, <1>6, <1>7 DEF PoolInv

LEMMA PoolStep == PoolInv /\ [Next]_vars => PoolInv'
<1> SUFFICES ASSUME PoolInv, [Next]_vars PROVE PoolInv'
  OBVIOUS
<1>1. CASE TakeObject
  BY <1>1, ObjectStep
<1>2. CASE EnterPool
  BY <1>2, EnterStep
<1>3. CASE DetectLoop
  BY <1>3, StatusStep DEF DetectLoop, Traversing
<1>4. CASE SkipUnknown
  BY <1>4, UnknownStep
<1>5. CASE LeavePool
  BY <1>5, LeaveStep
<1>6. CASE Return
  BY <1>6, StatusStep DEF Return
<1>7. CASE UNCHANGED vars
  BY <1>7, StatusStep DEF vars, dictionary, PoolInv, TypeOK, EndInv
<1>8. QED
  BY <1>1, <1>2, <1>3, <1>4, <1>5, <1>6, <1>7 DEF Next

LEMMA PoolInvariance == Spec => []PoolInv
<1>1. QED
  BY InitPool, PoolStep, PTL DEF Spec

(***************************************************************************)
(* The theorems.                                                           *)
(***************************************************************************)

\* The stack stays within the members of its pools, and the lists hold entries
\* and names (genericresolver.h, resolve).
THEOREM TypeCorrect == Spec => []TypeOK
<1>1. PoolInv => TypeOK
  BY DEF PoolInv
<1>2. QED
  BY <1>1, PoolInvariance, PTL

\* A pool is listed after its members, also when it is used by several pools
\* that are not in a loop: Network::make_address_groups and its sisters find
\* every member registered.
THEOREM MembersBefore == Spec => []MembersBeforePool
<1>1. ASSUME PoolInv, NEW k \in DOMAIN expanded, expanded[k].type = "pool",
             NEW name \in Range(Members(expanded[k].name)), Known(name)
      PROVE  \E j \in 1 .. (k - 1) : expanded[j].name = name
  <2>1. Complete(k)
    BY <1>1 DEF PoolInv, ListInv
  <2>2. QED
    BY <1>1, <2>1 DEF Complete
<1>2. PoolInv => MembersBeforePool
  BY <1>1 DEF MembersBeforePool, Known
<1>3. QED
  BY <1>2, PoolInvariance, PTL

\* A listed pool has its members settled.
LEMMA CompleteSettled ==
    ASSUME PoolInv, NEW k \in DOMAIN expanded, Opens(expanded[k].name)
    PROVE  Range(Members(expanded[k].name)) \subseteq Settled
<1>1. Complete(k)
  BY DEF PoolInv, ListInv, Opens
<1>2. Range(Members(expanded[k].name)) \subseteq Names
  BY MembersAreNames DEF PoolInv, Opens
<1>3. \A j \in 1 .. (k - 1) : j \in DOMAIN expanded
  BY ListTypes DEF PoolInv
<1>4. QED
  BY <1>1, <1>2, <1>3 DEF Complete, Settled, Listed

LEMMA SettledClosed ==
    ASSUME PoolInv
    PROVE  ClosedUnderMembers(Settled)
<1> SUFFICES ASSUME NEW name \in Settled, Opens(name), NEW i \in DOMAIN Members(name)
             PROVE  Members(name)[i] \in Settled
  BY DEF ClosedUnderMembers
<1>1. PICK k \in DOMAIN expanded : expanded[k].name = name
  BY DEF Settled, Listed, Opens, Known
<1>2. Range(Members(name)) \subseteq Settled
  BY <1>1, CompleteSettled
<1>3. QED
  BY <1>2 DEF Range

\* When the stack is empty nothing reachable is missing.
LEMMA AllSettled ==
    ASSUME PoolInv, chain = <<>>
    PROVE  ReachableFrom(root) \subseteq Settled
<1>1. PICK k \in DOMAIN expanded : expanded[k].name = root
  BY DEF PoolInv, EndInv, Listed
<1>2. Opens(root)
  BY DEF PoolInv, TypeOK, Opens
<1>3. Range(Members(root)) \subseteq Settled
  BY <1>1, <1>2, CompleteSettled
<1>4. Settled \in SUBSET Names
  BY DEF Settled
<1>5. QED
  BY <1>3, <1>4, SettledClosed, ReachableLeast

\* The list is what the nesting says, whatever the nesting: resolve neither
\* loses a member of a pool that is used twice nor lists a name that is not
\* reached, and reports every name that the store does not know.
THEOREM ResolutionCorrect == Spec => []ResolutionExact
<1>1. ASSUME PoolInv, status = "returned"
      PROVE  /\ NamesOf(expanded, "object") = ReachableFrom(root) \cap objects
             /\ NamesOf(expanded, "pool") = {root} \cup {n \in ReachableFrom(root) : Opens(n)}
             /\ Range(unresolved) = ReachableFrom(root) \ (objects \cup DOMAIN pools)
  <2>1. /\ ReachableFrom(root) \subseteq Settled /\ root \in Listed
        /\ root \in DOMAIN pools /\ root \notin objects /\ root \in Names
    BY <1>1, AllSettled DEF PoolInv, EndInv, TypeOK
  <2>2. Below[root] = {root} \cup ReachableFrom(root)
    BY <2>1 DEF Below
  <2>3. \A k \in DOMAIN expanded :
            \/ /\ expanded[k].type = "object" /\ expanded[k].name \in objects
               /\ expanded[k].name \in ReachableFrom(root)
            \/ /\ expanded[k].type = "pool" /\ Opens(expanded[k].name)
               /\ expanded[k].name \in {root} \cup ReachableFrom(root)
    BY <1>1, <2>1, <2>2 DEF PoolInv, ListInv
  <2>4. NamesOf(expanded, "object") = ReachableFrom(root) \cap objects
    <3>1. \A name \in ReachableFrom(root) \cap objects :
              \E k \in DOMAIN expanded : expanded[k].name = name
      BY <2>1 DEF Settled, Listed, Known
    <3>2. ReachableFrom(root) \cap objects \subseteq NamesOf(expanded, "object")
      BY <2>3, <3>1 DEF NamesOf, Opens
    <3>3. NamesOf(expanded, "object") \subseteq ReachableFrom(root) \cap objects
      BY <2>3 DEF NamesOf
    <3>4. QED
      BY <3>2, <3>3
  <2>5. NamesOf(expanded, "pool") = {root} \cup {n \in ReachableFrom(root) : Opens(n)}
    <3>1. \A name \in {root} \cup {n \in ReachableFrom(root) : Opens(n)} :
              Opens(name) /\ \E k \in DOMAIN expanded : expanded[k].name = name
      BY <2>1 DEF Settled, Listed, Known, Opens
    <3>2. {root} \cup {n \in ReachableFrom(root) : Opens(n)} \subseteq NamesOf(expanded, "pool")
      BY <2>3, <3>1 DEF NamesOf, Opens
    <3>3. NamesOf(expanded, "pool") \subseteq {root} \cup {n \in ReachableFrom(root) : Opens(n)}
      BY <2>3 DEF NamesOf
    <3>4. QED
      BY <3>2, <3>3
  <2>6. Range(unresolved) = ReachableFrom(root) \ (objects \cup DOMAIN pools)
    <3>1. \A k \in DOMAIN unresolved :
              unresolved[k] \in ReachableFrom(root) \ (objects \cup DOMAIN pools)
      BY <1>1, <2>1, <2>2 DEF PoolInv, ListInv, Known
    <3>2. Range(unresolved) \subseteq ReachableFrom(root) \ (objects \cup DOMAIN pools)
      BY <3>1 DEF Range
    <3>3. ReachableFrom(root) \ (objects \cup DOMAIN pools) \subseteq Range(unresolved)
      BY <2>1 DEF Settled, Known
    <3>4. QED
      BY <3>2, <3>3
  <2>7. QED
    BY <2>4, <2>5, <2>6
<1>2. PoolInv => ResolutionExact
  BY <1>1 DEF ResolutionExact
<1>3. QED
  BY <1>2, PoolInvariance, PTL

\* No listed pool contains itself: the first of its entries would come after
\* all that is reachable from it, and so after itself.
LEMMA NoListedLoop ==
    ASSUME PoolInv, NEW v \in Listed, Opens(v)
    PROVE  v \notin ReachableFrom(v)
<1>1. ListInv /\ TypeOK /\ DOMAIN expanded = 1 .. Len(expanded) /\ Len(expanded) \in Nat
  BY ListTypes DEF PoolInv
<1> DEFINE T == {m \in DOMAIN expanded : expanded[m].name = v}
<1>2. T \in SUBSET Nat /\ T # {}
  BY <1>1 DEF Listed
<1>3. PICK k \in T : \A m \in T : k <= m
  <2> HIDE DEF T
  <2>1. QED
    BY <1>2, LeastNatural
<1> DEFINE Earlier == {j \in DOMAIN expanded : j < k}
           S == {name \in Names : Known(name) => \E j \in Earlier : expanded[j].name = name}
<1>4. ASSUME NEW m \in Nat, m <= k, m \in DOMAIN expanded, Opens(expanded[m].name)
      PROVE  Range(Members(expanded[m].name)) \subseteq S
  <2>1. Complete(m)
    BY <1>1, <1>4 DEF ListInv, Opens
  <2>2. Range(Members(expanded[m].name)) \subseteq Names
    BY <1>1, <1>4, MembersAreNames DEF Opens
  <2>3. \A j \in 1 .. (m - 1) : j \in Earlier
    BY <1>1, <1>3, <1>4
  <2>4. QED
    BY <2>1, <2>2, <2>3 DEF Complete
<1>5. Range(Members(v)) \subseteq S
  <2>1. k \in Nat /\ k <= k /\ k \in DOMAIN expanded /\ expanded[k].name = v
    BY <1>1, <1>3
  <2> HIDE DEF S
  <2>2. QED
    BY <1>4, <2>1
<1>6. ClosedUnderMembers(S)
  <2> SUFFICES ASSUME NEW name \in S, Opens(name), NEW i \in DOMAIN Members(name)
               PROVE  Members(name)[i] \in S
    BY DEF ClosedUnderMembers
  <2>1. PICK j \in Earlier : expanded[j].name = name
    BY DEF Opens, Known
  <2>2. j \in Nat /\ j <= k /\ j \in DOMAIN expanded
    BY <1>1, <1>3
  <2>3. Range(Members(name)) \subseteq S
    <3> HIDE DEF S, Earlier
    <3>1. QED
      BY <1>4, <2>1, <2>2
  <2>4. QED
    BY <2>3 DEF Range
<1>7. ReachableFrom(v) \subseteq S
  <2>1. S \in SUBSET Names
    OBVIOUS
  <2> HIDE DEF S
  <2>2. QED
    BY <1>5, <1>6, <2>1, ReachableLeast
<1>8. v \notin S
  <2>1. \A j \in Earlier : expanded[j].name # v
    BY <1>1, <1>3
  <2>2. Known(v)
    BY DEF Opens, Known
  <2>3. QED
    BY <2>1, <2>2
<1>9. QED
  BY <1>7, <1>8

\* The pool that is found a second time on the stack contains itself.
LEMMA LoopIsReachable ==
    ASSUME PoolInv, status = "loop"
    PROVE  LoopReachable
<1>1. TypeOK /\ ChainInv /\ chain # <<>> /\ ~Exhausted /\ NextName \in visited
  BY DEF PoolInv, EndInv
<1>2. PICK i \in 2 .. Depth : NextName = chain[i].pool
  BY <1>1 DEF ChainInv
<1>3. i \in 1 .. Depth /\ 1 \in 1 .. Depth /\ 1 <= i
  BY <1>1, ChainPlaces
<1>4. NextName \in ReachableFrom(chain[i].pool) /\ chain[1].pool = root
  BY <1>1, <1>3, NextMember DEF ChainInv
<1>5. Opens(NextName) /\ NextName \in Below[root]
  BY <1>1, NextMember DEF PoolInv, EndInv, NestedPool, Opens
<1>6. Below[root] = {root} \cup ReachableFrom(root)
  BY <1>1 DEF Below, TypeOK
<1>7. QED
  BY <1>2, <1>4, <1>5, <1>6 DEF LoopReachable, ContainsItself

LEMMA ReturnedIsFree ==
    ASSUME PoolInv, status = "returned"
    PROVE  ~LoopReachable
<1>1. ReachableFrom(root) \subseteq Settled /\ root \in Listed
  BY AllSettled DEF PoolInv, EndInv
<1>2. \A pool \in {root} \cup ReachableFrom(root) : Opens(pool) => pool \in Listed
  BY <1>1 DEF Settled, Known, Opens
<1>3. QED
  BY <1>2, NoListedLoop DEF LoopReachable, ContainsItself

\* The exception means that a reachable pool contains itself, and a resolution
\* that returns means that none does: the set of visited pools is exactly what
\* is needed, with pools that are shared and loops that avoid the root.
THEOREM LoopCorrect == Spec => []LoopExact
<1>1. PoolInv => LoopExact
  BY LoopIsReachable, ReturnedIsFree DEF LoopExact
<1>2. QED
  BY <1>1, PoolInvariance, PTL

(***************************************************************************)
(* Flattening a sequence of sequences, one part at a time.                 *)
(***************************************************************************)
Flattens(f, m, seqs) ==
    f = [i \in 1 .. m |-> IF i = 1 THEN seqs[i] ELSE f[i - 1] \o seqs[i]]

\* A recursive function on 1 .. n exists: that is not for free, the prover
\* knows of no recursion.
LEMMA FlattenExists ==
    ASSUME NEW seqs, NEW n \in Nat
    PROVE  \E f : Flattens(f, n, seqs)
<1> DEFINE Bad == {m \in Nat : ~\E f : Flattens(f, m, seqs)}
<1>1. Bad = {}
  <2> SUFFICES ASSUME Bad # {} PROVE FALSE
    OBVIOUS
  <2>1. PICK m \in Bad : \A k \in Bad : m <= k
    <3>1. Bad \in SUBSET Nat
      OBVIOUS
    <3> HIDE DEF Bad
    <3>2. QED
      BY <3>1, LeastNatural
  <2>2. m \in Nat /\ ~\E f : Flattens(f, m, seqs)
    OBVIOUS
  <2>3. m # 0
    <3> DEFINE f == [i \in 1 .. 0 |-> seqs[i]]
    <3>1. 1 .. 0 = {}
      OBVIOUS
    <3>2. Flattens(f, 0, seqs)
      BY <3>1 DEF Flattens
    <3> HIDE DEF f
    <3>3. QED
      BY <2>2, <3>2
  <2>4. m - 1 \in Nat /\ m - 1 \notin Bad
    <3>1. m - 1 \in Nat /\ m - 1 < m
      BY <2>2, <2>3
    <3> HIDE DEF Bad
    <3>2. QED
      BY <2>1, <2>2, <3>1
  <2>5. PICK g : Flattens(g, m - 1, seqs)
    BY <2>4
  <2> DEFINE f == [i \in 1 .. m |-> IF i = m /\ m # 1 THEN g[m - 1] \o seqs[m]
                                    ELSE IF i = 1 THEN seqs[1] ELSE g[i]]
  <2>6. ASSUME NEW i \in 1 .. m
        PROVE  f[i] = IF i = 1 THEN seqs[i] ELSE f[i - 1] \o seqs[i]
    <3>1. CASE i = 1
      BY <3>1
    <3>2. CASE i # 1
      <4>1. i - 1 \in 1 .. (m - 1) /\ i - 1 \in 1 .. m /\ i - 1 # m
        BY <2>2, <3>2
      <4>2. \A k \in 1 .. (m - 1) : g[k] = IF k = 1 THEN seqs[k] ELSE g[k - 1] \o seqs[k]
        BY <2>5 DEF Flattens
      <4>3. f[i - 1] = g[i - 1]
        BY <4>1, <4>2
      <4>4. CASE i = m
        BY <3>2, <4>3, <4>4
      <4>5. CASE i # m
        <5>1. i \in 1 .. (m - 1)
          BY <2>2, <4>5
        <5>2. f[i] = g[i]
          BY <3>2, <4>5
        <5>3. QED
          BY <3>2, <4>2, <4>3, <5>1, <5>2
      <4>6. QED
        BY <4>4, <4>5
    <3>3. QED
      BY <3>1, <3>2
  <2>7. f = [i \in 1 .. m |-> f[i]]
    OBVIOUS
  <2> HIDE DEF f
  <2>8. Flattens(f, m, seqs)
    BY <2>6, <2>7 DEF Flattens
  <2>9. QED
    BY <2>2, <2>8
<1>2. n \notin Bad
  BY <1>1
<1>3. QED
  BY <1>2

\* Equal parts are flattened to the same.
Agree(m, s, t) == \A i \in 1 .. m : s[i] = t[i]

\* Two sequences with the same first m parts are the same when flattened so far.
LEMMA FlattensAgree ==
    ASSUME NEW m \in Nat, NEW n \in Nat, NEW s, NEW t, NEW f, NEW g, m <= n,
           Flattens(f, m, s), Flattens(g, n, t), Agree(m, s, t)
    PROVE  Agree(m, f, g)
<1> DEFINE Bad == {i \in 1 .. m : f[i] # g[i]}
<1>1. Bad = {}
  <2> SUFFICES ASSUME Bad # {} PROVE FALSE
    OBVIOUS
  <2>1. PICK i \in Bad : \A k \in Bad : i <= k
    <3>1. Bad \in SUBSET Nat
      OBVIOUS
    <3> HIDE DEF Bad
    <3>2. QED
      BY <3>1, LeastNatural
  <2>2. i \in 1 .. m /\ i \in 1 .. n /\ f[i] # g[i]
    OBVIOUS
  <2>3. f[i] = (IF i = 1 THEN s[i] ELSE f[i - 1] \o s[i]) /\ g[i] = (IF i = 1 THEN t[i] ELSE g[i - 1] \o t[i])
    BY <2>2 DEF Flattens
  <2>4. i # 1 => f[i - 1] = g[i - 1]
    <3>1. i # 1 => i - 1 \in 1 .. m /\ i - 1 < i
      BY <2>2
    <3>2. i # 1 => i - 1 \notin Bad
      <4> HIDE DEF Bad
      <4>1. QED
        BY <2>1, <2>2, <3>1
    <3>3. QED
      BY <3>1, <3>2
  <2>5. QED
    BY <2>2, <2>3, <2>4 DEF Agree
<1>2. QED
  BY <1>1 DEF Agree

\* FlattenSeq is the last value of such a function.
LEMMA FlattenIs ==
    ASSUME NEW seqs, NEW n \in Nat, Len(seqs) = n
    PROVE  \E f : Flattens(f, n, seqs) /\ FlattenSeq(seqs) = IF n = 0 THEN seqs ELSE f[n]
<1> DEFINE f == CHOOSE f : f = [i \in 1 .. n |-> IF i = 1 THEN seqs[i] ELSE f[i - 1] \o seqs[i]]
<1>1. FlattenSeq(seqs) = IF n = 0 THEN seqs ELSE f[n]
  BY DEF FlattenSeq
<1>2. \E g : Flattens(g, n, seqs)
  BY FlattenExists
<1>3. f = [i \in 1 .. n |-> IF i = 1 THEN seqs[i] ELSE f[i - 1] \o seqs[i]]
  BY <1>2 DEF Flattens
<1> HIDE DEF f
<1>4. Flattens(f, n, seqs)
  BY <1>3 DEF Flattens
<1>5. QED
  BY <1>1, <1>4

LEMMA FlattenIsSequence ==
    ASSUME NEW S, NEW seqs \in Seq(Seq(S))
    PROVE  FlattenSeq(seqs) \in Seq(S)
<1> DEFINE n == Len(seqs)
<1>1. n \in Nat /\ DOMAIN seqs = 1 .. n /\ \A i \in 1 .. n : seqs[i] \in Seq(S)
  BY LenProperties, ElementOfSeq
<1> HIDE DEF n
<1>2. PICK f : Flattens(f, n, seqs) /\ FlattenSeq(seqs) = IF n = 0 THEN seqs ELSE f[n]
  BY <1>1, FlattenIs DEF n
<1>3. CASE n = 0
  <2>1. seqs = <<>>
    BY <1>3, EmptySeq DEF n
  <2>2. QED
    BY <1>2, <1>3, <2>1
<1>4. CASE n # 0
  <2> DEFINE Bad == {m \in 1 .. n : f[m] \notin Seq(S)}
  <2>1. Bad = {}
    <3> SUFFICES ASSUME Bad # {} PROVE FALSE
      OBVIOUS
    <3>1. PICK m \in Bad : \A k \in Bad : m <= k
      <4>1. Bad \in SUBSET Nat
        BY <1>1
      <4> HIDE DEF Bad
      <4>2. QED
        BY <4>1, LeastNatural
    <3>2. m \in 1 .. n /\ f[m] \notin Seq(S)
      OBVIOUS
    <3>3. f[m] = IF m = 1 THEN seqs[m] ELSE f[m - 1] \o seqs[m]
      BY <1>2, <3>2 DEF Flattens
    <3>4. m # 1
      BY <1>1, <3>2, <3>3
    <3>5. m - 1 \in 1 .. n /\ m - 1 < m
      BY <1>1, <3>2, <3>4
    <3>6. m - 1 \notin Bad
      <4> HIDE DEF Bad
      <4>1. QED
        BY <1>1, <3>1, <3>2, <3>5
    <3>7. f[m - 1] \in Seq(S) /\ seqs[m] \in Seq(S)
      BY <1>1, <3>2, <3>5, <3>6
    <3>8. f[m - 1] \o seqs[m] \in Seq(S)
      BY <3>7, ConcatProperties
    <3>9. QED
      BY <3>2, <3>3, <3>4, <3>8
  <2>2. n \in 1 .. n
    BY <1>1, <1>4
  <2>3. QED
    BY <1>2, <1>4, <2>1, <2>2
<1>5. QED
  BY <1>3, <1>4

LEMMA FlattenEmpty == FlattenSeq(<<>>) = <<>>
BY DEF FlattenSeq

\* One part more.
LEMMA FlattenAppend ==
    ASSUME NEW S, NEW seqs \in Seq(Seq(S)), NEW x \in Seq(S)
    PROVE  FlattenSeq(Append(seqs, x)) = FlattenSeq(seqs) \o x
<1> DEFINE n == Len(seqs)
           more == Append(seqs, x)
<1>1. n \in Nat /\ DOMAIN seqs = 1 .. n
  BY LenProperties
<1>2. Len(more) = n + 1 /\ (\A i \in 1 .. n : more[i] = seqs[i]) /\ more[n + 1] = x
  BY AppendProperties
<1>3. n = 0 => seqs = <<>>
  BY EmptySeq
<1> HIDE DEF n, more
<1>4. PICK f : Flattens(f, n, seqs) /\ FlattenSeq(seqs) = IF n = 0 THEN seqs ELSE f[n]
  BY <1>1, FlattenIs DEF n
<1>5. PICK g : Flattens(g, n + 1, more) /\ FlattenSeq(more) = IF n + 1 = 0 THEN more ELSE g[n + 1]
  <2>1. n + 1 \in Nat
    BY <1>1
  <2>2. QED
    BY <1>2, <2>1, FlattenIs
<1>6. g[n + 1] = IF n = 0 THEN more[n + 1] ELSE g[n] \o more[n + 1]
  <2> DEFINE k == n + 1
  <2>1. k \in 1 .. k /\ k - 1 = n /\ (k = 1 <=> n = 0) /\ Flattens(g, k, more)
    BY <1>1, <1>5
  <2> HIDE DEF k
  <2>2. \A i \in 1 .. k : g[i] = IF i = 1 THEN more[i] ELSE g[i - 1] \o more[i]
    BY <2>1 DEF Flattens
  <2>3. g[k] = IF k = 1 THEN more[k] ELSE g[k - 1] \o more[k]
    BY <2>1, <2>2
  <2>4. QED
    BY <2>1, <2>3 DEF k
<1>7. FlattenSeq(more) = g[n + 1]
  BY <1>1, <1>5
<1>8. CASE n = 0
  <2>1. FlattenSeq(more) = x /\ FlattenSeq(seqs) = <<>>
    BY <1>2, <1>3, <1>4, <1>6, <1>7, <1>8
  <2>2. QED
    BY <2>1, ConcatEmptySeq DEF more
<1>9. CASE n # 0
  <2>1. n \in 1 .. n
    BY <1>1, <1>9
  <2>2. Agree(n, seqs, more)
    BY <1>2 DEF Agree
  <2>3. Agree(n, f, g)
    <3> DEFINE k == n + 1
    <3>1. k \in Nat /\ n <= k /\ Flattens(f, n, seqs) /\ Flattens(g, k, more)
      BY <1>1, <1>4, <1>5
    <3> HIDE DEF k
    <3>2. QED
      BY <1>1, <2>2, <3>1, FlattensAgree
  <2>4. QED
    BY <1>2, <1>4, <1>6, <1>7, <1>9, <2>1, <2>3 DEF more, Agree
<1>10. QED
  BY <1>8, <1>9

(***************************************************************************)
(* The traversal as one function, level by level.                          *)
(***************************************************************************)
EntryOf(S) == [type : {"object", "pool", "unresolved", "loop"}, name : S]

NestOK(nest, S) == DOMAIN nest \subseteq S /\ \A pool \in DOMAIN nest : nest[pool] \in Seq(S)

BelowOK(nest, S, below) == \A pool \in DOMAIN nest : below[pool] \in Seq(EntryOf(S))

\* The entries of the first k members of a pool, and those of all pools, given
\* those of the pools below.
DoneOf(objs, nest, below, pool, k) ==
    FlattenSeq([i \in 1 .. k |-> EntriesOf(objs, nest, nest[pool][i], below)])

WalkLevel(objs, nest, d, below) ==
    [pool \in DOMAIN nest |->
       IF d = 0 THEN <<Entry("loop", pool)>>
       ELSE Append(FlattenSeq([i \in DOMAIN nest[pool] |->
                       EntriesOf(objs, nest, nest[pool][i], below)]), Entry("pool", pool))]

Walks(w, m, objs, nest) ==
    w = [d \in 0 .. m |-> WalkLevel(objs, nest, d, w[d - 1])]

LevelsOf(objs, nest) == CHOOSE w : Walks(w, Cardinality(DOMAIN nest), objs, nest)

LEMMA LevelZero ==
    ASSUME NEW objs, NEW nest, NEW a, NEW b
    PROVE  WalkLevel(objs, nest, 0, a) = WalkLevel(objs, nest, 0, b)
BY DEF WalkLevel

\* The recursion of Traversal defines one level for each depth.
LEMMA WalkExists ==
    ASSUME NEW objs, NEW nest, NEW n \in Nat
    PROVE  \E w : Walks(w, n, objs, nest)
<1> DEFINE Bad == {m \in Nat : ~\E w : Walks(w, m, objs, nest)}
<1>1. Bad = {}
  <2> SUFFICES ASSUME Bad # {} PROVE FALSE
    OBVIOUS
  <2>1. PICK m \in Bad : \A k \in Bad : m <= k
    <3>1. Bad \in SUBSET Nat
      OBVIOUS
    <3> HIDE DEF Bad
    <3>2. QED
      BY <3>1, LeastNatural
  <2>2. m \in Nat /\ ~\E w : Walks(w, m, objs, nest)
    OBVIOUS
  <2>3. m # 0
    <3> DEFINE w == [d \in 0 .. 0 |-> WalkLevel(objs, nest, 0, {})]
    <3>1. 0 .. 0 = {0}
      OBVIOUS
    <3>2. w = [d \in 0 .. 0 |-> WalkLevel(objs, nest, d, w[d - 1])]
      BY <3>1, LevelZero
    <3> HIDE DEF w
    <3>3. Walks(w, 0, objs, nest)
      BY <3>2 DEF Walks
    <3>4. QED
      BY <2>2, <3>3
  <2>4. m - 1 \in Nat /\ m - 1 \notin Bad
    <3>1. m - 1 \in Nat /\ m - 1 < m
      BY <2>2, <2>3
    <3> HIDE DEF Bad
    <3>2. QED
      BY <2>1, <2>2, <3>1
  <2>5. PICK g : Walks(g, m - 1, objs, nest)
    BY <2>4
  <2> DEFINE w == [d \in 0 .. m |-> IF d = m THEN WalkLevel(objs, nest, m, g[m - 1]) ELSE g[d]]
  <2>6. ASSUME NEW d \in 0 .. m
        PROVE  w[d] = WalkLevel(objs, nest, d, w[d - 1])
    <3>1. \A k \in 0 .. (m - 1) : g[k] = WalkLevel(objs, nest, k, g[k - 1])
      BY <2>5 DEF Walks
    <3>2. CASE d = 0
      <4>1. w[0] = g[0] /\ 0 \in 0 .. (m - 1)
        BY <2>2, <2>3
      <4>2. g[0] = WalkLevel(objs, nest, 0, g[0 - 1])
        BY <3>1, <4>1
      <4> HIDE DEF w
      <4>3. QED
        BY <3>2, <4>1, <4>2, LevelZero
    <3>3. CASE d # 0 /\ d = m
      <4>1. w[m - 1] = g[m - 1]
        BY <2>2, <2>3
      <4>2. QED
        BY <3>3, <4>1
    <3>4. CASE d # 0 /\ d # m
      <4>1. d - 1 \in 0 .. m /\ d - 1 # m /\ d \in 0 .. (m - 1)
        BY <2>2, <3>4
      <4>2. w[d - 1] = g[d - 1] /\ w[d] = g[d]
        BY <3>4, <4>1
      <4>3. QED
        BY <3>1, <4>1, <4>2
    <3>5. QED
      BY <3>2, <3>3, <3>4
  <2>7. w = [d \in 0 .. m |-> w[d]]
    OBVIOUS
  <2> HIDE DEF w
  <2>8. Walks(w, m, objs, nest)
    BY <2>6, <2>7 DEF Walks
  <2>9. QED
    BY <2>2, <2>8
<1>2. n \notin Bad
  BY <1>1
<1>3. QED
  BY <1>2

LEMMA EntryTyped ==
    ASSUME NEW S, NEW type \in {"object", "pool", "unresolved", "loop"}, NEW name \in S
    PROVE  /\ Entry(type, name) \in EntryOf(S) /\ <<Entry(type, name)>> \in Seq(EntryOf(S))
           /\ Entry(type, name).type = type /\ Entry(type, name).name = name
BY DEF Entry, EntryOf

LEMMA EntriesTyped ==
    ASSUME NEW objs, NEW nest, NEW S, NEW below, BelowOK(nest, S, below), NEW name \in S
    PROVE  EntriesOf(objs, nest, name, below) \in Seq(EntryOf(S))
<1>1. \A type \in {"object", "pool", "unresolved", "loop"} : <<Entry(type, name)>> \in Seq(EntryOf(S))
  BY EntryTyped
<1>2. QED
  BY <1>1 DEF EntriesOf, BelowOK

LEMMA PartsTyped ==
    ASSUME NEW objs, NEW nest, NEW S, NestOK(nest, S), NEW below, BelowOK(nest, S, below),
           NEW pool \in DOMAIN nest, NEW k \in 0 .. Len(nest[pool])
    PROVE  [i \in 1 .. k |-> EntriesOf(objs, nest, nest[pool][i], below)] \in Seq(Seq(EntryOf(S)))
<1> DEFINE T == Seq(EntryOf(S))
           part(i) == EntriesOf(objs, nest, nest[pool][i], below)
<1>1. nest[pool] \in Seq(S) /\ Len(nest[pool]) \in Nat
  BY LenProperties DEF NestOK
<1>2. \A i \in 1 .. k : nest[pool][i] \in S
  BY <1>1, ElementOfSeq
<1>3. \A i \in 1 .. k : part(i) \in T
  BY <1>2, EntriesTyped
<1>4. k \in Nat
  BY <1>1
<1> HIDE DEF T, part
<1>5. [i \in 1 .. k |-> part(i)] \in Seq(T)
  BY <1>3, <1>4
<1>6. QED
  BY <1>5 DEF T, part

LEMMA DoneTyped ==
    ASSUME NEW objs, NEW nest, NEW S, NestOK(nest, S), NEW below, BelowOK(nest, S, below),
           NEW pool \in DOMAIN nest, NEW k \in 0 .. Len(nest[pool])
    PROVE  DoneOf(objs, nest, below, pool, k) \in Seq(EntryOf(S))
BY PartsTyped, FlattenIsSequence, ZenonT(60) DEF DoneOf

LEMMA DoneZero ==
    ASSUME NEW objs, NEW nest, NEW below, NEW pool
    PROVE  DoneOf(objs, nest, below, pool, 0) = <<>>
<1>1. [i \in 1 .. 0 |-> EntriesOf(objs, nest, nest[pool][i], below)] = <<>>
  OBVIOUS
<1>2. QED
  BY <1>1, FlattenEmpty DEF DoneOf

\* What the members give, one more at a time.
LEMMA DoneNext ==
    ASSUME NEW objs, NEW nest, NEW S, NestOK(nest, S), NEW below, BelowOK(nest, S, below),
           NEW pool \in DOMAIN nest, NEW k \in 0 .. Len(nest[pool]), k # Len(nest[pool])
    PROVE  /\ DoneOf(objs, nest, below, pool, k + 1) =
                 DoneOf(objs, nest, below, pool, k) \o EntriesOf(objs, nest, nest[pool][k + 1], below)
           /\ EntriesOf(objs, nest, nest[pool][k + 1], below) \in Seq(EntryOf(S))
           /\ DoneOf(objs, nest, below, pool, k) \in Seq(EntryOf(S))
<1> DEFINE T == Seq(EntryOf(S))
           part(i) == EntriesOf(objs, nest, nest[pool][i], below)
           parts == [i \in 1 .. k |-> part(i)]
           more == [i \in 1 .. (k + 1) |-> part(i)]
<1>1. k \in Nat /\ k + 1 \in 0 .. Len(nest[pool]) /\ k + 1 \in 1 .. (k + 1)
  BY LenProperties DEF NestOK
<1>2. parts \in Seq(T) /\ more \in Seq(T)
  BY <1>1, PartsTyped, ZenonT(60)
<1> HIDE DEF T, part
<1>3. part(k + 1) \in T
  <2>1. more[k + 1] = part(k + 1) /\ DOMAIN more = 1 .. (k + 1)
    BY <1>1
  <2>2. \A i \in 1 .. Len(more) : more[i] \in T
    BY <1>2, ElementOfSeq
  <2>3. Len(more) = k + 1
    BY <1>1, <2>1
  <2>4. QED
    BY <1>1, <2>1, <2>2, <2>3
<1>4. more = Append(parts, part(k + 1))
  BY <1>1, <1>2, <1>3
<1>5. FlattenSeq(more) = FlattenSeq(parts) \o part(k + 1)
  BY <1>2, <1>3, <1>4, FlattenAppend DEF T
<1>6. DoneOf(objs, nest, below, pool, k) \in Seq(EntryOf(S))
  BY DoneTyped
<1>7. QED
  BY <1>3, <1>5, <1>6 DEF DoneOf, part, T

LEMMA LevelLoops ==
    ASSUME NEW objs, NEW nest, NEW pool \in DOMAIN nest, NEW below
    PROVE  WalkLevel(objs, nest, 0, below)[pool] = <<Entry("loop", pool)>>
BY DEF WalkLevel

\* A pool of a level: what all its members give below, then the pool itself.
LEMMA LevelIsDone ==
    ASSUME NEW objs, NEW nest, NEW S, NestOK(nest, S), NEW pool \in DOMAIN nest,
           NEW d \in Nat \ {0}, NEW below
    PROVE  WalkLevel(objs, nest, d, below)[pool] =
              Append(DoneOf(objs, nest, below, pool, Len(nest[pool])), Entry("pool", pool))
<1>1. DOMAIN nest[pool] = 1 .. Len(nest[pool])
  BY LenProperties DEF NestOK
<1>2. QED
  BY <1>1 DEF WalkLevel, DoneOf

\* Traversal is the last level, and every level is made from the one below.
LEMMA LevelsAre ==
    ASSUME NEW objs, NEW nest, NEW S, NestOK(nest, S), IsFiniteSet(DOMAIN nest)
    PROVE  LET n == Cardinality(DOMAIN nest)
               w == LevelsOf(objs, nest)
           IN  /\ n \in Nat
               /\ Traversal(objs, nest) = w[n]
               /\ \A d \in 0 .. n : w[d] = WalkLevel(objs, nest, d, w[d - 1])
               /\ \A d \in 0 .. n : BelowOK(nest, S, w[d])
<1> DEFINE n == Cardinality(DOMAIN nest)
           w == LevelsOf(objs, nest)
<1>1. n \in Nat
  BY FS_CardinalityType
<1>2. Traversal(objs, nest) = w[n]
  BY DEF Traversal, LevelsOf, Walks, WalkLevel
<1>3. Walks(w, n, objs, nest)
  BY <1>1, WalkExists DEF LevelsOf
<1> HIDE DEF w, n
<1>4. \A d \in 0 .. n : w[d] = WalkLevel(objs, nest, d, w[d - 1])
  BY <1>3 DEF Walks
<1> DEFINE Bad == {m \in 0 .. n : ~BelowOK(nest, S, w[m])}
<1>5. Bad = {}
  <2> SUFFICES ASSUME Bad # {} PROVE FALSE
    OBVIOUS
  <2>1. PICK m \in Bad : \A k \in Bad : m <= k
    <3>1. Bad \in SUBSET Nat
      BY <1>1
    <3> HIDE DEF Bad
    <3>2. QED
      BY <3>1, LeastNatural
  <2>2. m \in 0 .. n /\ ~BelowOK(nest, S, w[m])
    OBVIOUS
  <2>3. m # 0 => BelowOK(nest, S, w[m - 1])
    <3>1. m # 0 => m - 1 \in 0 .. n /\ m - 1 < m
      BY <1>1, <2>2
    <3>2. m # 0 => m - 1 \notin Bad
      <4> HIDE DEF Bad
      <4>1. QED
        BY <1>1, <2>1, <2>2, <3>1
    <3>3. QED
      BY <3>1, <3>2
  <2>4. ASSUME NEW pool \in DOMAIN nest
        PROVE  w[m][pool] \in Seq(EntryOf(S))
    <3> DEFINE below == w[m - 1]
    <3>1. w[m] = WalkLevel(objs, nest, m, below) /\ pool \in S /\ m \in Nat
      BY <1>1, <1>4, <2>2 DEF NestOK
    <3>2. m # 0 => BelowOK(nest, S, below)
      BY <2>3
    <3> HIDE DEF below, Bad
    <3>3. CASE m = 0
      <4>1. WalkLevel(objs, nest, m, below)[pool] = <<Entry("loop", pool)>>
        BY <3>3, LevelLoops
      <4>2. <<Entry("loop", pool)>> \in Seq(EntryOf(S))
        BY <3>1, EntryTyped
      <4>3. QED
        BY <3>1, <4>1, <4>2
    <3>4. CASE m # 0
      <4>1. Len(nest[pool]) \in 0 .. Len(nest[pool])
        BY LenProperties DEF NestOK
      <4>2. DoneOf(objs, nest, below, pool, Len(nest[pool])) \in Seq(EntryOf(S))
        BY <3>2, <3>4, <4>1, DoneTyped
      <4>3. WalkLevel(objs, nest, m, below)[pool] =
               Append(DoneOf(objs, nest, below, pool, Len(nest[pool])), Entry("pool", pool))
        BY <3>1, <3>4, LevelIsDone, ZenonT(60)
      <4>4. Entry("pool", pool) \in EntryOf(S)
        BY <3>1, EntryTyped
      <4>5. QED
        BY <3>1, <4>2, <4>3, <4>4, AppendProperties
    <3>5. QED
      BY <3>3, <3>4
  <2>5. QED
    BY <2>2, <2>4 DEF BelowOK
<1>6. QED
  BY <1>1, <1>2, <1>4, <1>5 DEF w, n

(***************************************************************************)
(* Lists of entries.                                                       *)
(***************************************************************************)
LEMMA NoEntries ==
    /\ Expanded(<<>>) = <<>> /\ ~HasLoop(<<>>) /\ \A type : NamesOf(<<>>, type) = {}
<1>1. DOMAIN <<>> = {}
  OBVIOUS
<1>2. [i \in DOMAIN <<>> |-> IF IsMember(<<>>[i]) THEN <<<<>>[i]>> ELSE <<>>] = <<>>
  BY <1>1
<1>3. Expanded(<<>>) = <<>>
  BY <1>2, FlattenEmpty DEF Expanded
<1>4. QED
  BY <1>1, <1>3 DEF HasLoop, NamesOf

\* What is in two lists of entries put together.
LEMMA EntriesConcat ==
    ASSUME NEW S, NEW s \in Seq(EntryOf(S)), NEW t \in Seq(EntryOf(S))
    PROVE  /\ HasLoop(s \o t) <=> HasLoop(s) \/ HasLoop(t)
           /\ \A type : NamesOf(s \o t, type) = NamesOf(s, type) \cup NamesOf(t, type)
<1> DEFINE T == EntryOf(S)
           m == Len(s)
           n == Len(t)
           u == s \o t
<1>1. m \in Nat /\ n \in Nat /\ DOMAIN s = 1 .. m /\ DOMAIN t = 1 .. n
  BY LenProperties
<1>2. /\ u \in Seq(T) /\ Len(u) = m + n
      /\ \A i \in 1 .. (m + n) : u[i] = IF i <= m THEN s[i] ELSE t[i - m]
  BY ConcatProperties
<1>3. DOMAIN u = 1 .. (m + n)
  BY <1>2, LenProperties
<1> HIDE DEF T, m, n, u
<1>4. \A i \in 1 .. m : i \in DOMAIN u /\ u[i] = s[i]
  BY <1>1, <1>2, <1>3
<1>5. \A i \in 1 .. n : m + i \in DOMAIN u /\ u[m + i] = t[i]
  <2> SUFFICES ASSUME NEW i \in 1 .. n PROVE m + i \in DOMAIN u /\ u[m + i] = t[i]
    OBVIOUS
  <2>1. m + i \in 1 .. (m + n) /\ ~(m + i <= m) /\ (m + i) - m = i
    BY <1>1
  <2>2. QED
    BY <1>2, <1>3, <2>1
<1>6. \A i \in DOMAIN u : (i \in DOMAIN s /\ u[i] = s[i]) \/ \E j \in DOMAIN t : u[i] = t[j]
  <2> SUFFICES ASSUME NEW i \in DOMAIN u
               PROVE  (i \in DOMAIN s /\ u[i] = s[i]) \/ \E j \in DOMAIN t : u[i] = t[j]
    OBVIOUS
  <2>1. CASE i <= m
    BY <1>1, <1>2, <1>3, <2>1
  <2>2. CASE ~(i <= m)
    <3>1. i - m \in DOMAIN t
      BY <1>1, <1>3, <2>2
    <3>2. QED
      BY <1>2, <1>3, <2>2, <3>1
  <2>3. QED
    BY <2>1, <2>2
<1>7. HasLoop(u) <=> HasLoop(s) \/ HasLoop(t)
  BY <1>1, <1>4, <1>5, <1>6 DEF HasLoop
<1>8. ASSUME NEW type
      PROVE  NamesOf(u, type) = NamesOf(s, type) \cup NamesOf(t, type)
  <2>1. NamesOf(u, type) \subseteq NamesOf(s, type) \cup NamesOf(t, type)
    BY <1>6 DEF NamesOf
  <2>2. NamesOf(s, type) \subseteq NamesOf(u, type)
    BY <1>1, <1>4 DEF NamesOf
  <2>3. NamesOf(t, type) \subseteq NamesOf(u, type)
    BY <1>1, <1>5 DEF NamesOf
  <2>4. QED
    BY <2>1, <2>2, <2>3
<1>9. QED
  BY <1>7, <1>8 DEF u

\* What one more entry changes.
LEMMA EntriesAppend ==
    ASSUME NEW S, NEW s \in Seq(EntryOf(S)), NEW e \in EntryOf(S)
    PROVE  /\ Append(s, e) \in Seq(EntryOf(S))
           /\ HasLoop(Append(s, e)) <=> HasLoop(s) \/ e.type = "loop"
           /\ \A type : NamesOf(Append(s, e), type) =
                           NamesOf(s, type) \cup (IF e.type = type THEN {e.name} ELSE {})
           /\ Expanded(Append(s, e)) = IF IsMember(e) THEN Append(Expanded(s), e) ELSE Expanded(s)
<1> DEFINE T == EntryOf(S)
           n == Len(s)
           u == Append(s, e)
           kept(x) == IF IsMember(x) THEN <<x>> ELSE <<>>
           parts == [i \in DOMAIN s |-> kept(s[i])]
           more == [i \in DOMAIN u |-> kept(u[i])]
<1>1. n \in Nat /\ DOMAIN s = 1 .. n /\ \A i \in 1 .. n : s[i] \in T
  BY LenProperties, ElementOfSeq
<1>2. u \in Seq(T) /\ Len(u) = n + 1 /\ (\A i \in 1 .. n : u[i] = s[i]) /\ u[n + 1] = e
  BY AppendProperties
<1>3. DOMAIN u = 1 .. (n + 1)
  BY <1>2, LenProperties
<1>4. \A x \in T : kept(x) \in Seq(T)
  OBVIOUS
<1>5. Expanded(u) = FlattenSeq(more) /\ Expanded(s) = FlattenSeq(parts)
  BY DEF Expanded
<1> HIDE DEF T, n, u
<1>6. HasLoop(u) <=> HasLoop(s) \/ e.type = "loop"
  BY <1>1, <1>2, <1>3 DEF HasLoop
<1>7. ASSUME NEW type
      PROVE  NamesOf(u, type) = NamesOf(s, type) \cup (IF e.type = type THEN {e.name} ELSE {})
  BY <1>1, <1>2, <1>3 DEF NamesOf
<1>8. Expanded(u) = IF IsMember(e) THEN Append(Expanded(s), e) ELSE Expanded(s)
  <2> HIDE DEF kept
  <2> DEFINE TT == Seq(T)
  <2>1. \A i \in 1 .. n : kept(s[i]) \in TT
    BY <1>1, <1>4
  <2>2. kept(e) \in TT
    BY <1>4 DEF T
  <2> HIDE DEF TT
  <2>3. parts \in Seq(TT)
    BY <1>1, <2>1
  <2>4. more = Append(parts, kept(e))
    <3>1. Len(parts) = n /\ DOMAIN Append(parts, kept(e)) = 1 .. (n + 1)
      BY <1>1
    <3>2. \A i \in 1 .. (n + 1) : Append(parts, kept(e))[i] = IF i = n + 1 THEN kept(e) ELSE kept(s[i])
      BY <1>1, <3>1
    <3>3. \A i \in 1 .. (n + 1) : more[i] = IF i = n + 1 THEN kept(e) ELSE kept(s[i])
      BY <1>1, <1>2, <1>3
    <3>4. DOMAIN more = 1 .. (n + 1)
      BY <1>3
    <3>5. QED
      BY <1>1, <1>3, <3>1, <3>2, <3>3
  <2> HIDE DEF parts, more
  <2>5. Expanded(u) = FlattenSeq(parts) \o kept(e)
    BY <1>5, <2>2, <2>3, <2>4, FlattenAppend DEF TT
  <2>6. FlattenSeq(parts) \in Seq(T)
    BY <2>3, FlattenIsSequence DEF TT
  <2>7. e \in T
    BY DEF T
  <2>8. QED
    BY <1>5, <2>5, <2>6, <2>7, ConcatEmptySeq DEF kept
<1>9. QED
  BY <1>2, <1>6, <1>7, <1>8 DEF u, T

(***************************************************************************)
(* Levels without a loop.                                                  *)
(***************************************************************************)
\* The first k members give a loop when one of them does.
LEMMA DoneLoops ==
    ASSUME NEW objs, NEW nest, NEW S, NestOK(nest, S), NEW below, BelowOK(nest, S, below),
           NEW pool \in DOMAIN nest
    PROVE  \A k \in 0 .. Len(nest[pool]) :
              HasLoop(DoneOf(objs, nest, below, pool, k)) <=>
                 \E i \in 1 .. k : HasLoop(EntriesOf(objs, nest, nest[pool][i], below))
<1> DEFINE n == Len(nest[pool])
           part(i) == EntriesOf(objs, nest, nest[pool][i], below)
           done(k) == DoneOf(objs, nest, below, pool, k)
           Right(k) == HasLoop(done(k)) <=> \E i \in 1 .. k : HasLoop(part(i))
           Bad == {k \in 0 .. n : ~Right(k)}
<1>1. n \in Nat
  BY LenProperties DEF NestOK
<1>2. Bad = {}
  <2> SUFFICES ASSUME Bad # {} PROVE FALSE
    OBVIOUS
  <2>1. PICK k \in Bad : \A l \in Bad : k <= l
    <3>1. Bad \in SUBSET Nat
      BY <1>1
    <3> HIDE DEF Bad
    <3>2. QED
      BY <3>1, LeastNatural
  <2>2. k \in 0 .. n /\ ~Right(k)
    OBVIOUS
  <2>3. k # 0
    <3>1. Right(0)
      BY DoneZero, NoEntries
    <3> HIDE DEF Right
    <3>2. QED
      BY <2>2, <3>1
  <2> DEFINE j == k - 1
  <2>4. j \in 0 .. n /\ j # n /\ j < k /\ k = j + 1 /\ 1 .. k = (1 .. j) \cup {k}
    BY <1>1, <2>2, <2>3
  <2>5. Right(j)
    <3>1. j \notin Bad
      <4> HIDE DEF Bad, j
      <4>1. QED
        BY <1>1, <2>1, <2>2, <2>4
    <3>2. QED
      BY <2>4, <3>1
  <2> HIDE DEF j
  <2>6. done(j + 1) = done(j) \o part(j + 1) /\ part(j + 1) \in Seq(EntryOf(S)) /\ done(j) \in Seq(EntryOf(S))
    <3>1. j \in 0 .. Len(nest[pool]) /\ j # Len(nest[pool])
      BY <2>4
    <3> HIDE DEF Bad, Right
    <3>2. QED
      BY <3>1, DoneNext
  <2>7. HasLoop(done(k)) <=> HasLoop(done(j)) \/ HasLoop(part(k))
    <3> DEFINE s == done(j)
               t == part(k)
    <3>1. done(k) = s \o t /\ s \in Seq(EntryOf(S)) /\ t \in Seq(EntryOf(S))
      BY <2>4, <2>6
    <3> HIDE DEF s, t, Bad, Right
    <3>2. HasLoop(s \o t) <=> HasLoop(s) \/ HasLoop(t)
      BY <3>1, EntriesConcat
    <3>3. HasLoop(done(k)) <=> HasLoop(s) \/ HasLoop(t)
      BY <3>1, <3>2
    <3>4. QED
      BY <3>3 DEF s, t
  <2>8. QED
    BY <2>2, <2>4, <2>5, <2>7
<1>3. QED
  BY <1>2

(***************************************************************************)
(* A pool has no loop in a level only if nothing reachable contains itself *)
(***************************************************************************)
PoolCount == Cardinality(DOMAIN pools)
Level == LevelsOf(objects, pools)
Part(d, name) == EntriesOf(objects, pools, name, Level[d])
Done(d, pool, k) == DoneOf(objects, pools, Level[d], pool, k)
LoopFree(d) == {pool \in DOMAIN pools : ~HasLoop(Level[d][pool])}

\* The levels of the dictionaries of the state.
LEMMA Levels ==
    ASSUME TypeOK, IsFiniteSet(DOMAIN pools)
    PROVE  /\ NestOK(pools, Names) /\ PoolCount \in Nat
           /\ Traversal(objects, pools) = Level[PoolCount]
           /\ \A d \in 0 .. PoolCount : BelowOK(pools, Names, Level[d])
           /\ \A pool \in DOMAIN pools : Level[0][pool] = <<Entry("loop", pool)>>
           /\ \A d \in 1 .. PoolCount : \A pool \in DOMAIN pools :
                 Level[d][pool] = Append(Done(d - 1, pool, Len(Members(pool))), Entry("pool", pool))
<1>1. NestOK(pools, Names)
  BY DEF TypeOK, NestOK
<1>2. /\ PoolCount \in Nat
      /\ Traversal(objects, pools) = Level[PoolCount]
      /\ \A d \in 0 .. PoolCount : Level[d] = WalkLevel(objects, pools, d, Level[d - 1])
      /\ \A d \in 0 .. PoolCount : BelowOK(pools, Names, Level[d])
  BY <1>1, LevelsAre DEF PoolCount, Level
<1>3. ASSUME NEW pool \in DOMAIN pools
      PROVE  Level[0][pool] = <<Entry("loop", pool)>>
  <2>1. 0 \in 0 .. PoolCount
    BY <1>2
  <2>2. Level[0] = WalkLevel(objects, pools, 0, Level[0 - 1])
    BY <1>2, <2>1
  <2>3. QED
    BY <2>2, LevelLoops
<1>4. ASSUME NEW d \in 1 .. PoolCount, NEW pool \in DOMAIN pools
      PROVE  Level[d][pool] = Append(Done(d - 1, pool, Len(Members(pool))), Entry("pool", pool))
  <2> DEFINE below == Level[d - 1]
  <2>1. d \in 0 .. PoolCount /\ d \in Nat \ {0}
    BY <1>2
  <2>2. Level[d] = WalkLevel(objects, pools, d, below)
    BY <1>2, <2>1
  <2> HIDE DEF below
  <2>3. WalkLevel(objects, pools, d, below)[pool] =
           Append(DoneOf(objects, pools, below, pool, Len(pools[pool])), Entry("pool", pool))
    BY <1>1, <2>1, LevelIsDone, ZenonT(60)
  <2>4. QED
    BY <2>2, <2>3 DEF Done, Members, below
<1>5. QED
  BY <1>1, <1>2, <1>3, <1>4

\* A member more.
LEMMA DoneFurther ==
    ASSUME TypeOK, IsFiniteSet(DOMAIN pools), NEW d \in 0 .. PoolCount, NEW pool \in DOMAIN pools,
           NEW k \in 0 .. Len(Members(pool)), k # Len(Members(pool))
    PROVE  /\ Done(d, pool, k + 1) = Done(d, pool, k) \o Part(d, Members(pool)[k + 1])
           /\ Part(d, Members(pool)[k + 1]) \in Seq(EntryOf(Names))
           /\ Done(d, pool, k) \in Seq(EntryOf(Names))
<1> DEFINE below == Level[d]
<1>1. NestOK(pools, Names) /\ BelowOK(pools, Names, below)
  BY Levels
<1>2. k \in 0 .. Len(pools[pool]) /\ k # Len(pools[pool])
  BY DEF Members
<1> HIDE DEF below
<1>3. /\ DoneOf(objects, pools, below, pool, k + 1) =
            DoneOf(objects, pools, below, pool, k) \o EntriesOf(objects, pools, pools[pool][k + 1], below)
      /\ EntriesOf(objects, pools, pools[pool][k + 1], below) \in Seq(EntryOf(Names))
      /\ DoneOf(objects, pools, below, pool, k) \in Seq(EntryOf(Names))
  BY <1>1, <1>2, DoneNext
<1>4. QED
  BY <1>3 DEF Done, Part, Members, below

\* A pool has no loop when none of its members has one, one level below.
LEMMA LoopFreeMembers ==
    ASSUME TypeOK, IsFiniteSet(DOMAIN pools), NEW d \in 1 .. PoolCount, NEW pool \in DOMAIN pools
    PROVE  pool \in LoopFree(d) <=>
              \A i \in DOMAIN Members(pool) :
                 Opens(Members(pool)[i]) => Members(pool)[i] \in LoopFree(d - 1)
<1> DEFINE c == d - 1
           n == Len(Members(pool))
           list == Done(c, pool, n)
<1>1. c \in 0 .. PoolCount /\ n \in Nat /\ DOMAIN Members(pool) = 1 .. n /\ n \in 0 .. n
  BY Levels, MembersAreNames
<1>2. Level[d][pool] = Append(list, Entry("pool", pool))
  BY Levels
<1>3. NestOK(pools, Names) /\ BelowOK(pools, Names, Level[c])
  BY <1>1, Levels
<1> HIDE DEF c
<1>4. list \in Seq(EntryOf(Names))
  <2>1. n \in 0 .. Len(pools[pool])
    BY <1>1 DEF Members
  <2>2. QED
    BY <1>3, <2>1, DoneTyped DEF Done
<1>5. HasLoop(list) <=> \E i \in 1 .. n : HasLoop(Part(c, Members(pool)[i]))
  <2> DEFINE below == Level[c]
  <2>1. n \in 0 .. Len(pools[pool]) /\ BelowOK(pools, Names, below)
    BY <1>1, <1>3 DEF Members
  <2> HIDE DEF below, n
  <2>2. HasLoop(DoneOf(objects, pools, below, pool, n)) <=>
           \E i \in 1 .. n : HasLoop(EntriesOf(objects, pools, pools[pool][i], below))
    BY <1>3, <2>1, DoneLoops
  <2>3. QED
    BY <2>2 DEF Done, Part, Members, below
<1>6. \A name : HasLoop(Part(c, name)) <=> Opens(name) /\ name \notin LoopFree(c)
  <2> SUFFICES ASSUME NEW name PROVE HasLoop(Part(c, name)) <=> Opens(name) /\ name \notin LoopFree(c)
    OBVIOUS
  <2>1. CASE Opens(name)
    BY <2>1 DEF Part, EntriesOf, Opens, LoopFree
  <2>2. CASE ~Opens(name)
    <3>1. Part(c, name) = <<Entry("object", name)>> \/ Part(c, name) = <<Entry("unresolved", name)>>
      BY <2>2 DEF Part, EntriesOf, Opens
    <3>2. QED
      BY <2>2, <3>1 DEF HasLoop, Entry
  <2>3. QED
    BY <2>1, <2>2
<1>7. HasLoop(Level[d][pool]) <=> HasLoop(list)
  <2>1. Entry("pool", pool) \in EntryOf(Names) /\ Entry("pool", pool).type = "pool"
    BY EntryTyped DEF TypeOK
  <2> HIDE DEF list
  <2>2. QED
    BY <1>2, <1>4, <2>1, EntriesAppend
<1>8. QED
  BY <1>1, <1>5, <1>6, <1>7 DEF LoopFree, c

\* More depth never makes a loop: by the first depth where it would.
LEMMA LoopFreeGrows ==
    ASSUME TypeOK, IsFiniteSet(DOMAIN pools), NEW d \in 1 .. PoolCount
    PROVE  LoopFree(d - 1) \subseteq LoopFree(d)
<1> DEFINE Bad == {c \in 1 .. PoolCount : ~(LoopFree(c - 1) \subseteq LoopFree(c))}
<1>1. PoolCount \in Nat
  BY Levels
<1>2. Bad = {}
  <2> SUFFICES ASSUME Bad # {} PROVE FALSE
    OBVIOUS
  <2>1. PICK c \in Bad : \A k \in Bad : c <= k
    <3>1. Bad \in SUBSET Nat
      OBVIOUS
    <3> HIDE DEF Bad
    <3>2. QED
      BY <3>1, LeastNatural
  <2>2. c \in 1 .. PoolCount /\ ~(LoopFree(c - 1) \subseteq LoopFree(c))
    OBVIOUS
  <2>3. LoopFree(0) = {}
    <3>1. ASSUME NEW pool \in DOMAIN pools PROVE HasLoop(Level[0][pool])
      <4>1. Level[0][pool] = <<Entry("loop", pool)>>
        BY Levels
      <4>2. QED
        BY <4>1 DEF HasLoop, Entry
    <3>2. QED
      BY <3>1 DEF LoopFree
  <2>4. c # 1
    BY <2>2, <2>3
  <2> DEFINE b == c - 1
  <2>5. b \in 1 .. PoolCount /\ b < c
    BY <1>1, <2>2, <2>4
  <2>6. LoopFree(b - 1) \subseteq LoopFree(b)
    <3>1. b \notin Bad
      <4> HIDE DEF Bad, b
      <4>1. QED
        BY <1>1, <2>1, <2>2, <2>5
    <3>2. QED
      BY <2>5, <3>1
  <2>7. ASSUME NEW pool \in LoopFree(b)
        PROVE  pool \in LoopFree(c)
    <3> HIDE DEF Bad
    <3>1. pool \in DOMAIN pools
      BY DEF LoopFree
    <3>2. \A i \in DOMAIN Members(pool) : Opens(Members(pool)[i]) => Members(pool)[i] \in LoopFree(b - 1)
      <4> HIDE DEF b
      <4>1. QED
        BY <2>5, <2>7, <3>1, LoopFreeMembers
    <3>3. \A i \in DOMAIN Members(pool) : Opens(Members(pool)[i]) => Members(pool)[i] \in LoopFree(c - 1)
      BY <2>6, <3>2
    <3>4. QED
      BY <2>2, <3>1, <3>3, LoopFreeMembers
  <2>8. QED
    BY <2>2, <2>7
<1>3. d \notin Bad
  BY <1>2
<1>4. QED
  BY <1>3

\* Nothing that is reachable from a pool without a loop has one.
LEMMA LoopFreeReaches ==
    ASSUME TypeOK, IsFiniteSet(DOMAIN pools), NEW d \in 1 .. PoolCount, NEW pool \in LoopFree(d),
           NEW name \in ReachableFrom(pool), Opens(name)
    PROVE  name \in LoopFree(d - 1)
<1> DEFINE S == {n \in Names : Opens(n) => n \in LoopFree(d - 1)}
<1>1. pool \in DOMAIN pools /\ PoolCount \in Nat
  BY Levels DEF LoopFree
<1>2. ASSUME NEW c \in 1 .. PoolCount, NEW outer \in LoopFree(c), NEW i \in DOMAIN Members(outer)
      PROVE  Members(outer)[i] \in Names /\ (Opens(Members(outer)[i]) => Members(outer)[i] \in LoopFree(c - 1))
  <2>1. outer \in DOMAIN pools
    BY <1>2 DEF LoopFree
  <2>2. Members(outer)[i] \in Names
    BY <1>2, <2>1, MembersAreNames DEF Range
  <2>3. QED
    BY <1>2, <2>1, <2>2, LoopFreeMembers
<1>3. Range(Members(pool)) \subseteq S
  BY <1>2 DEF Range
<1>4. ClosedUnderMembers(S)
  <2> SUFFICES ASSUME NEW outer \in S, Opens(outer), NEW i \in DOMAIN Members(outer)
               PROVE  Members(outer)[i] \in S
    BY DEF ClosedUnderMembers
  <2> DEFINE c == d - 1
  <2>1. outer \in LoopFree(c)
    OBVIOUS
  <2>2. c # 0
    <3>1. outer \in DOMAIN pools /\ Level[0][outer] = <<Entry("loop", outer)>>
      BY <2>1, Levels DEF LoopFree
    <3>2. HasLoop(Level[0][outer])
      BY <3>1 DEF HasLoop, Entry
    <3>3. QED
      BY <2>1, <3>2 DEF LoopFree
  <2>3. c \in 1 .. PoolCount
    BY <1>1, <2>2
  <2>4. Members(outer)[i] \in Names /\ (Opens(Members(outer)[i]) => Members(outer)[i] \in LoopFree(c - 1))
    <3> HIDE DEF c, S
    <3>1. QED
      BY <1>2, <2>1, <2>3
  <2>5. LoopFree(c - 1) \subseteq LoopFree(c)
    <3> HIDE DEF c
    <3>1. QED
      BY <2>3, LoopFreeGrows
  <2>6. QED
    BY <2>4, <2>5
<1>5. ReachableFrom(pool) \subseteq S
  <2>1. S \in SUBSET Names
    OBVIOUS
  <2> HIDE DEF S
  <2>2. QED
    BY <1>3, <1>4, <2>1, ReachableLeast
<1>6. QED
  BY <1>5

\* A pool that contains itself has a loop at every depth: at the least depth
\* where it had none it would have none one level below.
LEMMA LoopFreeIsFree ==
    ASSUME TypeOK, IsFiniteSet(DOMAIN pools), NEW d \in 0 .. PoolCount, NEW pool \in LoopFree(d)
    PROVE  ~ContainsItself(pool)
<1> SUFFICES ASSUME ContainsItself(pool) PROVE FALSE
  OBVIOUS
<1> DEFINE Depths == {c \in 0 .. PoolCount : pool \in LoopFree(c)}
<1>1. PoolCount \in Nat /\ pool \in DOMAIN pools
  BY Levels DEF LoopFree
<1>2. PICK c \in Depths : \A k \in Depths : c <= k
  <2>1. Depths \in SUBSET Nat /\ d \in Depths
    OBVIOUS
  <2> HIDE DEF Depths
  <2>2. QED
    BY <2>1, LeastNatural
<1>3. c \in 0 .. PoolCount /\ pool \in LoopFree(c)
  OBVIOUS
<1>4. c # 0
  <2>1. Level[0][pool] = <<Entry("loop", pool)>>
    BY <1>1, Levels
  <2>2. HasLoop(Level[0][pool])
    BY <2>1 DEF HasLoop, Entry
  <2>3. QED
    BY <1>3, <2>2 DEF LoopFree
<1>5. c - 1 \in 0 .. PoolCount /\ c \in 1 .. PoolCount /\ ~(c <= c - 1)
  BY <1>1, <1>3, <1>4
<1>6. pool \in LoopFree(c - 1)
  BY <1>3, <1>5, LoopFreeReaches DEF ContainsItself
<1>7. c - 1 \notin Depths
  <2> HIDE DEF Depths
  <2>1. QED
    BY <1>2, <1>5
<1>8. QED
  BY <1>5, <1>6, <1>7

\* The function meets a loop when a reachable pool contains itself.
LEMMA LoopInTraversal ==
    ASSUME TypeOK, root \notin objects, IsFiniteSet(DOMAIN pools), LoopReachable
    PROVE  HasLoop(Traversal(objects, pools)[root])
<1>1. /\ PoolCount \in Nat /\ Traversal(objects, pools) = Level[PoolCount]
      /\ root \in DOMAIN pools
  BY Levels DEF TypeOK
<1>2. PoolCount \in 1 .. PoolCount /\ PoolCount \in 0 .. PoolCount /\ PoolCount - 1 \in 0 .. PoolCount
  <2>1. PoolCount # 0
    BY <1>1, FS_EmptySet DEF PoolCount
  <2>2. QED
    BY <1>1, <2>1
<1>3. root \notin LoopFree(PoolCount)
  <2> SUFFICES ASSUME root \in LoopFree(PoolCount) PROVE FALSE
    OBVIOUS
  <2>1. PICK pool \in {root} \cup ReachableFrom(root) : Opens(pool) /\ ContainsItself(pool)
    BY DEF LoopReachable
  <2>2. CASE pool = root
    BY <1>2, <2>1, <2>2, LoopFreeIsFree
  <2>3. CASE pool \in ReachableFrom(root)
    <3>1. pool \in LoopFree(PoolCount - 1)
      BY <1>2, <2>1, <2>3, LoopFreeReaches
    <3>2. QED
      BY <1>2, <2>1, <3>1, LoopFreeIsFree
  <2>4. QED
    BY <2>1, <2>2, <2>3
<1>4. QED
  BY <1>1, <1>3 DEF LoopFree

(***************************************************************************)
(* The stack is no deeper than there are pools.                            *)
(***************************************************************************)
LEMMA StackIsSmall ==
    ASSUME PoolInv, IsFiniteSet(DOMAIN pools), ~ContainsItself(root)
    PROVE  Depth <= PoolCount
<1>1. /\ TypeOK /\ ChainInv /\ Depth \in Nat /\ PoolCount \in Nat
      /\ \A i \in 1 .. Depth : chain[i].pool \in DOMAIN pools /\ chain[i].taken \in Nat
                               /\ chain[i].taken <= Len(Members(chain[i].pool))
  BY ChainPlaces, Levels DEF PoolInv
<1>2. root \in DOMAIN pools /\ root \in Names /\ Opens(root)
  BY DEF PoolInv, TypeOK, Opens
<1>3. ASSUME NEW i \in 2 .. Depth, chain[i].pool = root
      PROVE  FALSE
  <2> DEFINE j == i - 1
             outer == chain[j].pool
  <2>1. j \in 1 .. Depth /\ j \in 1 .. (Depth - 1) /\ i = j + 1 /\ 1 \in 1 .. Depth /\ 1 <= j
    BY <1>1
  <2> HIDE DEF j
  <2>2. /\ chain[j].taken >= 1 /\ Members(outer)[chain[j].taken] = root
        /\ outer \in Below[root] /\ outer \notin objects
    BY <1>1, <1>3, <2>1 DEF ChainInv
  <2>3. outer \in DOMAIN pools /\ chain[j].taken \in Nat /\ chain[j].taken <= Len(Members(outer))
    BY <1>1, <2>1
  <2> HIDE DEF outer
  <2>4. DOMAIN Members(outer) = 1 .. Len(Members(outer)) /\ Len(Members(outer)) \in Nat
    BY <1>1, <2>3, MembersAreNames
  <2>5. root \in Range(Members(outer))
    BY <2>2, <2>3, <2>4 DEF Range
  <2>6. outer = root \/ outer \in ReachableFrom(root)
    BY <1>2, <2>2 DEF Below
  <2>7. root \in ReachableFrom(root)
    BY <1>2, <2>2, <2>3, <2>5, <2>6, ReachesMembers, ReachesFurther DEF Opens
  <2>8. QED
    BY <1>2, <2>7 DEF ContainsItself
<1>4. \A i, j \in 1 .. Depth : chain[i].pool = chain[j].pool => i = j
  <2> SUFFICES ASSUME NEW i \in 1 .. Depth, NEW j \in 1 .. Depth, chain[i].pool = chain[j].pool
               PROVE  i = j
    OBVIOUS
  <2>1. (i = 1 \/ i \in 2 .. Depth) /\ (j = 1 \/ j \in 2 .. Depth) /\ Depth >= 1
    BY <1>1
  <2>2. chain[1].pool = root
    BY <1>1, <2>1 DEF ChainInv
  <2>3. QED
    BY <1>1, <1>3, <2>1, <2>2 DEF ChainInv
<1> DEFINE f == [i \in 1 .. Depth |-> chain[i].pool]
<1>5. f \in [1 .. Depth -> DOMAIN pools] /\ \A i, j \in 1 .. Depth : i # j => f[i] # f[j]
  BY <1>1, <1>4
<1>6. IsFiniteSet(1 .. Depth) /\ Cardinality(1 .. Depth) = Depth
  <2>1. 1 \in Int /\ Depth \in Int
    BY <1>1
  <2>2. IsFiniteSet(1 .. Depth) /\ Cardinality(1 .. Depth) = IF 1 > Depth THEN 0 ELSE Depth - 1 + 1
    BY <2>1, FS_Interval
  <2>3. QED
    BY <1>1, <2>2
<1> HIDE DEF f
<1>7. ~(Cardinality(DOMAIN pools) < Cardinality(1 .. Depth))
  BY <1>5, <1>6, FS_PigeonHole
<1>8. QED
  BY <1>1, <1>6, <1>7 DEF PoolCount

(***************************************************************************)
(* What the loop has met so far, in the terms of the function.  `met' is   *)
(* what it has met in all; start[i] is what it had met when it entered the *)
(* pool at place i of the stack.                                           *)
(***************************************************************************)
Lists == Seq(EntryOf(Names))
Taken(i) == IF i < Depth THEN chain[i].taken - 1 ELSE chain[i].taken
Gathered(i) == Done(PoolCount - i, chain[i].pool, Taken(i))

Reports(met) ==
    /\ expanded = Expanded(met) /\ Range(unresolved) = NamesOf(met, "unresolved")
    /\ ~HasLoop(met)

Splits(met, start) ==
    /\ start[1] = <<>>
    /\ \A i \in 1 .. Depth : start[i] \o Gathered(i) = IF i = Depth THEN met ELSE start[i + 1]

Placed(met) ==
    IF chain = <<>> THEN met = Level[PoolCount][root]
    ELSE \E start \in [1 .. Depth -> Lists] : Splits(met, start)

\* While the root is free of loops, the lists report an actual list of entries
\* that is split between the pools on the stack.
MetInv == ~ContainsItself(root) => \E met \in Lists : Reports(met) /\ Placed(met)

WalkInv == PoolInv /\ IsFiniteSet(DOMAIN pools) /\ MetInv

LEMMA ConcatThree ==
    ASSUME NEW S, NEW s \in Seq(S), NEW t \in Seq(S), NEW u \in Seq(S)
    PROVE  s \o t \in Seq(S) /\ (s \o t) \o u = s \o (t \o u)
BY ConcatProperties

\* The dictionaries, and so the levels, do not change.
LEMMA LevelsKept ==
    ASSUME UNCHANGED dictionary
    PROVE  /\ PoolCount' = PoolCount /\ Level' = Level
           /\ IsFiniteSet(DOMAIN pools)' <=> IsFiniteSet(DOMAIN pools)
           /\ ContainsItself(root)' <=> ContainsItself(root)
BY DictionaryKept DEF PoolCount, Level, ContainsItself

LEMMA GatheredKept ==
    ASSUME UNCHANGED dictionary, NEW i, NEW pool, NEW k, chain'[i].pool = pool, Taken(i)' = k
    PROVE  Gathered(i)' = Done(PoolCount - i, pool, k)
BY LevelsKept, DictionaryKept DEF Gathered, Done

\* What was gathered of a pool on the stack is a list of entries.
LEMMA GatheredTyped ==
    ASSUME PoolInv, IsFiniteSet(DOMAIN pools), ~ContainsItself(root), NEW i \in 1 .. Depth
    PROVE  Gathered(i) \in Lists
<1>1. /\ TypeOK /\ PoolCount \in Nat /\ Depth \in Nat /\ Depth <= PoolCount
      /\ chain[i].pool \in DOMAIN pools /\ chain[i].taken \in Nat
      /\ chain[i].taken <= Len(Members(chain[i].pool)) /\ (i < Depth => chain[i].taken >= 1)
  <2>1. TypeOK /\ ChainInv /\ Depth \in Nat
    BY ChainPlaces DEF PoolInv
  <2>2. i < Depth => i \in 1 .. (Depth - 1)
    BY <2>1
  <2>3. i < Depth => chain[i].taken >= 1
    BY <2>1, <2>2 DEF ChainInv
  <2>4. QED
    BY <2>1, <2>3, ChainPlaces, Levels, StackIsSmall
<1>2. Len(Members(chain[i].pool)) \in Nat
  BY <1>1, MembersAreNames
<1>3. Taken(i) \in 0 .. Len(Members(chain[i].pool)) /\ PoolCount - i \in 0 .. PoolCount
  BY <1>1, <1>2 DEF Taken
<1> DEFINE pool == chain[i].pool
           k == Taken(i)
           below == Level[PoolCount - i]
<1>4. NestOK(pools, Names) /\ BelowOK(pools, Names, below)
  BY <1>1, <1>3, Levels
<1>5. pool \in DOMAIN pools /\ k \in 0 .. Len(pools[pool])
  BY <1>1, <1>3 DEF Members
<1> HIDE DEF below, k, pool
<1>6. DoneOf(objects, pools, below, pool, k) \in Seq(EntryOf(Names))
  BY <1>4, <1>5, DoneTyped
<1>7. QED
  BY <1>6 DEF Gathered, Done, Lists, pool, k, below

\* One more member of the pool on top is taken.
LEMMA MoreTaken ==
    ASSUME PoolInv, IsFiniteSet(DOMAIN pools), ~ContainsItself(root), chain # <<>>, ~Exhausted,
           chain' = TopTaken, UNCHANGED dictionary,
           NEW met \in Lists, Placed(met), NEW more, more = met \o Part(PoolCount - Depth, NextName)
    PROVE  Placed(more)'
<1>1. PICK start \in [1 .. Depth -> Lists] : Splits(met, start)
  BY DEF Placed
<1>2. /\ TypeOK /\ Depth \in Nat /\ Depth >= 1 /\ PoolCount \in Nat /\ Depth <= PoolCount
      /\ \A i \in 1 .. Depth : chain[i].pool \in DOMAIN pools /\ chain[i].taken \in Nat
                               /\ chain[i].taken <= Len(Members(chain[i].pool))
  BY ChainPlaces, Levels, StackIsSmall DEF PoolInv
<1>3. /\ Depth' = Depth /\ chain' # <<>>
      /\ \A i \in 1 .. Depth :
            /\ chain'[i].pool = chain[i].pool
            /\ chain'[i].taken = IF i = Depth THEN chain[i].taken + 1 ELSE chain[i].taken
  <2>1. Depth' = Depth
    BY <1>2, TopTakenPlaces DEF Depth
  <2>2. DOMAIN chain' = 1 .. Depth
    BY <1>2, TopTakenPlaces
  <2>3. chain' # <<>>
    BY <1>2, <2>2
  <2>4. QED
    BY <1>2, <2>1, <2>3, TopTakenPlaces
<1>4. ASSUME NEW i \in 1 .. Depth, i # Depth
      PROVE  Gathered(i)' = Gathered(i)
  <2>1. i < Depth /\ Taken(i)' = Taken(i) /\ chain'[i].pool = chain[i].pool
    BY <1>2, <1>3, <1>4 DEF Taken
  <2>2. QED
    BY <2>1, GatheredKept DEF Gathered
<1>5. ASSUME NEW i \in 1 .. Depth, i = Depth
      PROVE  /\ Gathered(i)' = Gathered(i) \o Part(PoolCount - Depth, NextName)
             /\ Part(PoolCount - Depth, NextName) \in Lists
  <2> DEFINE d == PoolCount - i
             pool == chain[i].pool
             k == chain[i].taken
  <2>1. k \in 0 .. Len(Members(pool)) /\ k # Len(Members(pool)) /\ NextName = Members(pool)[k + 1]
    <3>1. Top = chain[i] /\ Len(Members(pool)) \in Nat
      BY <1>2, <1>5, ChainPlaces, MembersAreNames
    <3>2. QED
      BY <1>2, <3>1 DEF Exhausted, NextName
  <2>2. d \in 0 .. PoolCount /\ pool \in DOMAIN pools
    BY <1>2, <1>5
  <2>3. Gathered(i) = Done(d, pool, k)
    BY <1>2, <1>5 DEF Gathered, Taken
  <2>4. Taken(i)' = k + 1 /\ chain'[i].pool = pool
    BY <1>2, <1>3, <1>5 DEF Taken
  <2> HIDE DEF pool, k
  <2>5. Gathered(i)' = Done(d, pool, k + 1)
    BY <2>4, GatheredKept
  <2> HIDE DEF d
  <2>6. /\ Done(d, pool, k + 1) = Done(d, pool, k) \o Part(d, NextName)
        /\ Part(d, NextName) \in Seq(EntryOf(Names))
    BY <1>2, <2>1, <2>2, DoneFurther
  <2>7. QED
    BY <1>5, <2>3, <2>5, <2>6 DEF d, Lists
<1>6. \A i \in 1 .. Depth : start[i] \o Gathered(i)' = IF i = Depth THEN more ELSE start[i + 1]
  <2> SUFFICES ASSUME NEW i \in 1 .. Depth
               PROVE  start[i] \o Gathered(i)' = IF i = Depth THEN more ELSE start[i + 1]
    OBVIOUS
  <2>1. start[i] \o Gathered(i) = IF i = Depth THEN met ELSE start[i + 1]
    BY <1>1 DEF Splits
  <2>2. CASE i # Depth
    BY <1>4, <2>1, <2>2
  <2>3. CASE i = Depth
    <3> DEFINE part == Part(PoolCount - Depth, NextName)
               old == Gathered(i)
    <3>1. Gathered(i)' = old \o part /\ part \in Lists /\ start[i] \in Lists /\ old \in Lists
      BY <1>5, <2>3, GatheredTyped
    <3>2. start[i] \o old = met /\ more = met \o part
      BY <2>1, <2>3
    <3> HIDE DEF part, old
    <3>3. (start[i] \o old) \o part = start[i] \o (old \o part)
      BY <3>1, ConcatThree, SMTT(30) DEF Lists
    <3>4. QED
      BY <2>3, <3>1, <3>2, <3>3
  <2>4. QED
    BY <2>2, <2>3
<1>7. Splits(more, start)'
  BY <1>1, <1>3, <1>6 DEF Splits
<1>8. QED
  BY <1>3, <1>7 DEF Placed, Lists

LEMMA ListsThree ==
    ASSUME NEW s \in Lists, NEW t \in Lists, NEW u \in Lists
    PROVE  (s \o t) \o u = s \o (t \o u)
BY ConcatThree DEF Lists

LEMMA InitWalk == Init => WalkInv
<1> SUFFICES ASSUME Init PROVE WalkInv
  OBVIOUS
<1>1. PoolInv
  BY InitPool
<1>2. IsFiniteSet(DOMAIN pools)
  BY DictionariesAssumption DEF Init
<1> DEFINE start == [i \in 1 .. 1 |-> <<>>]
           met == <<>>
<1>3. met \in Lists /\ met \o met = met
  BY EmptySeq, ConcatEmptySeq DEF Lists
<1>4. Depth = 1 /\ chain # <<>> /\ chain[1].taken = 0
  BY DEF Init, Depth
<1>5. start \in [1 .. Depth -> Lists] /\ start[1] = <<>>
  BY <1>3, <1>4
<1>6. Gathered(1) = <<>>
  <2>1. Gathered(1) = Done(PoolCount - 1, chain[1].pool, 0)
    BY <1>4 DEF Gathered, Taken
  <2>2. QED
    BY <2>1, DoneZero DEF Done
<1>7. Splits(met, start)
  BY <1>3, <1>4, <1>5, <1>6 DEF Splits
<1>8. Placed(met)
  <2> HIDE DEF start
  <2>1. QED
    BY <1>4, <1>5, <1>7 DEF Placed
<1>9. Reports(met)
  <2>1. expanded = <<>> /\ unresolved = <<>> /\ Range(<<>>) = {}
    BY DEF Init, Range
  <2>2. QED
    BY <2>1, NoEntries DEF Reports
<1>10. QED
  <2> HIDE DEF met
  <2>1. QED
    BY <1>1, <1>2, <1>3, <1>8, <1>9 DEF WalkInv, MetInv

LEMMA AppendOne ==
    ASSUME NEW s \in Lists, NEW e \in EntryOf(Names)
    PROVE  Append(s, e) \in Lists /\ Append(s, e) = s \o <<e>>
BY AppendProperties, AppendIsConcat DEF Lists

LEMMA EntriesMore ==
    ASSUME NEW met \in Lists, NEW e \in EntryOf(Names), e.type # "loop"
    PROVE  /\ HasLoop(Append(met, e)) <=> HasLoop(met)
           /\ NamesOf(Append(met, e), "unresolved") =
                 NamesOf(met, "unresolved") \cup (IF e.type = "unresolved" THEN {e.name} ELSE {})
           /\ Expanded(Append(met, e)) = IF IsMember(e) THEN Append(Expanded(met), e) ELSE Expanded(met)
<1>1. met \in Seq(EntryOf(Names))
  BY DEF Lists
<1>2. HasLoop(Append(met, e)) <=> HasLoop(met) \/ e.type = "loop"
  BY <1>1, EntriesAppend
<1>3. \A type : NamesOf(Append(met, e), type) =
                   NamesOf(met, type) \cup (IF e.type = type THEN {e.name} ELSE {})
  BY <1>1, EntriesAppend
<1>4. Expanded(Append(met, e)) = IF IsMember(e) THEN Append(Expanded(met), e) ELSE Expanded(met)
  BY <1>1, EntriesAppend
<1>5. QED
  BY <1>2, <1>3, <1>4

\* What is left to show of a step.
LEMMA WalkKept ==
    ASSUME WalkInv, Next, UNCHANGED dictionary,
           ~ContainsItself(root) => \E more \in Lists : Reports(more)' /\ Placed(more)'
    PROVE  WalkInv'
<1>1. PoolInv'
  BY PoolStep DEF WalkInv
<1>2. IsFiniteSet(DOMAIN pools)' /\ (ContainsItself(root)' <=> ContainsItself(root))
  BY LevelsKept DEF WalkInv
<1>3. MetInv'
  BY <1>2 DEF MetInv, Lists
<1>4. QED
  BY <1>1, <1>2, <1>3 DEF WalkInv

LEMMA ObjectMet == WalkInv /\ TakeObject => WalkInv'
<1> SUFFICES ASSUME WalkInv, TakeObject, ~ContainsItself(root)
             PROVE  \E more \in Lists : Reports(more)' /\ Placed(more)'
  <2>1. TakeObject => Next /\ UNCHANGED dictionary
    BY DEF Next, TakeObject
  <2>2. QED
    BY <2>1, WalkKept
<1>1. /\ PoolInv /\ IsFiniteSet(DOMAIN pools) /\ chain # <<>> /\ ~Exhausted /\ chain' = TopTaken
      /\ NextName \in objects /\ expanded' = Append(expanded, Entry("object", NextName))
      /\ UNCHANGED dictionary /\ unresolved' = unresolved
  BY DEF WalkInv, TakeObject, Traversing
<1>2. NextName \in Names
  BY <1>1, NextMember
<1>3. PICK met \in Lists : Reports(met) /\ Placed(met)
  BY DEF WalkInv, MetInv
<1>4. PICK e : e = Entry("object", NextName)
  OBVIOUS
<1>5. /\ e \in EntryOf(Names) /\ IsMember(e) /\ e.type = "object"
      /\ Part(PoolCount - Depth, NextName) = <<e>>
  BY <1>1, <1>2, <1>4, EntryTyped DEF Part, EntriesOf, IsMember
<1>6. Append(met, e) \in Lists /\ Append(met, e) = met \o Part(PoolCount - Depth, NextName)
  BY <1>5, AppendOne
<1>7. Placed(Append(met, e))'
  <2>1. PICK more : more = Append(met, e)
    OBVIOUS
  <2>2. Placed(more)'
    BY <1>1, <1>3, <1>6, <2>1, MoreTaken
  <2>3. QED
    BY <2>1, <2>2
<1>8. Reports(Append(met, e))'
  BY <1>1, <1>3, <1>4, <1>5, EntriesMore, ZenonT(60) DEF Reports
<1>9. QED
  BY <1>6, <1>7, <1>8

LEMMA UnknownMet == WalkInv /\ SkipUnknown => WalkInv'
<1> SUFFICES ASSUME WalkInv, SkipUnknown, ~ContainsItself(root)
             PROVE  \E more \in Lists : Reports(more)' /\ Placed(more)'
  <2>1. SkipUnknown => Next /\ UNCHANGED dictionary
    BY DEF Next, SkipUnknown
  <2>2. QED
    BY <2>1, WalkKept
<1>1. /\ PoolInv /\ IsFiniteSet(DOMAIN pools) /\ chain # <<>> /\ ~Exhausted /\ chain' = TopTaken
      /\ NextName \notin objects /\ NextName \notin DOMAIN pools
      /\ unresolved' = Append(unresolved, NextName)
      /\ UNCHANGED dictionary /\ expanded' = expanded
  BY DEF WalkInv, SkipUnknown, Traversing
<1>2. NextName \in Names
  BY <1>1, NextMember
<1>3. PICK met \in Lists : Reports(met) /\ Placed(met)
  BY DEF WalkInv, MetInv
<1>4. PICK e : e = Entry("unresolved", NextName)
  OBVIOUS
<1>5. /\ e \in EntryOf(Names) /\ ~IsMember(e) /\ e.type = "unresolved" /\ e.name = NextName
      /\ Part(PoolCount - Depth, NextName) = <<e>>
  BY <1>1, <1>2, <1>4, EntryTyped DEF Part, EntriesOf, IsMember
<1>6. Append(met, e) \in Lists /\ Append(met, e) = met \o Part(PoolCount - Depth, NextName)
  BY <1>5, AppendOne
<1>7. Placed(Append(met, e))'
  <2>1. PICK more : more = Append(met, e)
    OBVIOUS
  <2>2. Placed(more)'
    BY <1>1, <1>3, <1>6, <2>1, MoreTaken
  <2>3. QED
    BY <2>1, <2>2
<1>8. Reports(Append(met, e))'
  <2>1. Range(unresolved)' = Range(unresolved) \cup {NextName}
    <3> DEFINE n == Len(unresolved)
    <3>1. /\ n \in Nat /\ DOMAIN unresolved' = 1 .. (n + 1) /\ DOMAIN unresolved = 1 .. n
          /\ \A k \in 1 .. n : unresolved'[k] = unresolved[k]
          /\ unresolved'[n + 1] = NextName
      BY <1>1, <1>2, NameReported DEF PoolInv
    <3> HIDE DEF n
    <3>2. QED
      BY <3>1 DEF Range
  <2>2. QED
    BY <1>1, <1>3, <1>5, <2>1, EntriesMore DEF Reports
<1>9. QED
  BY <1>6, <1>7, <1>8

LEMMA EnterMet == WalkInv /\ EnterPool => WalkInv'
<1> SUFFICES ASSUME WalkInv, EnterPool, ~ContainsItself(root)
             PROVE  \E more \in Lists : Reports(more)' /\ Placed(more)'
  <2>1. EnterPool => Next /\ UNCHANGED dictionary
    BY DEF Next, EnterPool
  <2>2. QED
    BY <2>1, WalkKept
<1>1. PICK fresh : fresh = [pool |-> NextName, taken |-> 0]
  OBVIOUS
<1>2. /\ PoolInv /\ TypeOK /\ IsFiniteSet(DOMAIN pools) /\ chain # <<>> /\ ~Exhausted
      /\ NextName \notin objects /\ NextName \in DOMAIN pools
      /\ chain' = Append(TopTaken, fresh)
      /\ UNCHANGED dictionary /\ expanded' = expanded /\ unresolved' = unresolved
  BY <1>1 DEF WalkInv, PoolInv, EnterPool, Traversing, NestedPool
<1>3. fresh \in Place /\ fresh.pool = NextName /\ fresh.taken = 0
  BY <1>1, <1>2 DEF Place
<1>4. PICK met \in Lists : Reports(met) /\ Placed(met)
  BY DEF WalkInv, MetInv
<1>5. PICK start \in [1 .. Depth -> Lists] : Splits(met, start)
  BY <1>2, <1>4 DEF Placed
<1>6. PICK n \in Nat : n = Depth /\ n >= 1
  BY <1>2, ChainPlaces
<1>7. /\ chain' \in Seq(Place) /\ Depth' = n + 1 /\ DOMAIN chain' = 1 .. (n + 1)
      /\ chain'[n + 1] = fresh
      /\ \A i \in 1 .. n :
            /\ chain'[i].pool = chain[i].pool
            /\ chain'[i].taken = IF i = n THEN chain[i].taken + 1 ELSE chain[i].taken
  BY <1>2, <1>3, <1>6, EnteredPlaces DEF Depth
<1>8. chain' # <<>>
  BY <1>6, <1>7
<1> DEFINE entered == [i \in 1 .. (n + 1) |-> IF i = n + 1 THEN met ELSE start[i]]
<1>9. /\ entered \in [1 .. (n + 1) -> Lists] /\ entered[1] = <<>> /\ entered[n + 1] = met
      /\ \A i \in 1 .. n : entered[i] = start[i]
  BY <1>5, <1>6 DEF Splits
<1> HIDE DEF entered
<1>10. ASSUME NEW i \in 1 .. n
       PROVE  Gathered(i)' = Gathered(i)
  <2>1. i \in 1 .. Depth /\ chain[i].taken \in Nat
    BY <1>2, <1>6, ChainPlaces
  <2>2. Taken(i)' = Taken(i) /\ chain'[i].pool = chain[i].pool
    BY <1>6, <1>7, <2>1 DEF Taken
  <2>3. QED
    BY <1>2, <2>2, GatheredKept DEF Gathered
<1>11. Gathered(n + 1)' = <<>>
  <2>1. Taken(n + 1)' = 0
    BY <1>3, <1>6, <1>7 DEF Taken
  <2>2. Gathered(n + 1)' = Done(PoolCount - (n + 1), chain'[n + 1].pool, 0)
    <3>1. PICK k : k = n + 1
      OBVIOUS
    <3>2. PICK pool : pool = chain'[k].pool
      OBVIOUS
    <3>3. QED
      BY <1>2, <2>1, <3>1, <3>2, GatheredKept
  <2>3. QED
    BY <2>2, DoneZero DEF Done
<1>12. ASSUME NEW i \in 1 .. (n + 1)
       PROVE  entered[i] \o Gathered(i)' = IF i = n + 1 THEN met ELSE entered[i + 1]
  <2>1. CASE i = n + 1
    BY <1>9, <1>11, <2>1, ConcatEmptySeq DEF Lists
  <2>2. CASE i # n + 1
    <3>1. i \in 1 .. n /\ (i # n => i + 1 \in 1 .. n) /\ (i = n => i + 1 = n + 1)
      BY <1>6, <2>2
    <3>2. start[i] \o Gathered(i) = IF i = n THEN met ELSE start[i + 1]
      BY <1>5, <1>6, <3>1 DEF Splits
    <3>3. QED
      BY <1>9, <1>10, <2>2, <3>1, <3>2
  <2>3. QED
    BY <2>1, <2>2
<1>13. Splits(met, entered)'
  BY <1>7, <1>9, <1>12 DEF Splits
<1>14. Placed(met)'
  BY <1>7, <1>8, <1>9, <1>13 DEF Placed, Lists
<1>15. Reports(met)'
  BY <1>2, <1>4 DEF Reports
<1>16. QED
  BY <1>14, <1>15

LEMMA LeaveMet == WalkInv /\ LeavePool => WalkInv'
<1> SUFFICES ASSUME WalkInv, LeavePool, ~ContainsItself(root)
             PROVE  \E more \in Lists : Reports(more)' /\ Placed(more)'
  <2>1. LeavePool => Next /\ UNCHANGED dictionary
    BY DEF Next, LeavePool
  <2>2. QED
    BY <2>1, WalkKept
<1>1. /\ PoolInv /\ TypeOK /\ ChainInv /\ IsFiniteSet(DOMAIN pools) /\ chain # <<>> /\ Exhausted
      /\ expanded' = Append(expanded, Entry("pool", Top.pool)) /\ chain' = Front(chain)
      /\ UNCHANGED dictionary /\ unresolved' = unresolved
  BY DEF WalkInv, PoolInv, LeavePool, Traversing
<1>2. PICK met \in Lists : Reports(met) /\ Placed(met)
  BY DEF WalkInv, MetInv
<1>3. PICK start \in [1 .. Depth -> Lists] : Splits(met, start)
  BY <1>1, <1>2 DEF Placed
<1>4. PICK n \in Nat : n = Depth /\ n >= 1 /\ Top = chain[n]
  BY <1>1, ChainPlaces
<1>5. PICK pool : pool = Top.pool
  OBVIOUS
<1>6. PICK e : e = Entry("pool", pool)
  OBVIOUS
<1>7. /\ n - 1 \in Nat /\ Depth' = n - 1 /\ DOMAIN chain' = 1 .. (n - 1)
      /\ \A i \in 1 .. (n - 1) : i \in 1 .. n /\ i # n /\ chain'[i] = chain[i]
      /\ chain' \in Seq(Place)
  BY <1>1, <1>4, FrontPlaces DEF Depth
<1>8. /\ pool \in DOMAIN pools /\ pool \in Names /\ pool \notin objects /\ PoolCount \in Nat
      /\ n <= PoolCount /\ chain[n].pool = pool /\ chain[n].taken = Len(Members(pool))
  <2>1. n \in 1 .. n /\ chain[n].pool = pool
    BY <1>4, <1>5
  <2>2. pool \in DOMAIN pools /\ pool \notin objects
    BY <1>1, <1>4, <2>1, ChainPlaces DEF ChainInv
  <2>3. chain[n].taken = Len(Members(pool))
    BY <1>1, <1>4, <1>5 DEF Exhausted
  <2>4. PoolCount \in Nat /\ n <= PoolCount
    BY <1>1, <1>4, Levels, StackIsSmall
  <2>5. QED
    BY <1>1, <2>1, <2>2, <2>3, <2>4 DEF TypeOK
<1>9. e \in EntryOf(Names) /\ IsMember(e) /\ e.type = "pool"
  BY <1>6, <1>8, EntryTyped DEF IsMember
<1>10. PICK level : level = Level[PoolCount - (n - 1)][pool]
  OBVIOUS
<1>11. level = Append(Gathered(n), e)
  <2>1. PoolCount - (n - 1) \in 1 .. PoolCount /\ PoolCount - (n - 1) - 1 = PoolCount - n
    BY <1>4, <1>8
  <2>2. level = Append(Done(PoolCount - n, pool, Len(Members(pool))), Entry("pool", pool))
    <3> DEFINE d == PoolCount - (n - 1)
    <3>1. d \in 1 .. PoolCount /\ d - 1 = PoolCount - n
      BY <2>1
    <3> HIDE DEF d
    <3>2. Level[d][pool] = Append(Done(d - 1, pool, Len(Members(pool))), Entry("pool", pool))
      BY <1>1, <1>8, <3>1, Levels
    <3>3. QED
      BY <1>10, <3>1, <3>2 DEF d
  <2>3. Gathered(n) = Done(PoolCount - n, pool, Len(Members(pool)))
    BY <1>4, <1>8 DEF Gathered, Taken
  <2>4. QED
    BY <1>6, <2>2, <2>3
<1>12. Append(met, e) \in Lists /\ Append(met, e) = start[n] \o level /\ level \in Lists
  <2>1. PICK got : got = Gathered(n)
    OBVIOUS
  <2>2. got \in Lists /\ start[n] \in Lists /\ met = start[n] \o got
    <3>1. n \in 1 .. Depth
      BY <1>4
    <3>2. got \in Lists
      BY <1>1, <2>1, <3>1, GatheredTyped
    <3>3. start[n] \o Gathered(n) = IF n = Depth THEN met ELSE start[n + 1]
      BY <1>3, <3>1 DEF Splits
    <3>4. QED
      BY <1>3, <1>4, <2>1, <3>1, <3>2, <3>3
  <2>3. <<e>> \in Lists
    BY <1>9 DEF Lists
  <2>4. Append(met, e) = met \o <<e>> /\ level = got \o <<e>> /\ level \in Lists /\ Append(met, e) \in Lists
    BY <1>2, <1>9, <1>11, <2>1, <2>2, AppendOne
  <2>5. (start[n] \o got) \o <<e>> = start[n] \o (got \o <<e>>)
    BY <2>2, <2>3, ListsThree, ZenonT(60)
  <2>6. QED
    BY <2>2, <2>4, <2>5
<1>13. PICK more : more = Append(met, e)
  OBVIOUS
<1>14. Reports(more)'
  <2>1. expanded' = Append(expanded, e) /\ Range(unresolved)' = Range(unresolved)
    BY <1>1, <1>5, <1>6
  <2>2. /\ ~HasLoop(more) /\ NamesOf(more, "unresolved") = NamesOf(met, "unresolved")
        /\ Expanded(more) = Append(Expanded(met), e)
    <3>1. e.type # "loop" /\ e.type # "unresolved"
      BY <1>9
    <3>2. ~HasLoop(met)
      BY <1>2 DEF Reports
    <3>3. /\ HasLoop(more) <=> HasLoop(met)
          /\ NamesOf(more, "unresolved") = NamesOf(met, "unresolved") \cup {}
          /\ Expanded(more) = Append(Expanded(met), e)
      BY <1>9, <1>13, <3>1, EntriesMore
    <3>4. QED
      BY <3>2, <3>3
  <2>3. QED
    BY <1>2, <2>1, <2>2 DEF Reports
<1>15. more \in Lists
  BY <1>12, <1>13
<1>16. CASE n = 1
  <2>1. chain' = <<>>
    BY <1>7, <1>16, EmptySeq
  <2>2. pool = root /\ start[1] = <<>>
    BY <1>1, <1>3, <1>4, <1>8, <1>16 DEF ChainInv, Splits
  <2>3. more = Level[PoolCount][root]
    <3>1. more = level
      BY <1>12, <1>13, <1>16, <2>2, ConcatEmptySeq DEF Lists
    <3>2. PoolCount - (n - 1) = PoolCount
      BY <1>8, <1>16
    <3>3. QED
      BY <1>10, <2>2, <3>1, <3>2
  <2>4. Placed(more)'
    BY <1>1, <2>1, <2>3, LevelsKept, DictionaryKept DEF Placed
  <2>5. QED
    BY <1>14, <1>15, <2>4
<1>17. CASE n # 1
  <2> DEFINE left == [i \in 1 .. (n - 1) |-> start[i]]
  <2>1. left \in [1 .. (n - 1) -> Lists] /\ left[1] = <<>> /\ \A i \in 1 .. (n - 1) : left[i] = start[i]
    BY <1>3, <1>4, <1>7, <1>17 DEF Splits
  <2> HIDE DEF left
  <2>2. ASSUME NEW i \in 1 .. (n - 1), i # n - 1
        PROVE  left[i] \o Gathered(i)' = left[i + 1]
    <3>1. /\ i \in 1 .. n /\ i # n /\ i + 1 \in 1 .. (n - 1) /\ chain'[i].pool = chain[i].pool
          /\ Taken(i)' = Taken(i)
      BY <1>4, <1>7, <2>2 DEF Taken
    <3>2. Gathered(i)' = Gathered(i)
      BY <1>1, <3>1, GatheredKept DEF Gathered
    <3>3. start[i] \o Gathered(i) = start[i + 1]
      BY <1>3, <1>4, <3>1 DEF Splits
    <3>4. QED
      BY <2>1, <3>1, <3>2, <3>3
  <2>3. ASSUME NEW i \in 1 .. (n - 1), i = n - 1
        PROVE  left[i] \o Gathered(i)' = more
    <3>1. PICK outer : outer = chain[i].pool
      OBVIOUS
    <3>2. PICK k : k = chain[i].taken - 1
      OBVIOUS
    <3>3. /\ i \in 1 .. n /\ i < n /\ i + 1 = n /\ i \in 1 .. (n - 1)
          /\ PoolCount - i \in 0 .. PoolCount /\ PoolCount - i = PoolCount - (n - 1)
      BY <1>4, <1>8, <1>17, <2>3
    <3>4. /\ outer \in DOMAIN pools /\ chain[i].taken \in Nat /\ chain[i].taken >= 1
          /\ chain[i].taken <= Len(Members(outer))
          /\ Members(outer)[chain[i].taken] = chain[i + 1].pool
      BY <1>1, <1>4, <3>1, <3>3, ChainPlaces DEF ChainInv
    <3>5. /\ k \in 0 .. Len(Members(outer)) /\ k # Len(Members(outer)) /\ k + 1 = chain[i].taken
          /\ Members(outer)[k + 1] = pool
      <4>1. Len(Members(outer)) \in Nat
        BY <1>1, <3>4, MembersAreNames
      <4>2. QED
        BY <1>8, <3>2, <3>3, <3>4, <4>1
    <3>6. PICK d : d = PoolCount - i
      OBVIOUS
    <3>7. Gathered(i) = Done(d, outer, k)
      BY <1>4, <3>1, <3>2, <3>3, <3>6 DEF Gathered, Taken
    <3>8. Gathered(i)' = Done(d, outer, k + 1)
      <4>1. chain'[i].pool = outer /\ Taken(i)' = k + 1
        BY <1>7, <2>3, <3>1, <3>3, <3>5, SMTT(30) DEF Taken
      <4>2. QED
        BY <1>1, <3>6, <4>1, GatheredKept
    <3>9. Done(d, outer, k + 1) = Done(d, outer, k) \o Part(d, pool)
      BY <1>1, <3>3, <3>4, <3>5, <3>6, DoneFurther
    <3>10. Part(d, pool) = level
      BY <1>8, <1>10, <3>3, <3>6 DEF Part, EntriesOf
    <3>11. start[n] = start[i] \o Gathered(i)
      BY <1>3, <1>4, <3>3, SMTT(30) DEF Splits
    <3>12. PICK got : got = Gathered(i)
      OBVIOUS
    <3>13. got \in Lists /\ start[i] \in Lists
      BY <1>1, <1>3, <1>4, <3>3, <3>12, GatheredTyped
    <3>14. (start[i] \o got) \o level = start[i] \o (got \o level)
      BY <1>12, <3>13, ListsThree
    <3>15. QED
      BY <1>12, <1>13, <2>1, <3>7, <3>8, <3>9, <3>10, <3>11, <3>12, <3>14
  <2>4. Splits(more, left)'
    BY <1>7, <2>1, <2>2, <2>3 DEF Splits
  <2>5. chain' # <<>>
    BY <1>4, <1>7, <1>17
  <2>6. Placed(more)'
    BY <1>7, <2>1, <2>4, <2>5 DEF Placed, Lists
  <2>7. QED
    BY <1>14, <1>15, <2>6
<1>18. QED
  BY <1>16, <1>17

LEMMA WalkStep == WalkInv /\ [Next]_vars => WalkInv'
<1> SUFFICES ASSUME WalkInv, [Next]_vars PROVE WalkInv'
  OBVIOUS
<1>1. ASSUME UNCHANGED <<dictionary, chain, visited, expanded, unresolved>>
      PROVE  MetInv' /\ IsFiniteSet(DOMAIN pools)'
  <2>1. /\ UNCHANGED dictionary /\ chain' = chain /\ expanded' = expanded /\ unresolved' = unresolved
        /\ root' = root /\ Depth' = Depth
    BY <1>1, DictionaryKept DEF Depth
  <2>2. \A i : Gathered(i)' = Gathered(i)
    <3> SUFFICES ASSUME NEW i PROVE Gathered(i)' = Gathered(i)
      OBVIOUS
    <3>1. chain'[i].pool = chain[i].pool /\ Taken(i)' = Taken(i)
      BY <2>1 DEF Taken
    <3>2. PICK pool : pool = chain[i].pool
      OBVIOUS
    <3>3. PICK k : k = Taken(i)
      OBVIOUS
    <3>4. QED
      BY <2>1, <3>1, <3>2, <3>3, GatheredKept DEF Gathered
  <2>3. \A met, start : Splits(met, start) => Splits(met, start)'
    BY <2>1, <2>2 DEF Splits
  <2>4. \A met : Placed(met) => Placed(met)'
    BY <2>1, <2>3, LevelsKept DEF Placed, Lists
  <2>5. \A met : Reports(met) => Reports(met)'
    BY <2>1 DEF Reports
  <2>6. QED
    BY <2>1, <2>4, <2>5, LevelsKept DEF WalkInv, MetInv, Lists
<1>2. CASE UNCHANGED <<dictionary, chain, visited, expanded, unresolved>>
  BY <1>1, <1>2, PoolStep DEF WalkInv
<1>3. CASE DetectLoop
  BY <1>2, <1>3 DEF DetectLoop
<1>4. CASE Return
  BY <1>2, <1>4 DEF Return
<1>5. CASE UNCHANGED vars
  BY <1>2, <1>5 DEF vars, dictionary
<1>6. QED
  BY <1>3, <1>4, <1>5, ObjectMet, EnterMet, UnknownMet, LeaveMet DEF Next

\* The loop with its stack and its set of visited pools computes the recursive
\* function the loader's modules use in its place: the same objects and pools
\* in the same order, the same unresolved names, and the exception exactly when
\* the function meets a loop (genericresolver.h, resolve).
THEOREM TraversalCorrect == Spec => []TraversalIsLoop
<1>1. ASSUME WalkInv, status = "loop"
      PROVE  HasLoop(Traversal(objects, pools)[root])
  BY <1>1, LoopIsReachable, LoopInTraversal DEF WalkInv, PoolInv
<1>2. ASSUME WalkInv, status = "returned"
      PROVE  LET entries == Traversal(objects, pools)[root] IN
             /\ ~HasLoop(entries) /\ expanded = Expanded(entries)
             /\ Range(unresolved) = NamesOf(entries, "unresolved")
  <2>1. chain = <<>> /\ ~LoopReachable /\ TypeOK /\ root \notin objects
    BY <1>2, ReturnedIsFree DEF WalkInv, PoolInv, EndInv
  <2>2. ~ContainsItself(root)
    BY <2>1 DEF LoopReachable, ContainsItself
  <2>3. PICK met \in Lists : Reports(met) /\ met = Level[PoolCount][root]
    BY <1>2, <2>1, <2>2 DEF WalkInv, MetInv, Placed
  <2>4. met = Traversal(objects, pools)[root]
    BY <1>2, <2>1, <2>3, Levels DEF WalkInv
  <2>5. QED
    BY <2>3, <2>4 DEF Reports
<1>3. WalkInv => TraversalIsLoop
  BY <1>1, <1>2 DEF TraversalIsLoop
<1>4. QED
  BY <1>3, InitWalk, WalkStep, PTL DEF Spec
=============================================================================
