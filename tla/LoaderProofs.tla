----------------------------- MODULE LoaderProofs -----------------------------
(***************************************************************************)
(* Proofs about PolicyLoader, for every set of policy files, of files of   *)
(* the store, and of answers of the system resolver.                       *)
(*                                                                         *)
(* A row is built by folds over its names and over the entries of pools.   *)
(* The first part shows, by a least counterexample, that such a fold is    *)
(* defined and keeps what each of its steps keeps.  What is kept is        *)
(* Sound: the caches of the resolver and the network tell the truth, and   *)
(* no host that was known is forgotten.  From it follow the types, the     *)
(* ids, the counters of the report and that the answers of hosts last.     *)
(*                                                                         *)
(* The second part shows what the rules of the firewall mean.              *)
(***************************************************************************)
EXTENDS LoaderCorrectness, SequenceTheorems, FiniteSetTheorems, WellFoundedInduction, TLAPS

(***************************************************************************)
(* What the caches have to be.                                             *)
(***************************************************************************)
NumberedKind == CacheKind \ {"src", "dst", "svc"}
DictionaryKind == CacheKind \ {"src_zone", "dst_zone"}

StoreOK(st) ==
    /\ st = [kind \in ObjectKind |-> [objects |-> st[kind].objects, pools |-> st[kind].pools]]
    /\ \A kind \in ObjectKind :
          /\ "any" \in DOMAIN st[kind].objects
          /\ \A name \in DOMAIN st[kind].objects :
                /\ st[kind].objects[name].fqdn \in BOOLEAN
                /\ st[kind].objects[name].fqdn => name \in STRING
          /\ IsFiniteSet(DOMAIN st[kind].pools) /\ DOMAIN st[kind].pools \subseteq STRING
          /\ \A pool \in DOMAIN st[kind].pools : st[kind].pools[pool] \in Seq(STRING)

\* A positive answer is on the disk as soon as it is in memory.
ResolverOK(r) ==
    /\ r = [memory |-> r.memory, filtered |-> r.filtered, file |-> r.file]
    /\ \A host \in DOMAIN r.filtered : host \in DOMAIN r.memory /\ r.filtered[host] \in FilteredEntry
    /\ \A host \in DOMAIN r.memory : r.memory[host] # {} =>
          host \in DOMAIN r.file /\ r.file[host] = r.memory[host]

\* The hosts known to one resolver are known to another.
KnownTo(r, s) ==
    \A host \in DOMAIN r.memory : host \in DOMAIN s.memory /\ s.memory[host] = r.memory[host]

\* Numbers are given in increasing order.
GeneratorOK(gen) ==
    /\ gen = [next |-> gen.next, ids |-> gen.ids]
    /\ gen.next \in Nat \ {0}
    /\ \A name \in DOMAIN gen.ids : gen.ids[name] \in 1 .. (MaxId - 1) /\ gen.ids[name] < gen.next
    /\ \A a, b \in DOMAIN gen.ids : gen.ids[a] = gen.ids[b] => a = b

NumbersOK(nw, kind) ==
    \A name \in DOMAIN nw.cache[kind].objects \ {"any"} :
       LET ids == nw.gen[GeneratorOf(kind)].ids IN
       /\ name \in DOMAIN ids
       /\ {IdOf(kind, value) : value \in nw.cache[kind].objects[name]} = {ids[name]}

NetworkOK(nw) ==
    /\ nw = [cache |-> nw.cache, gen |-> nw.gen]
    /\ nw.cache = [kind \in CacheKind |->
                     [objects |-> nw.cache[kind].objects, groups |-> nw.cache[kind].groups]]
    /\ nw.gen = [gen \in Generator |-> nw.gen[gen]]
    /\ \A gen \in Generator : GeneratorOK(nw.gen[gen])
    /\ \A kind \in NumberedKind : NumbersOK(nw, kind)

\* A record of a build, which started with the resolver `first'.
Sound(first, b) ==
    /\ b = [network |-> b.network, resolver |-> b.resolver, failing |-> b.failing,
            groups |-> b.groups, unresolved |-> b.unresolved, thrown |-> b.thrown]
    /\ ResolverOK(b.resolver) /\ KnownTo(first, b.resolver)
    /\ NetworkOK(b.network)

(***************************************************************************)
(* Folds.                                                                  *)
(***************************************************************************)
\* The four steps that are folded, as one operator.
Job(does, kind, answers) == [does |-> does, kind |-> kind, answers |-> answers]
Step(job, acc, x) ==
    CASE job.does = "add" -> AddName(acc, job.kind, x, job.answers)
      [] job.does = "get" -> GetObject(acc, job.kind, x.name, job.answers)
      [] job.does = "register" -> RegisterMember(acc, job.kind, x)
      [] job.does = "zone" -> AddZone(acc, job.kind, x)

\* `f' has the results of the fold for all subsets of the first m positions.
Folds(f, m, job, base, seq) ==
    f = [s \in SUBSET (1 .. m) |->
           IF s = {} THEN base ELSE Step(job, f[s \ {Max(s)}], seq[Max(s)])]

\* The result of the fold.
Outcome(result, m, job, base, seq) == \E f : Folds(f, m, job, base, seq) /\ result = f[1 .. m]

LEMMA LeastNatural ==
    ASSUME NEW T \in SUBSET Nat, T # {}
    PROVE  \E m \in T : \A k \in T : m <= k
<1>1. PICK m \in T : \A k \in T : ~(<<k, m>> \in OpToRel(<, Nat))
  BY WFMin, NatLessThanWellFounded
<1>2. \A k \in T : ~(k < m)
  BY <1>1 DEF OpToRel
<1>3. QED
  BY <1>2

LEMMA MaxIsLast ==
    ASSUME NEW m \in Nat, NEW s \in SUBSET (1 .. m), m \in s
    PROVE  Max(s) = m
<1>1. \A k \in s : m >= k
  OBVIOUS
<1>2. \A k \in s : (\A l \in s : k >= l) => k = m
  OBVIOUS
<1>3. QED
  BY <1>1, <1>2 DEF Max

\* One more position.
LEMMA FoldsFurther ==
    ASSUME NEW job, NEW base, NEW seq, NEW m \in Nat \ {0}, NEW g, Folds(g, m - 1, job, base, seq)
    PROVE  \E f : Folds(f, m, job, base, seq)
<1> DEFINE f == [s \in SUBSET (1 .. m) |->
                   IF m \in s THEN Step(job, g[s \ {m}], seq[m]) ELSE g[s]]
<1>1. ASSUME NEW s \in SUBSET (1 .. m)
      PROVE  f[s] = IF s = {} THEN base ELSE Step(job, f[s \ {Max(s)}], seq[Max(s)])
  <2>1. CASE m \in s
    <3>1. Max(s) = m
      BY <2>1, MaxIsLast
    <3>2. s \ {m} \in SUBSET (1 .. m) /\ m \notin s \ {m}
      OBVIOUS
    <3>3. f[s \ {m}] = g[s \ {m}]
      BY <3>2
    <3>4. f[s] = Step(job, g[s \ {m}], seq[m])
      BY <2>1
    <3>5. QED
      BY <2>1, <3>1, <3>3, <3>4
  <2>2. CASE m \notin s
    <3>1. s \in SUBSET (1 .. (m - 1))
      BY <2>2
    <3>2. s \ {Max(s)} \in SUBSET (1 .. m) /\ m \notin s \ {Max(s)}
      BY <2>2
    <3>3. f[s] = g[s] /\ f[s \ {Max(s)}] = g[s \ {Max(s)}]
      BY <2>2, <3>2
    <3>4. g[s] = IF s = {} THEN base ELSE Step(job, g[s \ {Max(s)}], seq[Max(s)])
      BY <3>1 DEF Folds
    <3>5. QED
      BY <3>3, <3>4
  <2>3. QED
    BY <2>1, <2>2
<1>2. f = [s \in SUBSET (1 .. m) |-> f[s]]
  OBVIOUS
<1> HIDE DEF f
<1>3. Folds(f, m, job, base, seq)
  BY <1>1, <1>2 DEF Folds
<1>4. QED
  BY <1>3

LEMMA FoldExists ==
    ASSUME NEW job, NEW base, NEW seq, NEW n \in Nat
    PROVE  \E f : Folds(f, n, job, base, seq)
<1> DEFINE Bad == {m \in Nat : ~\E f : Folds(f, m, job, base, seq)}
<1>1. Bad = {}
  <2> SUFFICES ASSUME Bad # {} PROVE FALSE
    OBVIOUS
  <2>1. PICK m \in Bad : \A k \in Bad : m <= k
    <3>1. Bad \in SUBSET Nat
      OBVIOUS
    <3> HIDE DEF Bad
    <3>2. QED
      BY <3>1, LeastNatural
  <2>2. m \in Nat /\ ~\E f : Folds(f, m, job, base, seq)
    OBVIOUS
  <2>3. m # 0
    <3> DEFINE f == [s \in SUBSET (1 .. 0) |-> base]
    <3>1. SUBSET (1 .. 0) = {{}}
      OBVIOUS
    <3>2. Folds(f, 0, job, base, seq)
      BY <3>1 DEF Folds
    <3> HIDE DEF f
    <3>3. QED
      BY <2>2, <3>2
  <2>4. m - 1 \in Nat /\ m - 1 \notin Bad
    <3>1. m - 1 \in Nat /\ m - 1 < m
      BY <2>2, <2>3
    <3> HIDE DEF Bad
    <3>2. QED
      BY <2>1, <2>2, <3>1
  <2>5. PICK g : Folds(g, m - 1, job, base, seq)
    BY <2>4
  <2>6. QED
    BY <2>2, <2>3, <2>5, FoldsFurther
<1>2. n \notin Bad
  BY <1>1
<1>3. QED
  BY <1>2

\* A fold keeps what its steps keep.
LEMMA FoldKeeps ==
    ASSUME NEW first, NEW job, NEW base, Sound(first, base), NEW seq, NEW n \in Nat,
           NEW f, Folds(f, n, job, base, seq),
           \A acc : Sound(first, acc) => \A i \in 1 .. n : Sound(first, Step(job, acc, seq[i]))
    PROVE  Sound(first, f[1 .. n])
<1> DEFINE Bad == {m \in 0 .. n : ~Sound(first, f[1 .. m])}
<1>1. Bad = {}
  <2> SUFFICES ASSUME Bad # {} PROVE FALSE
    OBVIOUS
  <2>1. PICK m \in Bad : \A k \in Bad : m <= k
    <3>1. Bad \in SUBSET Nat
      OBVIOUS
    <3> HIDE DEF Bad
    <3>2. QED
      BY <3>1, LeastNatural
  <2>2. m \in 0 .. n /\ ~Sound(first, f[1 .. m]) /\ 1 .. m \in SUBSET (1 .. n)
    OBVIOUS
  <2>3. m # 0
    <3>1. 1 .. 0 = {} /\ {} \in SUBSET (1 .. n)
      OBVIOUS
    <3>2. f[{}] = base
      BY <3>1 DEF Folds
    <3>3. QED
      BY <2>2, <3>1, <3>2
  <2>4. m - 1 \in 0 .. n /\ m - 1 \notin Bad
    <3>1. m - 1 \in 0 .. n /\ m - 1 < m
      BY <2>2, <2>3
    <3> HIDE DEF Bad
    <3>2. QED
      BY <2>1, <2>2, <3>1
  <2>5. Sound(first, f[1 .. (m - 1)])
    BY <2>4
  <2>6. Max(1 .. m) = m /\ (1 .. m) \ {m} = 1 .. (m - 1) /\ 1 .. m # {}
    <3>1. m \in Nat /\ m \in 1 .. m
      BY <2>2, <2>3
    <3>2. Max(1 .. m) = m
      BY <3>1, MaxIsLast
    <3>3. (1 .. m) \ {m} = 1 .. (m - 1)
      BY <3>1
    <3>4. QED
      BY <3>1, <3>2, <3>3
  <2>7. f[1 .. m] = Step(job, f[1 .. (m - 1)], seq[m])
    BY <2>2, <2>6 DEF Folds
  <2>8. m \in 1 .. n
    BY <2>2, <2>3
  <2>9. QED
    BY <2>2, <2>5, <2>7, <2>8
<1>2. n \in 0 .. n /\ n \notin Bad
  BY <1>1
<1>3. QED
  BY <1>2

\* The folds of the model are these folds.
LEMMA AddIsFold ==
    ASSUME NEW base, NEW kind, NEW answers, NEW seq, NEW n \in Nat, DOMAIN seq = 1 .. n
    PROVE  Outcome(BuildGroup(base, kind, seq, answers), n, Job("add", kind, answers), base, seq)
<1> DEFINE job == Job("add", kind, answers)
           f == CHOOSE f : f = [s \in SUBSET (1 .. n) |->
                   IF s = {} THEN base ELSE AddName(f[s \ {Max(s)}], kind, seq[Max(s)], answers)]
<1>1. \A acc, x : Step(job, acc, x) = AddName(acc, kind, x, answers)
  BY DEF Step, Job
<1>2. BuildGroup(base, kind, seq, answers) = f[1 .. n]
  BY DEF BuildGroup, FoldLeft, MapThenFoldSet
<1> HIDE DEF job
<1>3. PICK g : Folds(g, n, job, base, seq)
  BY FoldExists
<1>4. g = [s \in SUBSET (1 .. n) |->
             IF s = {} THEN base ELSE AddName(g[s \ {Max(s)}], kind, seq[Max(s)], answers)]
  BY <1>1, <1>3 DEF Folds
<1>5. f = [s \in SUBSET (1 .. n) |->
             IF s = {} THEN base ELSE AddName(f[s \ {Max(s)}], kind, seq[Max(s)], answers)]
  BY <1>4
<1> HIDE DEF f
<1>6. Folds(f, n, job, base, seq)
  BY <1>1, <1>5, ZenonT(60) DEF Folds
<1>7. QED
  BY <1>2, <1>6 DEF Outcome, job

LEMMA GetIsFold ==
    ASSUME NEW base, NEW kind, NEW answers, NEW seq, NEW n \in Nat, DOMAIN seq = 1 .. n
    PROVE  Outcome(AskAll(base, kind, seq, answers), n, Job("get", kind, answers), base, seq)
<1> DEFINE job == Job("get", kind, answers)
           f == CHOOSE f : f = [s \in SUBSET (1 .. n) |->
                   IF s = {} THEN base ELSE GetObject(f[s \ {Max(s)}], kind, seq[Max(s)].name, answers)]
<1>1. \A acc, x : Step(job, acc, x) = GetObject(acc, kind, x.name, answers)
  BY DEF Step, Job
<1>2. AskAll(base, kind, seq, answers) = f[1 .. n]
  BY DEF AskAll, FoldLeft, MapThenFoldSet
<1> HIDE DEF job
<1>3. PICK g : Folds(g, n, job, base, seq)
  BY FoldExists
<1>4. g = [s \in SUBSET (1 .. n) |->
             IF s = {} THEN base ELSE GetObject(g[s \ {Max(s)}], kind, seq[Max(s)].name, answers)]
  BY <1>1, <1>3 DEF Folds
<1>5. f = [s \in SUBSET (1 .. n) |->
             IF s = {} THEN base ELSE GetObject(f[s \ {Max(s)}], kind, seq[Max(s)].name, answers)]
  BY <1>4
<1> HIDE DEF f
<1>6. Folds(f, n, job, base, seq)
  BY <1>1, <1>5, ZenonT(60) DEF Folds
<1>7. QED
  BY <1>2, <1>6 DEF Outcome, job

LEMMA RegisterIsFold ==
    ASSUME NEW base, NEW kind, NEW answers, NEW seq, NEW n \in Nat, DOMAIN seq = 1 .. n
    PROVE  Outcome(RegisterAll(base, kind, seq), n, Job("register", kind, answers), base, seq)
<1> DEFINE job == Job("register", kind, answers)
           f == CHOOSE f : f = [s \in SUBSET (1 .. n) |->
                   IF s = {} THEN base ELSE RegisterMember(f[s \ {Max(s)}], kind, seq[Max(s)])]
<1>1. \A acc, x : Step(job, acc, x) = RegisterMember(acc, kind, x)
  BY DEF Step, Job
<1>2. RegisterAll(base, kind, seq) = f[1 .. n]
  BY DEF RegisterAll, FoldLeft, MapThenFoldSet
<1> HIDE DEF job
<1>3. PICK g : Folds(g, n, job, base, seq)
  BY FoldExists
<1>4. g = [s \in SUBSET (1 .. n) |->
             IF s = {} THEN base ELSE RegisterMember(g[s \ {Max(s)}], kind, seq[Max(s)])]
  BY <1>1, <1>3 DEF Folds
<1>5. f = [s \in SUBSET (1 .. n) |->
             IF s = {} THEN base ELSE RegisterMember(f[s \ {Max(s)}], kind, seq[Max(s)])]
  BY <1>4
<1> HIDE DEF f
<1>6. Folds(f, n, job, base, seq)
  BY <1>1, <1>5, ZenonT(60) DEF Folds
<1>7. QED
  BY <1>2, <1>6 DEF Outcome, job

LEMMA ZoneIsFold ==
    ASSUME NEW base, NEW kind, NEW answers, NEW seq, NEW n \in Nat, DOMAIN seq = 1 .. n
    PROVE  Outcome(BuildZoneGroup(base, kind, seq), n, Job("zone", kind, answers), base, seq)
<1> DEFINE job == Job("zone", kind, answers)
           f == CHOOSE f : f = [s \in SUBSET (1 .. n) |->
                   IF s = {} THEN base ELSE AddZone(f[s \ {Max(s)}], kind, seq[Max(s)])]
<1>1. \A acc, x : Step(job, acc, x) = AddZone(acc, kind, x)
  BY DEF Step, Job
<1>2. BuildZoneGroup(base, kind, seq) = f[1 .. n]
  BY DEF BuildZoneGroup, FoldLeft, MapThenFoldSet
<1> HIDE DEF job
<1>3. PICK g : Folds(g, n, job, base, seq)
  BY FoldExists
<1>4. g = [s \in SUBSET (1 .. n) |->
             IF s = {} THEN base ELSE AddZone(g[s \ {Max(s)}], kind, seq[Max(s)])]
  BY <1>1, <1>3 DEF Folds
<1>5. f = [s \in SUBSET (1 .. n) |->
             IF s = {} THEN base ELSE AddZone(f[s \ {Max(s)}], kind, seq[Max(s)])]
  BY <1>4
<1> HIDE DEF f
<1>6. Folds(f, n, job, base, seq)
  BY <1>1, <1>5, ZenonT(60) DEF Folds
<1>7. QED
  BY <1>2, <1>6 DEF Outcome, job

(***************************************************************************)
(* The entries of pools are sequences.                                     *)
(***************************************************************************)
Flattens(f, m, seqs) ==
    f = [i \in 1 .. m |-> IF i = 1 THEN seqs[i] ELSE f[i - 1] \o seqs[i]]

LEMMA FlattenExists ==
    ASSUME NEW seqs, NEW n \in Nat
    PROVE  \E f : Flattens(f, n, seqs)
<1> DEFINE Bad == {m \in Nat : ~\E f : Flattens(f, m, seqs)}
<1>1. Bad = {}
  <2> SUFFICES ASSUME Bad # {} PROVE FALSE
    OBVIOUS
  <2>1. PICK m \in Bad : \A k \in Bad : m <= k
    <3>1. Bad \in SUBSET Nat
      OBVIOUS
    <3> HIDE DEF Bad
    <3>2. QED
      BY <3>1, LeastNatural
  <2>2. m \in Nat /\ ~\E f : Flattens(f, m, seqs)
    OBVIOUS
  <2>3. m # 0
    <3> DEFINE f == [i \in 1 .. 0 |-> seqs[i]]
    <3>1. 1 .. 0 = {}
      OBVIOUS
    <3>2. Flattens(f, 0, seqs)
      BY <3>1 DEF Flattens
    <3> HIDE DEF f
    <3>3. QED
      BY <2>2, <3>2
  <2>4. m - 1 \in Nat /\ m - 1 \notin Bad
    <3>1. m - 1 \in Nat /\ m - 1 < m
      BY <2>2, <2>3
    <3> HIDE DEF Bad
    <3>2. QED
      BY <2>1, <2>2, <3>1
  <2>5. PICK g : Flattens(g, m - 1, seqs)
    BY <2>4
  <2> DEFINE f == [i \in 1 .. m |-> IF i = m /\ m # 1 THEN g[m - 1] \o seqs[m]
                                    ELSE IF i = 1 THEN seqs[1] ELSE g[i]]
  <2>6. ASSUME NEW i \in 1 .. m
        PROVE  f[i] = IF i = 1 THEN seqs[i] ELSE f[i - 1] \o seqs[i]
    <3>1. CASE i = 1
      BY <3>1
    <3>2. CASE i # 1
      <4>1. i - 1 \in 1 .. (m - 1) /\ i - 1 \in 1 .. m /\ i - 1 # m
        BY <2>2, <3>2
      <4>2. \A k \in 1 .. (m - 1) : g[k] = IF k = 1 THEN seqs[k] ELSE g[k - 1] \o seqs[k]
        BY <2>5 DEF Flattens
      <4>3. f[i - 1] = g[i - 1]
        BY <4>1, <4>2
      <4>4. CASE i = m
        BY <3>2, <4>3, <4>4
      <4>5. CASE i # m
        <5>1. i \in 1 .. (m - 1)
          BY <2>2, <4>5
        <5>2. f[i] = g[i]
          BY <3>2, <4>5
        <5>3. QED
          BY <3>2, <4>2, <4>3, <5>1, <5>2
      <4>6. QED
        BY <4>4, <4>5
    <3>3. QED
      BY <3>1, <3>2
  <2>7. f = [i \in 1 .. m |-> f[i]]
    OBVIOUS
  <2> HIDE DEF f
  <2>8. Flattens(f, m, seqs)
    BY <2>6, <2>7 DEF Flattens
  <2>9. QED
    BY <2>2, <2>8
<1>2. n \notin Bad
  BY <1>1
<1>3. QED
  BY <1>2

LEMMA FlattenIsSequence ==
    ASSUME NEW S, NEW seqs \in Seq(Seq(S))
    PROVE  FlattenSeq(seqs) \in Seq(S)
<1> DEFINE n == Len(seqs)
<1>1. n \in Nat /\ DOMAIN seqs = 1 .. n /\ \A i \in 1 .. n : seqs[i] \in Seq(S)
  BY LenProperties, ElementOfSeq
<1>2. CASE n = 0
  <2>1. FlattenSeq(seqs) = seqs /\ seqs = <<>>
    BY <1>1, <1>2, EmptySeq DEF FlattenSeq
  <2>2. QED
    BY <2>1
<1>3. CASE n # 0
  <2> DEFINE f == CHOOSE f : f = [i \in 1 .. n |-> IF i = 1 THEN seqs[i] ELSE f[i - 1] \o seqs[i]]
  <2>1. FlattenSeq(seqs) = f[n]
    BY <1>3 DEF FlattenSeq
  <2>2. \E g : Flattens(g, n, seqs)
    BY <1>1, FlattenExists
  <2>3. f = [i \in 1 .. n |-> IF i = 1 THEN seqs[i] ELSE f[i - 1] \o seqs[i]]
    BY <2>2 DEF Flattens
  <2> HIDE DEF f, n
  <2> DEFINE Bad == {m \in 1 .. n : f[m] \notin Seq(S)}
  <2>4. Bad = {}
    <3> SUFFICES ASSUME Bad # {} PROVE FALSE
      OBVIOUS
    <3>1. PICK m \in Bad : \A k \in Bad : m <= k
      <4>1. Bad \in SUBSET Nat
        BY <1>1
      <4> HIDE DEF Bad
      <4>2. QED
        BY <4>1, LeastNatural
    <3>2. m \in 1 .. n /\ f[m] \notin Seq(S)
      OBVIOUS
    <3>3. f[m] = IF m = 1 THEN seqs[m] ELSE f[m - 1] \o seqs[m]
      BY <2>3, <3>2
    <3>4. m # 1
      BY <1>1, <3>2, <3>3
    <3>5. m - 1 \in 1 .. n /\ m - 1 < m
      BY <1>1, <3>2, <3>4
    <3>6. m - 1 \notin Bad
      <4> HIDE DEF Bad
      <4>1. QED
        BY <1>1, <3>1, <3>2, <3>5
    <3>7. f[m - 1] \in Seq(S) /\ seqs[m] \in Seq(S)
      BY <1>1, <3>2, <3>5, <3>6
    <3>8. f[m - 1] \o seqs[m] \in Seq(S)
      BY <3>7, ConcatProperties
    <3>9. QED
      BY <3>2, <3>3, <3>4, <3>8
  <2>5. n \in 1 .. n
    BY <1>1, <1>3 DEF n
  <2>6. QED
    BY <2>1, <2>4, <2>5
<1>4. QED
  BY <1>2, <1>3

\* The entries of all pools, given those of the pools below.
WalkLevel(objects, pools, d, below) ==
    [pool \in DOMAIN pools |->
       IF d = 0 THEN <<Entry("loop", pool)>>
       ELSE Append(FlattenSeq([i \in DOMAIN pools[pool] |->
                       EntriesOf(objects, pools, pools[pool][i], below)]), Entry("pool", pool))]

Walks(w, m, objects, pools) ==
    w = [d \in 0 .. m |-> WalkLevel(objects, pools, d, w[d - 1])]

LEMMA LevelZero ==
    ASSUME NEW objects, NEW pools, NEW a, NEW b
    PROVE  WalkLevel(objects, pools, 0, a) = WalkLevel(objects, pools, 0, b)
BY DEF WalkLevel

LEMMA WalkExists ==
    ASSUME NEW objects, NEW pools, NEW n \in Nat
    PROVE  \E w : Walks(w, n, objects, pools)
<1> DEFINE Bad == {m \in Nat : ~\E w : Walks(w, m, objects, pools)}
<1>1. Bad = {}
  <2> SUFFICES ASSUME Bad # {} PROVE FALSE
    OBVIOUS
  <2>1. PICK m \in Bad : \A k \in Bad : m <= k
    <3>1. Bad \in SUBSET Nat
      OBVIOUS
    <3> HIDE DEF Bad
    <3>2. QED
      BY <3>1, LeastNatural
  <2>2. m \in Nat /\ ~\E w : Walks(w, m, objects, pools)
    OBVIOUS
  <2>3. m # 0
    <3> DEFINE w == [d \in 0 .. 0 |-> WalkLevel(objects, pools, 0, {})]
    <3>1. 0 .. 0 = {0}
      OBVIOUS
    <3>2. w = [d \in 0 .. 0 |-> WalkLevel(objects, pools, d, w[d - 1])]
      BY <3>1, LevelZero
    <3> HIDE DEF w
    <3>3. Walks(w, 0, objects, pools)
      BY <3>2 DEF Walks
    <3>4. QED
      BY <2>2, <3>3
  <2>4. m - 1 \in Nat /\ m - 1 \notin Bad
    <3>1. m - 1 \in Nat /\ m - 1 < m
      BY <2>2, <2>3
    <3> HIDE DEF Bad
    <3>2. QED
      BY <2>1, <2>2, <3>1
  <2>5. PICK g : Walks(g, m - 1, objects, pools)
    BY <2>4
  <2> DEFINE w == [d \in 0 .. m |-> IF d = m THEN WalkLevel(objects, pools, m, g[m - 1]) ELSE g[d]]
  <2>6. ASSUME NEW d \in 0 .. m
        PROVE  w[d] = WalkLevel(objects, pools, d, w[d - 1])
    <3>1. \A k \in 0 .. (m - 1) : g[k] = WalkLevel(objects, pools, k, g[k - 1])
      BY <2>5 DEF Walks
    <3>2. CASE d = 0
      <4>1. w[0] = g[0] /\ 0 \in 0 .. (m - 1)
        BY <2>2, <2>3
      <4>2. g[0] = WalkLevel(objects, pools, 0, g[0 - 1])
        BY <3>1, <4>1
      <4> HIDE DEF w
      <4>3. QED
        BY <3>2, <4>1, <4>2, LevelZero
    <3>3. CASE d # 0 /\ d = m
      <4>1. w[m - 1] = g[m - 1]
        BY <2>2, <2>3
      <4>2. QED
        BY <3>3, <4>1
    <3>4. CASE d # 0 /\ d # m
      <4>1. d - 1 \in 0 .. m /\ d - 1 # m /\ d \in 0 .. (m - 1)
        BY <2>2, <3>4
      <4>2. w[d - 1] = g[d - 1] /\ w[d] = g[d]
        BY <3>4, <4>1
      <4>3. QED
        BY <3>1, <4>1, <4>2
    <3>5. QED
      BY <3>2, <3>3, <3>4
  <2>7. w = [d \in 0 .. m |-> w[d]]
    OBVIOUS
  <2> HIDE DEF w
  <2>8. Walks(w, m, objects, pools)
    BY <2>6, <2>7 DEF Walks
  <2>9. QED
    BY <2>2, <2>8
<1>2. n \notin Bad
  BY <1>1
<1>3. QED
  BY <1>2

EntryRecord == [type : {"object", "pool", "unresolved", "loop"}, name : STRING]

LEMMA LevelIsSequences ==
    ASSUME NEW objects, NEW pools, DOMAIN pools \subseteq STRING,
           \A pool \in DOMAIN pools : pools[pool] \in Seq(STRING),
           NEW d, NEW below,
           d # 0 => \A pool \in DOMAIN pools : below[pool] \in Seq(EntryRecord),
           NEW pool \in DOMAIN pools
    PROVE  WalkLevel(objects, pools, d, below)[pool] \in Seq(EntryRecord)
<1>1. \A type \in {"object", "pool", "unresolved", "loop"} : \A name \in STRING :
          Entry(type, name) \in EntryRecord /\ <<Entry(type, name)>> \in Seq(EntryRecord)
  BY DEF Entry, EntryRecord
<1>2. CASE d = 0
  BY <1>1, <1>2 DEF WalkLevel
<1>3. CASE d # 0
  <2> DEFINE parts == [i \in DOMAIN pools[pool] |-> EntriesOf(objects, pools, pools[pool][i], below)]
  <2>1. DOMAIN pools[pool] = 1 .. Len(pools[pool]) /\ Len(pools[pool]) \in Nat
    BY LenProperties
  <2>2. ASSUME NEW name \in STRING
        PROVE  EntriesOf(objects, pools, name, below) \in Seq(EntryRecord)
    BY <1>1, <1>3 DEF EntriesOf
  <2>3. \A i \in 1 .. Len(pools[pool]) : pools[pool][i] \in STRING
    BY ElementOfSeq
  <2>4. parts \in Seq(Seq(EntryRecord))
    <3>1. parts = [i \in 1 .. Len(pools[pool]) |-> EntriesOf(objects, pools, pools[pool][i], below)]
      BY <2>1
    <3> DEFINE T == Seq(EntryRecord)
    <3>2. \A i \in 1 .. Len(pools[pool]) : EntriesOf(objects, pools, pools[pool][i], below) \in T
      BY <2>2, <2>3
    <3> HIDE DEF parts, T
    <3>3. parts \in [1 .. Len(pools[pool]) -> T]
      BY <3>1, <3>2
    <3>4. parts \in Seq(T)
      BY <2>1, <3>3
    <3>5. QED
      BY <3>4 DEF T
  <2>5. FlattenSeq(parts) \in Seq(EntryRecord)
    BY <2>4, FlattenIsSequence
  <2>6. WalkLevel(objects, pools, d, below)[pool] = Append(FlattenSeq(parts), Entry("pool", pool))
    BY <1>3 DEF WalkLevel
  <2> HIDE DEF parts
  <2>7. Entry("pool", pool) \in EntryRecord
    BY <1>1
  <2>8. Append(FlattenSeq(parts), Entry("pool", pool)) \in Seq(EntryRecord)
    BY <2>5, <2>7, AppendProperties
  <2>9. QED
    BY <2>6, <2>8
<1>4. QED
  BY <1>2, <1>3

LEMMA TraversalIsSequence ==
    ASSUME NEW objects, NEW pools, IsFiniteSet(DOMAIN pools), DOMAIN pools \subseteq STRING,
           \A pool \in DOMAIN pools : pools[pool] \in Seq(STRING),
           NEW pool \in DOMAIN pools
    PROVE  Traversal(objects, pools)[pool] \in Seq(EntryRecord)
<1> DEFINE n == Cardinality(DOMAIN pools)
           w == CHOOSE w : w = [d \in 0 .. n |->
                   [p \in DOMAIN pools |->
                      IF d = 0 THEN <<Entry("loop", p)>>
                      ELSE Append(FlattenSeq([i \in DOMAIN pools[p] |->
                                      EntriesOf(objects, pools, pools[p][i], w[d - 1])]),
                                  Entry("pool", p))]]
<1>1. n \in Nat
  BY FS_CardinalityType
<1>2. Traversal(objects, pools) = w[n]
  BY DEF Traversal
<1>3. \E g : Walks(g, n, objects, pools)
  BY <1>1, WalkExists
<1>4. w = [d \in 0 .. n |->
             [p \in DOMAIN pools |->
                IF d = 0 THEN <<Entry("loop", p)>>
                ELSE Append(FlattenSeq([i \in DOMAIN pools[p] |->
                                EntriesOf(objects, pools, pools[p][i], w[d - 1])]), Entry("pool", p))]]
  BY <1>3 DEF Walks, WalkLevel
<1> HIDE DEF w
<1>5. \A d \in 0 .. n : w[d] = WalkLevel(objects, pools, d, w[d - 1])
  BY <1>4 DEF WalkLevel
<1> HIDE DEF n
<1> DEFINE Bad == {m \in 0 .. n : ~\A p \in DOMAIN pools : w[m][p] \in Seq(EntryRecord)}
<1>6. Bad = {}
  <2> SUFFICES ASSUME Bad # {} PROVE FALSE
    OBVIOUS
  <2>1. PICK m \in Bad : \A k \in Bad : m <= k
    <3>1. Bad \in SUBSET Nat
      BY <1>1
    <3> HIDE DEF Bad
    <3>2. QED
      BY <3>1, LeastNatural
  <2>2. m \in 0 .. n /\ ~\A p \in DOMAIN pools : w[m][p] \in Seq(EntryRecord)
    OBVIOUS
  <2>3. m # 0 => \A p \in DOMAIN pools : w[m - 1][p] \in Seq(EntryRecord)
    <3>1. m # 0 => m - 1 \in 0 .. n /\ m - 1 < m
      BY <1>1, <2>2
    <3>2. m # 0 => m - 1 \notin Bad
      <4> HIDE DEF Bad
      <4>1. QED
        BY <1>1, <2>1, <2>2, <3>1
    <3>3. QED
      BY <3>1, <3>2
  <2>4. \A p \in DOMAIN pools : w[m][p] \in Seq(EntryRecord)
    <3>1. ASSUME NEW p \in DOMAIN pools
          PROVE  WalkLevel(objects, pools, m, w[m - 1])[p] \in Seq(EntryRecord)
      <4> DEFINE below == w[m - 1]
      <4>1. m # 0 => \A q \in DOMAIN pools : below[q] \in Seq(EntryRecord)
        BY <2>3
      <4> HIDE DEF below
      <4>2. WalkLevel(objects, pools, m, below)[p] \in Seq(EntryRecord)
        BY <4>1, LevelIsSequences
      <4>3. QED
        BY <4>2 DEF below
    <3>2. QED
      BY <1>5, <2>2, <3>1
  <2>5. QED
    BY <2>2, <2>4
<1>7. n \in 0 .. n
  BY <1>1
<1>8. QED
  BY <1>2, <1>6, <1>7

(***************************************************************************)
(* The resolver.                                                           *)
(***************************************************************************)
LEMMA RecordKeeps ==
    ASSUME NEW r, ResolverOK(r), NEW host, NEW answer
    PROVE  ResolverOK(RecordAnswer(r, host, answer)) /\ KnownTo(r, RecordAnswer(r, host, answer))
<1> DEFINE s == RecordAnswer(r, host, answer)
<1>1. CASE host \in DOMAIN r.memory \/ IsFailure(answer)
  BY <1>1 DEF RecordAnswer, KnownTo
<1>2. CASE ~(host \in DOMAIN r.memory \/ IsFailure(answer))
  <2> DEFINE found == answer.found
  <2>2. s = [memory |-> Put(r.memory, host, found), filtered |-> r.filtered,
             file |-> IF found = {} THEN r.file ELSE Put(r.file, host, found)]
    BY <1>2 DEF RecordAnswer, ResolverOK
  <2> HIDE DEF found, s
  <2>3. /\ DOMAIN s.memory = {host} \cup DOMAIN r.memory /\ s.memory[host] = found
        /\ \A h \in DOMAIN r.memory : h # host /\ s.memory[h] = r.memory[h]
    BY <1>2, <2>2 DEF Put
  <2>4. s.filtered = r.filtered
    BY <2>2
  <2>5. found # {} =>
            /\ DOMAIN s.file = {host} \cup DOMAIN r.file /\ s.file[host] = found
            /\ \A h \in DOMAIN r.file : h # host => s.file[h] = r.file[h]
    BY <2>2 DEF Put
  <2>6. found = {} => s.file = r.file
    BY <2>2
  <2>7. KnownTo(r, s)
    BY <2>3 DEF KnownTo
  <2>8. \A h \in DOMAIN s.memory : s.memory[h] # {} => h \in DOMAIN s.file /\ s.file[h] = s.memory[h]
    BY <2>3, <2>5, <2>6 DEF ResolverOK
  <2>9. \A h \in DOMAIN s.filtered : h \in DOMAIN s.memory /\ s.filtered[h] \in FilteredEntry
    BY <2>3, <2>4 DEF ResolverOK
  <2>10. s = [memory |-> s.memory, filtered |-> s.filtered, file |-> s.file]
    BY <2>2
  <2>11. QED
    BY <2>7, <2>8, <2>9, <2>10 DEF ResolverOK, s
<1>3. QED
  BY <1>1, <1>2

LEMMA FilterKeeps ==
    ASSUME NEW r, ResolverOK(r), NEW name \in STRING, NEW host
    PROVE  ResolverOK(FilterAnswer(r, name, host)) /\ KnownTo(r, FilterAnswer(r, name, host))
<1> DEFINE s == FilterAnswer(r, name, host)
<1>1. CASE host \in DOMAIN r.filtered \/ host \notin DOMAIN r.memory
  BY <1>1 DEF FilterAnswer, KnownTo
<1>2. CASE ~(host \in DOMAIN r.filtered \/ host \notin DOMAIN r.memory)
  <2> DEFINE entry == [name |-> name, addresses |-> r.memory[host] \cap UsableAddress]
  <2>2. entry \in FilteredEntry
    BY DEF FilteredEntry
  <2>3. s = [memory |-> r.memory, filtered |-> Put(r.filtered, host, entry), file |-> r.file]
    BY <1>2 DEF FilterAnswer, ResolverOK
  <2> HIDE DEF s, entry
  <2>4. /\ DOMAIN s.filtered = {host} \cup DOMAIN r.filtered /\ s.filtered[host] = entry
        /\ \A h \in DOMAIN r.filtered : h # host => s.filtered[h] = r.filtered[h]
        /\ s.memory = r.memory /\ s.file = r.file
    BY <2>3 DEF Put
  <2>5. \A h \in DOMAIN s.filtered : h \in DOMAIN s.memory /\ s.filtered[h] \in FilteredEntry
    BY <1>2, <2>2, <2>4 DEF ResolverOK
  <2>6. s = [memory |-> s.memory, filtered |-> s.filtered, file |-> s.file]
    BY <2>3
  <2>7. QED
    BY <2>4, <2>5, <2>6 DEF ResolverOK, KnownTo, s
<1>3. QED
  BY <1>1, <1>2

LEMMA KnownTransitive ==
    ASSUME NEW r, NEW s, NEW t, KnownTo(r, s), KnownTo(s, t)
    PROVE  KnownTo(r, t)
BY DEF KnownTo

\* A call of the resolver keeps what is known, and what is on the disk.
LEMMA ResolveKeeps ==
    ASSUME NEW r, ResolverOK(r), NEW name \in STRING, NEW host, NEW answer
    PROVE  ResolverOK(Resolve(r, name, host, answer)) /\ KnownTo(r, Resolve(r, name, host, answer))
<1> DEFINE s == RecordAnswer(r, host, answer)
<1>1. ResolverOK(s) /\ KnownTo(r, s)
  BY RecordKeeps
<1> HIDE DEF s
<1>2. ResolverOK(FilterAnswer(s, name, host)) /\ KnownTo(s, FilterAnswer(s, name, host))
  BY <1>1, FilterKeeps
<1>3. Resolve(r, name, host, answer) = FilterAnswer(s, name, host)
  BY DEF Resolve, s
<1>4. QED
  BY <1>1, <1>2, <1>3, KnownTransitive

(***************************************************************************)
(* The network.                                                            *)
(***************************************************************************)
LEMMA GeneratorsOfKinds ==
    ASSUME NEW kind \in NumberedKind
    PROVE  GeneratorOf(kind) \in Generator
BY DEF NumberedKind, CacheKind, GeneratorOf, Generator

\* Another set of objects for one cache.
LEMMA ObjectsPut ==
    ASSUME NEW nw, NetworkOK(nw), NEW kind \in CacheKind, NEW put,
           kind \in NumberedKind =>
             \A name \in DOMAIN put \ {"any"} :
                LET ids == nw.gen[GeneratorOf(kind)].ids IN
                name \in DOMAIN ids /\ {IdOf(kind, value) : value \in put[name]} = {ids[name]}
    PROVE  NetworkOK([nw EXCEPT !.cache[kind].objects = put])
<1> DEFINE after == [nw EXCEPT !.cache[kind].objects = put]
<1>1. /\ nw = [cache |-> nw.cache, gen |-> nw.gen]
      /\ nw.cache = [k \in CacheKind |-> [objects |-> nw.cache[k].objects, groups |-> nw.cache[k].groups]]
      /\ nw.gen = [gen \in Generator |-> nw.gen[gen]]
      /\ \A gen \in Generator : GeneratorOK(nw.gen[gen])
      /\ \A k \in NumberedKind : NumbersOK(nw, k)
  BY DEF NetworkOK
<1>2. after.gen = nw.gen /\ after = [cache |-> after.cache, gen |-> after.gen]
  BY <1>1
<1>3. after.cache = [nw.cache EXCEPT ![kind] = [nw.cache[kind] EXCEPT !.objects = put]]
  BY <1>1
<1>4. \A k \in CacheKind : nw.cache[k] = [objects |-> nw.cache[k].objects, groups |-> nw.cache[k].groups]
  BY <1>1
<1> HIDE DEF after
<1>5. \A k \in CacheKind :
          /\ after.cache[k].objects = IF k = kind THEN put ELSE nw.cache[k].objects
          /\ after.cache[k] = [objects |-> after.cache[k].objects, groups |-> after.cache[k].groups]
  BY <1>1, <1>3, <1>4
<1>6. DOMAIN after.cache = CacheKind
  BY <1>1, <1>3
<1>7. after.cache = [k \in CacheKind |-> [objects |-> after.cache[k].objects, groups |-> after.cache[k].groups]]
  <2>1. after.cache = [k \in CacheKind |-> after.cache[k]]
    BY <1>1, <1>3
  <2>2. QED
    BY <1>5, <2>1
<1>8. ASSUME NEW k \in NumberedKind
      PROVE  NumbersOK(after, k)
  <2>1. k \in CacheKind
    BY DEF NumberedKind
  <2>2. CASE k = kind
    <3>1. after.cache[k].objects = put
      BY <1>5, <2>1, <2>2
    <3>2. QED
      BY <1>2, <2>2, <3>1 DEF NumbersOK
  <2>3. CASE k # kind
    <3>1. after.cache[k].objects = nw.cache[k].objects
      BY <1>5, <2>1, <2>3
    <3>2. NumbersOK(nw, k)
      BY <1>1
    <3>3. QED
      BY <1>2, <3>1, <3>2 DEF NumbersOK
  <2>4. QED
    BY <2>2, <2>3
<1>9. QED
  BY <1>1, <1>2, <1>7, <1>8 DEF NetworkOK, after

LEMMA GroupsPut ==
    ASSUME NEW nw, NetworkOK(nw), NEW kind \in CacheKind, NEW put
    PROVE  NetworkOK([nw EXCEPT !.cache[kind].groups = put])
<1> DEFINE after == [nw EXCEPT !.cache[kind].groups = put]
<1>1. /\ nw = [cache |-> nw.cache, gen |-> nw.gen]
      /\ nw.cache = [k \in CacheKind |-> [objects |-> nw.cache[k].objects, groups |-> nw.cache[k].groups]]
      /\ nw.gen = [gen \in Generator |-> nw.gen[gen]]
      /\ \A gen \in Generator : GeneratorOK(nw.gen[gen])
      /\ \A k \in NumberedKind : NumbersOK(nw, k)
  BY DEF NetworkOK
<1>2. after.gen = nw.gen /\ after = [cache |-> after.cache, gen |-> after.gen]
  BY <1>1
<1>3. after.cache = [nw.cache EXCEPT ![kind] = [nw.cache[kind] EXCEPT !.groups = put]]
  BY <1>1
<1>4. \A k \in CacheKind : nw.cache[k] = [objects |-> nw.cache[k].objects, groups |-> nw.cache[k].groups]
  BY <1>1
<1> HIDE DEF after
<1>5. \A k \in CacheKind :
          /\ after.cache[k].objects = nw.cache[k].objects
          /\ after.cache[k] = [objects |-> after.cache[k].objects, groups |-> after.cache[k].groups]
  BY <1>1, <1>3, <1>4
<1>6. after.cache = [k \in CacheKind |-> [objects |-> after.cache[k].objects, groups |-> after.cache[k].groups]]
  <2>1. after.cache = [k \in CacheKind |-> after.cache[k]]
    BY <1>1, <1>3
  <2>2. QED
    BY <1>5, <2>1
<1>7. \A k \in NumberedKind : NumbersOK(after, k)
  BY <1>1, <1>2, <1>5, ZenonT(60) DEF NumbersOK, NumberedKind
<1>8. QED
  BY <1>1, <1>2, <1>6, <1>7 DEF NetworkOK, after

\* A generator that keeps the numbers it gave.
LEMMA GeneratorPut ==
    ASSUME NEW nw, NetworkOK(nw), NEW g \in Generator, NEW put, GeneratorOK(put),
           \A name \in DOMAIN nw.gen[g].ids :
              name \in DOMAIN put.ids /\ put.ids[name] = nw.gen[g].ids[name]
    PROVE  LET after == [nw EXCEPT !.gen[g] = put] IN
           NetworkOK(after) /\ after.cache = nw.cache /\ after.gen[g] = put
<1> DEFINE after == [nw EXCEPT !.gen[g] = put]
<1>1. /\ nw = [cache |-> nw.cache, gen |-> nw.gen]
      /\ nw.gen = [gen \in Generator |-> nw.gen[gen]]
      /\ \A gen \in Generator : GeneratorOK(nw.gen[gen])
      /\ \A k \in NumberedKind : NumbersOK(nw, k)
  BY DEF NetworkOK
<1>2. /\ after.cache = nw.cache /\ after = [cache |-> after.cache, gen |-> after.gen]
      /\ after.gen = [nw.gen EXCEPT ![g] = put]
  BY <1>1
<1> HIDE DEF after
<1>3. \A gen \in Generator : after.gen[gen] = IF gen = g THEN put ELSE nw.gen[gen]
  BY <1>1, <1>2
<1>4. after.gen = [gen \in Generator |-> after.gen[gen]]
  BY <1>1, <1>2
<1>5. \A k \in NumberedKind : NumbersOK(after, k)
  <2> SUFFICES ASSUME NEW k \in NumberedKind, NEW name \in DOMAIN nw.cache[k].objects \ {"any"}
               PROVE  LET ids == after.gen[GeneratorOf(k)].ids IN
                      /\ name \in DOMAIN ids
                      /\ {IdOf(k, value) : value \in nw.cache[k].objects[name]} = {ids[name]}
    BY <1>2 DEF NumbersOK
  <2> DEFINE ids == nw.gen[GeneratorOf(k)].ids
  <2>1. name \in DOMAIN ids /\ {IdOf(k, value) : value \in nw.cache[k].objects[name]} = {ids[name]}
    BY <1>1 DEF NumbersOK
  <2>2. GeneratorOf(k) \in Generator
    BY GeneratorsOfKinds
  <2>3. after.gen[GeneratorOf(k)].ids[name] = ids[name] /\ name \in DOMAIN after.gen[GeneratorOf(k)].ids
    BY <1>3, <2>1, <2>2
  <2>4. QED
    BY <2>1, <2>3
<1>6. \A gen \in Generator : GeneratorOK(after.gen[gen])
  BY <1>1, <1>3
<1>7. NetworkOK(after)
  BY <1>2, <1>4, <1>5, <1>6, NetworkOK(nw) DEF NetworkOK
<1>8. QED
  BY <1>2, <1>3, <1>7 DEF after

LEMMA CacheObjectKeeps ==
    ASSUME NEW nw, NetworkOK(nw), NEW kind \in CacheKind \ NumberedKind, NEW name, NEW values
    PROVE  NetworkOK(CacheObject(nw, kind, name, values))
BY ObjectsPut DEF CacheObject

LEMMA CacheMultiKeeps ==
    ASSUME NEW nw, NetworkOK(nw), NEW kind \in CacheKind, NEW name, NEW values
    PROVE  NetworkOK(CacheMulti(nw, kind, name, values))
BY GroupsPut DEF CacheMulti

LEMMA CacheGroupKeeps ==
    ASSUME NEW nw, NetworkOK(nw), NEW kind \in CacheKind, NEW name, NEW members
    PROVE  NetworkOK(CacheGroup(nw, kind, name, members))
BY GroupsPut DEF CacheGroup

\* A generator gives a new name a number that no other name has, and keeps
\* those it gave.
LEMMA GetIdKeeps ==
    ASSUME NEW gen, GeneratorOK(gen), NEW name
    PROVE  /\ GeneratorOK(GetId(gen, name))
           /\ \A n \in DOMAIN gen.ids :
                 n \in DOMAIN GetId(gen, name).ids /\ GetId(gen, name).ids[n] = gen.ids[n]
           /\ ~Overflows(gen, name) => name \in DOMAIN GetId(gen, name).ids
<1> DEFINE after == GetId(gen, name)
<1>1. CASE HasId(gen, name)
  BY <1>1 DEF GetId, HasId
<1>2. CASE ~HasId(gen, name) /\ Overflows(gen, name)
  <2>1. after = [next |-> gen.next + 1, ids |-> gen.ids]
    BY <1>2 DEF GetId
  <2>2. GeneratorOK(after)
    BY <2>1 DEF GeneratorOK
  <2>3. QED
    BY <1>2, <2>1, <2>2
<1>3. CASE ~HasId(gen, name) /\ ~Overflows(gen, name)
  <2>1. after = [next |-> gen.next + 1, ids |-> Put(gen.ids, name, gen.next)]
    BY <1>3 DEF GetId
  <2>2. gen.next \in 1 .. (MaxId - 1) /\ gen.next \in Nat
    BY <1>3, MaxIdAssumption DEF Overflows, GeneratorOK
  <2> HIDE DEF after
  <2>3. /\ DOMAIN after.ids = {name} \cup DOMAIN gen.ids /\ after.ids[name] = gen.next
        /\ \A n \in DOMAIN gen.ids : n # name /\ after.ids[n] = gen.ids[n]
    <3>1. name \notin DOMAIN gen.ids
      BY <1>3 DEF HasId
    <3>2. QED
      BY <2>1, <3>1 DEF Put
  <2>4. after.next = gen.next + 1
    BY <2>1
  <2>5. \A n \in DOMAIN after.ids : after.ids[n] \in 1 .. (MaxId - 1) /\ after.ids[n] < after.next
    BY <2>2, <2>3, <2>4 DEF GeneratorOK
  <2>6. \A a, b \in DOMAIN after.ids : after.ids[a] = after.ids[b] => a = b
    BY <2>2, <2>3 DEF GeneratorOK
  <2>7. GeneratorOK(after)
    BY <2>1, <2>2, <2>4, <2>5, <2>6 DEF GeneratorOK
  <2>8. QED
    BY <2>3, <2>7 DEF after
<1>4. QED
  BY <1>1, <1>2, <1>3

(***************************************************************************)
(* The steps of a build.                                                   *)
(***************************************************************************)
LEMMA SoundRecord ==
    ASSUME NEW first, NEW b, Sound(first, b),
           NEW nw, NetworkOK(nw), NEW r, ResolverOK(r), KnownTo(b.resolver, r),
           NEW failed, NEW groups, NEW unresolved, NEW thrown,
           NEW after,
           after = [network |-> nw, resolver |-> r, failing |-> failed,
                    groups |-> groups, unresolved |-> unresolved, thrown |-> thrown]
    PROVE  Sound(first, after)
<1>1. KnownTo(first, r)
  BY KnownTransitive DEF Sound
<1>2. /\ after = [network |-> after.network, resolver |-> after.resolver, failing |-> after.failing,
                  groups |-> after.groups, unresolved |-> after.unresolved, thrown |-> after.thrown]
      /\ after.network = nw /\ after.resolver = r
  OBVIOUS
<1>3. QED
  BY <1>1, <1>2 DEF Sound

LEMMA SoundParts ==
    ASSUME NEW first, NEW b, Sound(first, b)
    PROVE  /\ b = [network |-> b.network, resolver |-> b.resolver, failing |-> b.failing,
                   groups |-> b.groups, unresolved |-> b.unresolved, thrown |-> b.thrown]
           /\ ResolverOK(b.resolver) /\ KnownTo(b.resolver, b.resolver) /\ NetworkOK(b.network)
BY DEF Sound, KnownTo

LEMMA TwoReplaced ==
    ASSUME NEW b, NEW x, NEW y
    PROVE  /\ \E mid : /\ mid = [b EXCEPT !.network = x]
                       /\ [b EXCEPT !.network = x, !.thrown = y] = [mid EXCEPT !.thrown = y]
           /\ \E mid : /\ mid = [b EXCEPT !.resolver = x]
                       /\ [b EXCEPT !.resolver = x, !.failing = y] = [mid EXCEPT !.failing = y]
OBVIOUS

LEMMA NetworkReplaced ==
    ASSUME NEW first, NEW b, Sound(first, b), NEW nw, NetworkOK(nw)
    PROVE  Sound(first, [b EXCEPT !.network = nw])
<1>1. [b EXCEPT !.network = nw] =
          [network |-> nw, resolver |-> b.resolver, failing |-> b.failing,
           groups |-> b.groups, unresolved |-> b.unresolved, thrown |-> b.thrown]
  BY SoundParts
<1>2. QED
  BY <1>1, SoundParts, SoundRecord

LEMMA GroupsReplaced ==
    ASSUME NEW first, NEW b, Sound(first, b), NEW groups
    PROVE  Sound(first, [b EXCEPT !.groups = groups])
<1>1. [b EXCEPT !.groups = groups] =
          [network |-> b.network, resolver |-> b.resolver, failing |-> b.failing,
           groups |-> groups, unresolved |-> b.unresolved, thrown |-> b.thrown]
  BY SoundParts
<1>2. QED
  BY <1>1, SoundParts, SoundRecord

LEMMA UnresolvedReplaced ==
    ASSUME NEW first, NEW b, Sound(first, b), NEW unresolved
    PROVE  Sound(first, [b EXCEPT !.unresolved = unresolved])
<1>1. [b EXCEPT !.unresolved = unresolved] =
          [network |-> b.network, resolver |-> b.resolver, failing |-> b.failing,
           groups |-> b.groups, unresolved |-> unresolved, thrown |-> b.thrown]
  BY SoundParts
<1>2. QED
  BY <1>1, SoundParts, SoundRecord

LEMMA ThrownKeeps ==
    ASSUME NEW first, NEW b, Sound(first, b), NEW thrown
    PROVE  Sound(first, [b EXCEPT !.thrown = thrown])
<1>1. [b EXCEPT !.thrown = thrown] =
          [network |-> b.network, resolver |-> b.resolver, failing |-> b.failing,
           groups |-> b.groups, unresolved |-> b.unresolved, thrown |-> thrown]
  BY SoundParts
<1>2. QED
  BY <1>1, SoundParts, SoundRecord

LEMMA DictionaryKinds ==
    ASSUME NEW kind \in DictionaryKind
    PROVE  /\ DictionaryOf(kind) \in ObjectKind /\ kind \in CacheKind
           /\ kind \in {"src", "dst", "svc"} <=> kind \notin NumberedKind
BY DEF DictionaryKind, CacheKind, DictionaryOf, ObjectKind, NumberedKind

LEMMA GetObjectKeeps ==
    ASSUME StoreOK(store), NEW kind \in DictionaryKind, NEW name, NEW answers,
           NEW first, NEW b, Sound(first, b)
    PROVE  Sound(first, GetObject(b, kind, name, answers))
<1>1. CASE ~IsFqdn(kind, name)
  BY <1>1 DEF GetObject
<1>2. CASE IsFqdn(kind, name)
  <2> DEFINE host == HostOf(kind, name)
             r == Resolve(b.resolver, name, host, answers[host])
             failed == b.failing \/ (host \notin DOMAIN b.resolver.memory /\ IsFailure(answers[host]))
  <2>1. name \in STRING
    BY <1>2, DictionaryKinds DEF IsFqdn, ObjectsOf, StoreOK
  <2>2. ResolverOK(r) /\ KnownTo(b.resolver, r)
    BY <2>1, ResolveKeeps, SoundParts
  <2>3. GetObject(b, kind, name, answers) = [b EXCEPT !.resolver = r, !.failing = failed]
    BY <1>2 DEF GetObject
  <2> HIDE DEF r, failed
  <2>4. PICK mid : /\ mid = [b EXCEPT !.resolver = r]
                   /\ [b EXCEPT !.resolver = r, !.failing = failed] = [mid EXCEPT !.failing = failed]
    BY TwoReplaced
  <2>5. GetObject(b, kind, name, answers) = [mid EXCEPT !.failing = failed]
    BY <2>3, <2>4
  <2>6. mid = [network |-> b.network, resolver |-> r, failing |-> b.failing,
               groups |-> b.groups, unresolved |-> b.unresolved, thrown |-> b.thrown]
    BY <2>4, SoundParts
  <2>7. GetObject(b, kind, name, answers) =
            [network |-> b.network, resolver |-> r, failing |-> failed,
             groups |-> b.groups, unresolved |-> b.unresolved, thrown |-> b.thrown]
    BY <2>5, <2>6
  <2>8. QED
    BY <2>2, <2>7, SoundParts, SoundRecord
<1>3. QED
  BY <1>1, <1>2

\* A new object bears the number of its name, which no other name has.
LEMMA RegisterWithIdKeeps ==
    ASSUME NEW kind \in NumberedKind, NEW name, NEW services, NEW first, NEW b, Sound(first, b)
    PROVE  Sound(first, RegisterWithId(b, kind, name, services))
<1> DEFINE g == GeneratorOf(kind)
           gen == b.network.gen[g]
           next == GetId(gen, name)
           nw == [b.network EXCEPT !.gen[g] = next]
<1>1. CASE name \in DOMAIN b.network.cache[kind].objects
  BY <1>1 DEF RegisterWithId
<1>2. CASE name \notin DOMAIN b.network.cache[kind].objects
  <2>1. NetworkOK(b.network) /\ g \in Generator /\ kind \in CacheKind
    BY SoundParts, GeneratorsOfKinds DEF NumberedKind
  <2>2. /\ GeneratorOK(next)
        /\ \A n \in DOMAIN gen.ids : n \in DOMAIN next.ids /\ next.ids[n] = gen.ids[n]
        /\ ~Overflows(gen, name) => name \in DOMAIN next.ids
    BY <2>1, GetIdKeeps DEF NetworkOK
  <2>3. RegisterWithId(b, kind, name, services) = RegisterNumbered(b, kind, name, services, gen, next)
    BY <1>2 DEF RegisterWithId
  <2> HIDE DEF next
  <2>4. NetworkOK(nw) /\ nw.cache = b.network.cache /\ nw.gen[g] = next
    BY <2>1, <2>2, GeneratorPut
  <2>5. CASE Overflows(gen, name)
    <3>1. RegisterNumbered(b, kind, name, services, gen, next) = [b EXCEPT !.network = nw, !.thrown = TRUE]
      <4>1. RegisterNumbered(b, kind, name, services, gen, next)
                = [b EXCEPT !.network.gen[g] = next, !.thrown = TRUE]
        BY <2>5 DEF RegisterNumbered
      <4>2. QED
        BY <4>1, SoundParts
    <3> HIDE DEF nw
    <3>2. PICK mid : /\ mid = [b EXCEPT !.network = nw]
                     /\ [b EXCEPT !.network = nw, !.thrown = TRUE] = [mid EXCEPT !.thrown = TRUE]
      BY TwoReplaced
    <3>3. RegisterNumbered(b, kind, name, services, gen, next) = [mid EXCEPT !.thrown = TRUE]
      BY <3>1, <3>2
    <3>4. mid = [network |-> nw, resolver |-> b.resolver, failing |-> b.failing,
                 groups |-> b.groups, unresolved |-> b.unresolved, thrown |-> b.thrown]
      BY <3>2, SoundParts
    <3>5. RegisterWithId(b, kind, name, services) =
              [network |-> nw, resolver |-> b.resolver, failing |-> b.failing,
               groups |-> b.groups, unresolved |-> b.unresolved, thrown |-> TRUE]
      BY <2>3, <3>3, <3>4
    <3>6. QED
      BY <2>4, <3>5, SoundParts, SoundRecord
  <2>6. CASE ~Overflows(gen, name)
    <3> DEFINE value == NumberedValue(kind, next.ids[name], services)
               registered == CacheObject(nw, kind, name, {value})
    <3>1. RegisterNumbered(b, kind, name, services, gen, next) = [b EXCEPT !.network = registered]
      BY <2>6 DEF RegisterNumbered
    <3>2. registered = [nw EXCEPT !.cache[kind].objects = Put(nw.cache[kind].objects, name, {value})]
      BY <1>2, <2>4 DEF CacheObject
    <3>3. IdOf(kind, value) = next.ids[name]
      BY DEF IdOf, NumberedValue, ApplicationValue
    <3> HIDE DEF nw, value
    <3>4. \A n \in DOMAIN nw.cache[kind].objects \ {"any"} :
              /\ n \in DOMAIN next.ids
              /\ {IdOf(kind, v) : v \in nw.cache[kind].objects[n]} = {next.ids[n]}
      BY <2>4 DEF NetworkOK, NumbersOK
    <3> DEFINE put == Put(nw.cache[kind].objects, name, {value})
    <3>5. ASSUME NEW n \in DOMAIN put \ {"any"}
          PROVE  n \in DOMAIN next.ids /\ {IdOf(kind, v) : v \in put[n]} = {next.ids[n]}
      <4>1. CASE n = name
        <5>1. put[n] = {value}
          BY <4>1 DEF Put
        <5>2. QED
          BY <2>2, <2>6, <3>3, <4>1, <5>1
      <4>2. CASE n # name
        <5>1. n \in DOMAIN nw.cache[kind].objects \ {"any"} /\ put[n] = nw.cache[kind].objects[n]
          BY <4>2 DEF Put
        <5>2. QED
          BY <3>4, <5>1
      <4>3. QED
        BY <4>1, <4>2
    <3> HIDE DEF put
    <3>6. NetworkOK([nw EXCEPT !.cache[kind].objects = put])
      BY <2>1, <2>4, <3>5, ObjectsPut
    <3>7. NetworkOK(registered)
      BY <3>2, <3>6 DEF put
    <3> HIDE DEF registered
    <3>8. QED
      BY <2>3, <3>1, <3>7, NetworkReplaced
  <2>7. QED
    BY <2>5, <2>6
<1>3. QED
  BY <1>1, <1>2

LEMMA RegisterObjectKeeps ==
    ASSUME NEW kind \in DictionaryKind, NEW object, NEW first, NEW b, Sound(first, b)
    PROVE  Sound(first, RegisterObject(b, kind, object))
<1>1. kind \in CacheKind /\ NetworkOK(b.network) /\ (kind \in {"src", "dst", "svc"} <=> kind \notin NumberedKind)
  BY DictionaryKinds, SoundParts
<1>2. CASE IsMulti(kind, object)
  <2> DEFINE nw == CacheMulti(b.network, kind, object.name, object.addresses)
  <2>1. RegisterObject(b, kind, object) = [b EXCEPT !.network = nw]
    BY <1>2 DEF RegisterObject, IsMulti
  <2>2. NetworkOK(nw)
    BY <1>1, CacheMultiKeeps
  <2> HIDE DEF nw
  <2>3. QED
    BY <2>1, <2>2, NetworkReplaced
<1>3. CASE ~IsMulti(kind, object) /\ kind \in {"src", "dst", "svc"}
  <2> DEFINE nw == CacheObject(b.network, kind, object.name, object.addresses)
  <2>1. RegisterObject(b, kind, object) = [b EXCEPT !.network = nw]
    BY <1>3 DEF RegisterObject
  <2>2. NetworkOK(nw)
    BY <1>1, <1>3, CacheObjectKeeps
  <2> HIDE DEF nw
  <2>3. QED
    BY <2>1, <2>2, NetworkReplaced
<1>4. CASE kind \in {"app", "app_svc"}
  <2>1. RegisterObject(b, kind, object) = RegisterWithId(b, kind, object.name, ResolveAppServices(object.name))
    BY <1>4 DEF RegisterObject, IsMulti
  <2>2. kind \in NumberedKind
    BY <1>1, <1>4
  <2>3. QED
    BY <2>1, <2>2, RegisterWithIdKeeps
<1>5. CASE kind \notin {"src", "dst", "svc", "app", "app_svc"}
  <2>1. RegisterObject(b, kind, object) = RegisterWithId(b, kind, object.name, {})
    BY <1>5 DEF RegisterObject, IsMulti
  <2>2. kind \in NumberedKind
    BY <1>1, <1>5
  <2>3. QED
    BY <2>1, <2>2, RegisterWithIdKeeps
<1>6. QED
  BY <1>2, <1>3, <1>4, <1>5

LEMMA AddMembersKeeps ==
    ASSUME NEW kind, NEW values, NEW first, NEW b, Sound(first, b)
    PROVE  Sound(first, AddMembers(b, kind, values))
<1> DEFINE groups == [b.groups EXCEPT ![kind] = @ \cup values]
<1>1. AddMembers(b, kind, values) = [b EXCEPT !.groups = groups]
  BY SoundParts DEF AddMembers
<1> HIDE DEF groups
<1>2. QED
  BY <1>1, GroupsReplaced

LEMMA AddCachedKeeps ==
    ASSUME NEW kind, NEW part, NEW name, NEW first, NEW b, Sound(first, b)
    PROVE  Sound(first, AddCached(b, kind, part, name))
BY AddMembersKeeps DEF AddCached

LEMMA AddObjectKeeps ==
    ASSUME NEW kind \in DictionaryKind, NEW object, NEW first, NEW b, Sound(first, b)
    PROVE  Sound(first, AddObject(b, kind, object))
BY RegisterObjectKeeps, AddCachedKeeps DEF AddObject

LEMMA AddUnresolvedKeeps ==
    ASSUME NEW kind, NEW names, NEW first, NEW b, Sound(first, b)
    PROVE  Sound(first, AddUnresolved(b, kind, names))
<1> DEFINE unresolved == b.unresolved \cup ({DictionaryOf(kind)} \X names)
<1>1. AddUnresolved(b, kind, names) = [b EXCEPT !.unresolved = unresolved]
  BY DEF AddUnresolved
<1> HIDE DEF unresolved
<1>2. Sound(first, [b EXCEPT !.unresolved = unresolved])
  BY UnresolvedReplaced
<1>3. QED
  BY <1>1, <1>2

LEMMA AddLiteralKeeps ==
    ASSUME NEW kind \in DictionaryKind, NEW name, IsLiteral(kind, name), NEW first, NEW b, Sound(first, b)
    PROVE  Sound(first, AddLiteral(b, kind, name))
<1>1. CASE kind = "url"
  <2>1. kind \in NumberedKind
    BY <1>1 DEF NumberedKind, CacheKind
  <2>2. Sound(first, RegisterWithId(b, kind, name, {}))
    BY <2>1, RegisterWithIdKeeps
  <2>3. AddLiteral(b, kind, name) = AddCached(RegisterWithId(b, kind, name, {}), kind, "objects", name)
    BY <1>1 DEF AddLiteral
  <2>4. QED
    BY <2>2, <2>3, AddCachedKeeps
<1>2. CASE kind # "url"
  <2> DEFINE nw == CacheObject(b.network, kind, name, {name})
  <2>1. AddLiteral(b, kind, name) = AddCached([b EXCEPT !.network = nw], kind, "objects", name)
    BY <1>2 DEF AddLiteral
  <2>2. kind \in CacheKind \ NumberedKind
    BY <1>2, DictionaryKinds DEF IsLiteral
  <2>3. NetworkOK(nw)
    BY <2>2, CacheObjectKeeps, SoundParts
  <2> HIDE DEF nw
  <2>4. Sound(first, [b EXCEPT !.network = nw])
    BY <2>3, NetworkReplaced
  <2>5. QED
    BY <2>1, <2>4, AddCachedKeeps
<1>3. QED
  BY <1>1, <1>2

LEMMA RegisterMemberKeeps ==
    ASSUME NEW kind \in DictionaryKind, NEW entry, NEW first, NEW b, Sound(first, b)
    PROVE  Sound(first, RegisterMember(b, kind, entry))
<1>1. CASE b.thrown \/ ~IsMember(entry)
  BY <1>1 DEF RegisterMember
<1>2. CASE ~(b.thrown \/ ~IsMember(entry)) /\ entry.type = "object"
  BY <1>2, RegisterObjectKeeps DEF RegisterMember
<1>3. CASE ~(b.thrown \/ ~IsMember(entry)) /\ entry.type # "object"
  <2> DEFINE nw == CacheGroup(b.network, kind, entry.name, PoolsOf(kind)[entry.name])
  <2>1. RegisterMember(b, kind, entry) = [b EXCEPT !.network = nw]
    BY <1>3 DEF RegisterMember
  <2>2. NetworkOK(nw)
    BY CacheGroupKeeps, SoundParts, DictionaryKinds
  <2> HIDE DEF nw
  <2>3. QED
    BY <2>1, <2>2, NetworkReplaced
<1>4. QED
  BY <1>1, <1>2, <1>3

LEMMA AddZoneKeeps ==
    ASSUME NEW kind \in {"src_zone", "dst_zone"}, NEW name, NEW first, NEW b, Sound(first, b)
    PROVE  Sound(first, AddZone(b, kind, name))
<1>1. kind \in NumberedKind
  BY DEF NumberedKind, CacheKind
<1>2. Sound(first, RegisterWithId(b, kind, name, {}))
  BY <1>1, RegisterWithIdKeeps
<1>3. QED
  BY <1>2, AddCachedKeeps DEF AddZone

(***************************************************************************)
(* A pool, a name, and the names of a row.                                 *)
(***************************************************************************)
LEMMA AskedForIsSequence ==
    ASSUME NEW entries \in Seq(EntryRecord)
    PROVE  AskedFor(entries) \in Seq(EntryRecord)
<1> DEFINE Loops == {i \in 1 .. Len(entries) : entries[i].type = "loop"}
           loop == IF Loops # {} THEN Min(Loops) ELSE 0
<1>1. AskedFor(entries) = IF loop = 0 THEN entries ELSE SubSeq(entries, 1, loop - 1)
  BY DEF AskedFor, SelectInSeq
<1>2. loop \in 0 .. Len(entries)
  <2>1. CASE Loops = {}
    BY <2>1
  <2>2. CASE Loops # {}
    <3>1. Loops \in SUBSET Nat
      OBVIOUS
    <3>2. Loops \subseteq 0 .. Len(entries)
      OBVIOUS
    <3> HIDE DEF Loops
    <3>3. PICK m \in Loops : \A k \in Loops : m <= k
      BY <2>2, <3>1, LeastNatural
    <3>4. Min(Loops) \in Loops
      BY <3>3 DEF Min
    <3>5. QED
      BY <2>2, <3>2, <3>4
  <2>3. QED
    BY <2>1, <2>2
<1> HIDE DEF loop
<1>3. \A i \in 1 .. (loop - 1) : entries[i] \in EntryRecord
  BY <1>2
<1>4. SubSeq(entries, 1, loop - 1) \in Seq(EntryRecord)
  BY <1>2, <1>3, SubSeqProperties
<1>5. QED
  BY <1>1, <1>4

LEMMA AskAllKeeps ==
    ASSUME StoreOK(store), NEW kind \in DictionaryKind, NEW answers,
           NEW entries \in Seq(EntryRecord), NEW first, NEW b, Sound(first, b)
    PROVE  Sound(first, AskAll(b, kind, entries, answers))
<1> DEFINE job == Job("get", kind, answers)
           n == Len(entries)
<1>1. n \in Nat /\ DOMAIN entries = 1 .. n
  OBVIOUS
<1> HIDE DEF n
<1>2. PICK f : Folds(f, n, job, b, entries) /\ AskAll(b, kind, entries, answers) = f[1 .. n]
  <2>1. Outcome(AskAll(b, kind, entries, answers), n, job, b, entries)
    BY <1>1, GetIsFold
  <2>2. QED
    BY <2>1 DEF Outcome
<1>3. ASSUME NEW acc, Sound(first, acc), NEW i \in 1 .. n
      PROVE  Sound(first, Step(job, acc, entries[i]))
  <2>1. Step(job, acc, entries[i]) = GetObject(acc, kind, entries[i].name, answers)
    BY DEF Step, Job
  <2>2. QED
    BY <1>3, <2>1, GetObjectKeeps
<1> HIDE DEF job
<1>4. QED
  BY <1>1, <1>2, <1>3, FoldKeeps

LEMMA RegisterAllKeeps ==
    ASSUME NEW kind \in DictionaryKind,
           NEW entries \in Seq(EntryRecord), NEW first, NEW b, Sound(first, b)
    PROVE  Sound(first, RegisterAll(b, kind, entries))
<1> DEFINE job == Job("register", kind, {})
           n == Len(entries)
<1>1. n \in Nat /\ DOMAIN entries = 1 .. n
  OBVIOUS
<1> HIDE DEF n
<1>2. PICK f : Folds(f, n, job, b, entries) /\ RegisterAll(b, kind, entries) = f[1 .. n]
  <2>1. Outcome(RegisterAll(b, kind, entries), n, job, b, entries)
    BY <1>1, RegisterIsFold
  <2>2. QED
    BY <2>1 DEF Outcome
<1>3. ASSUME NEW acc, Sound(first, acc), NEW i \in 1 .. n
      PROVE  Sound(first, Step(job, acc, entries[i]))
  <2>1. Step(job, acc, entries[i]) = RegisterMember(acc, kind, entries[i])
    BY DEF Step, Job
  <2>2. QED
    BY <1>3, <2>1, RegisterMemberKeeps
<1> HIDE DEF job
<1>4. QED
  BY <1>1, <1>2, <1>3, FoldKeeps

LEMMA AddPoolKeeps ==
    ASSUME StoreOK(store), NEW kind \in DictionaryKind, NEW name, NEW answers,
           NEW entries \in Seq(EntryRecord), NEW first, NEW b, Sound(first, b)
    PROVE  Sound(first, AddPool(b, kind, name, entries, answers))
<1> DEFINE asked == AskAll(b, kind, AskedFor(entries), answers)
           reported == AddUnresolved(asked, kind, NamesOf(entries, "unresolved"))
<1>1. Sound(first, asked)
  BY AskedForIsSequence, AskAllKeeps
<1>2. AddPool(b, kind, name, entries, answers) =
          IF HasLoop(entries) THEN [asked EXCEPT !.thrown = TRUE]
          ELSE AddCached(RegisterAll(reported, kind, entries), kind, "groups", name)
  BY DEF AddPool
<1> HIDE DEF asked
<1>3. Sound(first, [asked EXCEPT !.thrown = TRUE])
  BY <1>1, ThrownKeeps
<1>4. Sound(first, reported)
  BY <1>1, AddUnresolvedKeeps
<1> HIDE DEF reported
<1>5. Sound(first, AddCached(RegisterAll(reported, kind, entries), kind, "groups", name))
  BY <1>4, RegisterAllKeeps, AddCachedKeeps
<1>6. QED
  BY <1>2, <1>3, <1>5

LEMMA AddLookedUpKeeps ==
    ASSUME StoreOK(store), NEW kind \in DictionaryKind, NEW name, NEW answers,
           NEW first, NEW b, Sound(first, b)
    PROVE  Sound(first, AddLookedUp(b, kind, name, answers))
<1>1. CASE IsFound(b, kind, name)
  <2>1. AddLookedUp(b, kind, name, answers) = AddObject(b, kind, ObjectGiven(b, kind, name))
    BY <1>1 DEF AddLookedUp
  <2>2. QED
    BY <2>1, AddObjectKeeps
<1>2. CASE ~IsFound(b, kind, name) /\ name \in DOMAIN PoolsOf(kind)
  <2> DEFINE objects == FoundObjects(b, kind, answers)
             pools == PoolsOf(kind)
             entries == Traversal(objects, pools)[name]
  <2>1. AddLookedUp(b, kind, name, answers) = AddPool(b, kind, name, entries, answers)
    BY <1>2 DEF AddLookedUp
  <2>2. /\ IsFiniteSet(DOMAIN pools) /\ DOMAIN pools \subseteq STRING
        /\ \A pool \in DOMAIN pools : pools[pool] \in Seq(STRING)
    BY DictionaryKinds DEF StoreOK, PoolsOf
  <2> HIDE DEF objects
  <2>3. entries \in Seq(EntryRecord)
    <3>1. name \in DOMAIN pools
      BY <1>2
    <3> HIDE DEF pools
    <3>2. QED
      BY <2>2, <3>1, TraversalIsSequence
  <2> HIDE DEF entries
  <2>4. QED
    BY <2>1, <2>3, AddPoolKeeps
<1>3. CASE ~IsFound(b, kind, name) /\ name \notin DOMAIN PoolsOf(kind)
  <2>1. AddLookedUp(b, kind, name, answers) = AddUnresolved(b, kind, {name})
    BY <1>3 DEF AddLookedUp
  <2>2. QED
    BY <2>1, AddUnresolvedKeeps
<1>4. QED
  BY <1>1, <1>2, <1>3

LEMMA AddNameKeeps ==
    ASSUME StoreOK(store), NEW kind \in DictionaryKind, NEW name, NEW answers,
           NEW first, NEW b, Sound(first, b)
    PROVE  Sound(first, AddName(b, kind, name, answers))
<1>1. CASE b.thrown
  BY <1>1 DEF AddName
<1>2. CASE ~b.thrown /\ IsLiteral(kind, name)
  BY <1>2, AddLiteralKeeps DEF AddName
<1>3. CASE ~b.thrown /\ ~IsLiteral(kind, name)
  <2>1. Sound(first, GetObject(b, kind, name, answers))
    BY GetObjectKeeps
  <2>2. AddName(b, kind, name, answers) = AddLookedUp(GetObject(b, kind, name, answers), kind, name, answers)
    BY <1>3 DEF AddName
  <2>3. QED
    BY <2>1, <2>2, AddLookedUpKeeps
<1>4. QED
  BY <1>1, <1>2, <1>3

LEMMA BuildGroupKeeps ==
    ASSUME StoreOK(store), NEW kind \in DictionaryKind, NEW names \in Seq(STRING), NEW answers,
           NEW first, NEW b, Sound(first, b)
    PROVE  Sound(first, BuildGroup(b, kind, names, answers))
<1> DEFINE job == Job("add", kind, answers)
           n == Len(names)
<1>1. n \in Nat /\ DOMAIN names = 1 .. n
  OBVIOUS
<1> HIDE DEF n
<1>2. PICK f : Folds(f, n, job, b, names) /\ BuildGroup(b, kind, names, answers) = f[1 .. n]
  <2>1. Outcome(BuildGroup(b, kind, names, answers), n, job, b, names)
    BY <1>1, AddIsFold
  <2>2. QED
    BY <2>1 DEF Outcome
<1>3. ASSUME NEW acc, Sound(first, acc), NEW i \in 1 .. n
      PROVE  Sound(first, Step(job, acc, names[i]))
  <2>1. Step(job, acc, names[i]) = AddName(acc, kind, names[i], answers)
    BY DEF Step, Job
  <2>2. QED
    BY <1>3, <2>1, AddNameKeeps
<1> HIDE DEF job
<1>4. QED
  BY <1>1, <1>2, <1>3, FoldKeeps

LEMMA BuildZoneGroupKeeps ==
    ASSUME NEW kind \in {"src_zone", "dst_zone"}, NEW names \in Seq(STRING),
           NEW first, NEW b, Sound(first, b)
    PROVE  Sound(first, BuildZoneGroup(b, kind, names))
<1> DEFINE job == Job("zone", kind, {})
           n == Len(names)
<1>1. n \in Nat /\ DOMAIN names = 1 .. n
  OBVIOUS
<1> HIDE DEF n
<1>2. PICK f : Folds(f, n, job, b, names) /\ BuildZoneGroup(b, kind, names) = f[1 .. n]
  <2>1. Outcome(BuildZoneGroup(b, kind, names), n, job, b, names)
    BY <1>1, ZoneIsFold
  <2>2. QED
    BY <2>1 DEF Outcome
<1>3. ASSUME NEW acc, Sound(first, acc), NEW i \in 1 .. n
      PROVE  Sound(first, Step(job, acc, names[i]))
  <2>1. Step(job, acc, names[i]) = AddZone(acc, kind, names[i])
    BY DEF Step, Job
  <2>2. QED
    BY <1>3, <2>1, AddZoneKeeps
<1> HIDE DEF job
<1>4. QED
  BY <1>1, <1>2, <1>3, FoldKeeps

\* All the groups of a row.
LEMMA BuildGroupsKeep ==
    ASSUME StoreOK(store), ResolverOK(resolver), NetworkOK(network),
           NEW row, \A field \in RowField : row[field] \in Seq(STRING), NEW answers
    PROVE  Sound(resolver, BuildGroups(row, answers))
<1> DEFINE b1 == BuildSrcAddressGroup(NewBuild, row, answers)
           b2 == BuildDstAddressGroup(b1, row, answers)
           b3 == BuildApplicationGroup(b2, row, answers)
           b4 == BuildServiceGroup(b3, row, answers)
           b5 == BuildSrcZoneGroup(b4, row)
           b6 == BuildDstZoneGroup(b5, row)
           b7 == BuildUserGroup(b6, row, answers)
           b8 == BuildUrlGroup(b7, row, answers)
<1>1. {"src", "dst", "svc", "app", "app_svc", "user", "url"} \subseteq DictionaryKind
  BY DEF DictionaryKind, CacheKind
<1>2. /\ row.src \in Seq(STRING) /\ row.dst \in Seq(STRING) /\ row.svc \in Seq(STRING)
      /\ row.app \in Seq(STRING) /\ row.user \in Seq(STRING) /\ row.url \in Seq(STRING)
      /\ row.src_zone \in Seq(STRING) /\ row.dst_zone \in Seq(STRING)
  BY DEF RowField
<1>3. Sound(resolver, NewBuild)
  BY DEF NewBuild, Sound, KnownTo
<1>4. BuildGroups(row, answers) = b8
  BY DEF BuildGroups
<1>5. Sound(resolver, b1)
  BY <1>1, <1>2, <1>3, BuildGroupKeeps DEF BuildSrcAddressGroup
<1> HIDE DEF b1
<1>6. Sound(resolver, b2)
  BY <1>1, <1>2, <1>5, BuildGroupKeeps DEF BuildDstAddressGroup
<1> HIDE DEF b2
<1>7. Sound(resolver, b3)
  BY <1>1, <1>2, <1>6, BuildGroupKeeps DEF BuildApplicationGroup, AppKind
<1> HIDE DEF b3
<1>8. Sound(resolver, b4)
  <2>1. CASE DefaultAppServices(row)
    BY <1>7, <2>1, AddMembersKeeps DEF BuildServiceGroup
  <2>2. CASE ~DefaultAppServices(row)
    BY <1>1, <1>2, <1>7, <2>2, BuildGroupKeeps DEF BuildServiceGroup
  <2>3. QED
    BY <2>1, <2>2
<1> HIDE DEF b4
<1>9. Sound(resolver, b5)
  BY <1>2, <1>8, BuildZoneGroupKeeps DEF BuildSrcZoneGroup
<1> HIDE DEF b5
<1>10. Sound(resolver, b6)
  BY <1>2, <1>9, BuildZoneGroupKeeps DEF BuildDstZoneGroup
<1> HIDE DEF b6
<1>11. Sound(resolver, b7)
  BY <1>1, <1>2, <1>10, BuildGroupKeeps DEF BuildUserGroup
<1> HIDE DEF b7
<1>12. Sound(resolver, b8)
  BY <1>1, <1>2, <1>11, BuildGroupKeeps DEF BuildUrlGroup
<1>13. QED
  BY <1>4, <1>12

(***************************************************************************)
(* The inductive invariant.                                                *)
(***************************************************************************)
\* While rows are read every rule is that of a row; the rule of no row is
\* added at the end.
RulesOK ==
    /\ \E S : rules \in Seq(S)
    /\ \A i \in DOMAIN rules : rules[i].id \in Nat /\ rules[i].enabled \in BOOLEAN
    /\ phase = "loading" => \A i \in DOMAIN rules : rules[i].id # 0

PlaceOK ==
    /\ phase \in {"idle", "loading", "loaded", "stopped"}
    /\ file \in Policies \cup {<<>>}
    /\ position \in 0 .. Len(file)

StatusOK ==
    /\ status = [loaded |-> status.loaded, errors |-> status.errors,
                 disabled |-> status.disabled, unresolved |-> status.unresolved]
    /\ status.loaded \in Nat /\ status.errors \in Nat
    /\ status.disabled \in 0 .. (SizeMax - 1)

LoaderInv ==
    /\ implicit \in BOOLEAN
    /\ StoreOK(store) /\ ResolverOK(resolver) /\ NetworkOK(network)
    /\ RulesOK /\ PlaceOK /\ StatusOK
    /\ StatusCounts

LEMMA AppendIs ==
    ASSUME NEW S, NEW list \in Seq(S), NEW rule
    PROVE  LET longer == Append(list, rule)
               end == Len(list) + 1 IN
           /\ longer \in Seq(S \cup {rule})
           /\ DOMAIN longer = DOMAIN list \cup {end} /\ end \notin DOMAIN list
           /\ DOMAIN list = 1 .. Len(list) /\ Len(list) \in Nat
           /\ longer[end] = rule /\ \A i \in DOMAIN list : longer[i] = list[i]
OBVIOUS

\* The rules of rows, one rule more.
LEMMA RowsCounted ==
    ASSUME NEW S, NEW list \in Seq(S), NEW rule
    PROVE  LET longer == Append(list, rule)
               rows == {i \in DOMAIN list : list[i].id # 0} IN
           /\ Cardinality(rows) \in Nat
           /\ Cardinality({i \in DOMAIN longer : longer[i].id # 0})
                 = IF rule.id # 0 THEN Cardinality(rows) + 1 ELSE Cardinality(rows)
<1> DEFINE longer == Append(list, rule)
           end == Len(list) + 1
           rows == {i \in DOMAIN list : list[i].id # 0}
           more == {i \in DOMAIN longer : longer[i].id # 0}
<1>1. /\ DOMAIN longer = DOMAIN list \cup {end} /\ end \notin DOMAIN list
      /\ DOMAIN list = 1 .. Len(list) /\ Len(list) \in Nat
      /\ longer[end] = rule /\ \A i \in DOMAIN list : longer[i] = list[i]
  BY AppendIs
<1> HIDE DEF longer
<1>2. rows \in SUBSET (1 .. Len(list)) /\ end \notin rows
  BY <1>1
<1>3. more = IF rule.id # 0 THEN rows \cup {end} ELSE rows
  BY <1>1
<1> HIDE DEF rows, more, end
<1>4. IsFiniteSet(rows) /\ Cardinality(rows) \in Nat
  <2>1. IsFiniteSet(1 .. Len(list))
    BY <1>1, FS_Interval
  <2>2. IsFiniteSet(rows)
    BY <1>2, <2>1, FS_Subset
  <2>3. QED
    BY <2>2, FS_CardinalityType
<1>5. Cardinality(more) = IF rule.id # 0 THEN Cardinality(rows) + 1 ELSE Cardinality(rows)
  BY <1>2, <1>3, <1>4, FS_AddElement
<1>6. QED
  BY <1>4, <1>5 DEF rows, more, longer

\* Rules are enabled or not.
LEMMA EnabledCounted ==
    ASSUME NEW S, NEW list \in Seq(S)
    PROVE  LET others == {i \in DOMAIN list : ~list[i].enabled} IN
           /\ Cardinality(Enabled(list)) \in Nat /\ Cardinality(others) \in Nat
           /\ Cardinality(Enabled(list)) + Cardinality(others) = Len(list)
<1> DEFINE others == {i \in DOMAIN list : ~list[i].enabled}
           enabled == Enabled(list)
<1>1. DOMAIN list = 1 .. Len(list) /\ Len(list) \in Nat
  OBVIOUS
<1>2. /\ enabled \in SUBSET (1 .. Len(list)) /\ others \in SUBSET (1 .. Len(list))
      /\ enabled \cup others = 1 .. Len(list) /\ enabled \cap others = {}
  BY <1>1 DEF Enabled
<1> HIDE DEF enabled, others
<1>3. IsFiniteSet(1 .. Len(list)) /\ Cardinality(1 .. Len(list)) = Len(list)
  BY <1>1, FS_Interval
<1>4. IsFiniteSet(enabled) /\ IsFiniteSet(others)
  BY <1>2, <1>3, FS_Subset
<1>5. Cardinality(enabled) \in Nat /\ Cardinality(others) \in Nat
  BY <1>4, FS_CardinalityType
<1>6. Cardinality(enabled \cup others) = Cardinality(enabled) + Cardinality(others) - Cardinality({})
  BY <1>2, <1>4, FS_Union
<1>7. Cardinality(enabled) + Cardinality(others) = Len(list)
  <2>1. Cardinality(enabled \cup others) = Len(list)
    BY <1>2, <1>3
  <2>2. Cardinality({}) = 0
    BY FS_EmptySet
  <2>3. QED
    BY <1>5, <1>6, <2>1, <2>2
<1>8. QED
  BY <1>5, <1>7 DEF enabled, others

LEMMA ClearedIsOK == StoreOK(ClearedStore)
<1> DEFINE st == ClearedStore
<1>1. \A kind \in ObjectKind : st[kind] = [objects |-> Dictionary(Predefined(kind), <<>>), pools |-> EmptyFunction]
  BY DEF ClearedStore
<1>2. \A kind \in ObjectKind :
          /\ st[kind].objects = [name \in Predefined(kind) |-> Object(<<name>>)]
          /\ st[kind].pools = EmptyFunction
  <2>1. ASSUME NEW kind \in ObjectKind
        PROVE  Dictionary(Predefined(kind), <<>>) = [name \in Predefined(kind) |-> Object(<<name>>)]
    <3> DEFINE names == Predefined(kind)
    <3> HIDE DEF names
    <3>1. Dictionary(names, <<>>) = [name \in names |-> Object(<<name>>)]
      BY Zenon DEF Dictionary
    <3>2. QED
      BY <3>1 DEF names
  <2>2. \A kind \in ObjectKind :
            st[kind].objects = Dictionary(Predefined(kind), <<>>) /\ st[kind].pools = EmptyFunction
    <3> SUFFICES ASSUME NEW kind \in ObjectKind
                 PROVE  st[kind].objects = Dictionary(Predefined(kind), <<>>) /\ st[kind].pools = EmptyFunction
      OBVIOUS
    <3> DEFINE objects == Dictionary(Predefined(kind), <<>>)
    <3>1. st[kind] = [objects |-> objects, pools |-> EmptyFunction]
      BY <1>1
    <3> HIDE DEF objects
    <3>2. st[kind].objects = objects /\ st[kind].pools = EmptyFunction
      BY <3>1
    <3>3. QED
      BY <3>2 DEF objects
  <2> HIDE DEF st
  <2>3. QED
    BY <2>1, <2>2, Zenon
<1>3. st = [kind \in ObjectKind |-> [objects |-> st[kind].objects, pools |-> st[kind].pools]]
  BY DEF ClearedStore
<1>4. \A kind \in ObjectKind : "any" \in Predefined(kind)
  BY DEF Predefined
<1>5. DOMAIN EmptyFunction = {} /\ IsFiniteSet({})
  BY FS_EmptySet DEF EmptyFunction
<1>6. \A name : Object(<<name>>).fqdn = FALSE
  BY DEF Object
<1> HIDE DEF st
<1>7. ASSUME NEW kind \in ObjectKind
      PROVE  /\ "any" \in DOMAIN st[kind].objects
             /\ \A name \in DOMAIN st[kind].objects : st[kind].objects[name].fqdn = FALSE
             /\ IsFiniteSet(DOMAIN st[kind].pools) /\ DOMAIN st[kind].pools \subseteq STRING
             /\ \A pool \in DOMAIN st[kind].pools : st[kind].pools[pool] \in Seq(STRING)
  <2>1. DOMAIN st[kind].objects = Predefined(kind) /\ DOMAIN st[kind].pools = {}
    BY <1>2, <1>5
  <2>2. ASSUME NEW name \in DOMAIN st[kind].objects
        PROVE  st[kind].objects[name].fqdn = FALSE
    <3>1. st[kind].objects[name] = Object(<<name>>)
      BY <1>2, <2>1
    <3>2. QED
      BY <1>6, <3>1
  <2>3. QED
    BY <1>4, <1>5, <2>1, <2>2
<1>8. QED
  BY <1>3, <1>7 DEF StoreOK, st

LEMMA NewIsOK == NetworkOK(NewNetwork)
<1> DEFINE nw == NewNetwork
<1>1. nw = [cache |-> nw.cache, gen |-> nw.gen]
  BY DEF NewNetwork
<1>2. /\ nw.cache = [kind \in CacheKind |-> NewCache(kind)]
      /\ nw.gen = [gen \in Generator |-> NewGenerator]
  BY DEF NewNetwork
<1> HIDE DEF nw
<1>3. nw.cache = [kind \in CacheKind |-> [objects |-> nw.cache[kind].objects, groups |-> nw.cache[kind].groups]]
  BY <1>2 DEF NewCache
<1>4. nw.gen = [gen \in Generator |-> nw.gen[gen]]
  BY <1>2
<1>5. GeneratorOK(NewGenerator)
  BY DEF NewGenerator, GeneratorOK, EmptyFunction
<1>6. \A kind \in CacheKind : DOMAIN nw.cache[kind].objects = {"any"}
  BY <1>2 DEF NewCache, Put, EmptyFunction
<1>7. \A kind \in NumberedKind : NumbersOK(nw, kind)
  BY <1>6 DEF NumbersOK, NumberedKind
<1>8. \A gen \in Generator : GeneratorOK(nw.gen[gen])
  BY <1>2, <1>5
<1>9. QED
  BY <1>1, <1>3, <1>4, <1>7, <1>8 DEF NetworkOK, nw

\* A resolver started with a cache file.
LEMMA StartedIsOK ==
    ASSUME NEW known
    PROVE  ResolverOK(StartedResolver(known)) /\ StartedResolver(known).memory = known
BY DEF StartedResolver, ResolverOK, EmptyFunction

LEMMA InitIsOK ==
    ASSUME Init
    PROVE  LoaderInv
<1>1. StoreOK(store) /\ ResolverOK(resolver) /\ NetworkOK(network)
  BY ClearedIsOK, StartedIsOK, NewIsOK DEF Init
<1>2. implicit \in BOOLEAN /\ rules = <<>> /\ file = <<>> /\ position = 0 /\ phase = "idle" /\ status = NoStatus
  BY DEF Init
<1>3. RulesOK
  BY <1>2 DEF RulesOK
<1>4. PlaceOK
  BY <1>2 DEF PlaceOK
<1>5. StatusOK
  BY <1>2, SizeMaxAssumption DEF StatusOK, NoStatus
<1>6. {i \in DOMAIN rules : rules[i].id # 0} = {}
  BY <1>2
<1>7. StatusCounts
  BY <1>2, <1>6, FS_EmptySet DEF StatusCounts, NoStatus
<1>8. QED
  BY <1>1, <1>2, <1>3, <1>4, <1>5, <1>7 DEF LoaderInv

LEMMA LoadKindIsOK ==
    ASSUME StoreOK(store), NEW files \in StoreFiles, NEW kind \in DOMAIN files
    PROVE  LET st == LoadKind(kind, files[kind]) IN
           /\ st = [objects |-> st.objects, pools |-> st.pools]
           /\ "any" \in DOMAIN st.objects
           /\ \A name \in DOMAIN st.objects :
                 /\ st.objects[name].fqdn \in BOOLEAN
                 /\ st.objects[name].fqdn => name \in STRING
           /\ IsFiniteSet(DOMAIN st.pools) /\ DOMAIN st.pools \subseteq STRING
           /\ \A pool \in DOMAIN st.pools : st.pools[pool] \in Seq(STRING)
<1> DEFINE read == files[kind]
           old == store[kind]
           accepted == Accepted(kind, read.objects)
           objects == PutAll(old.objects, accepted)
           pools == PutAll(old.pools, read.pools)
           st == LoadKind(kind, read)
<1>1. /\ kind \in ObjectKind
      /\ DOMAIN read.objects \subseteq STRING
      /\ \A name \in DOMAIN read.objects : read.objects[name].fqdn \in BOOLEAN
      /\ DOMAIN read.pools \subseteq STRING /\ IsFiniteSet(DOMAIN read.pools)
      /\ \A pool \in DOMAIN read.pools : read.pools[pool] \in Seq(STRING)
  BY FilesAssumption
<1>2. /\ old = [objects |-> old.objects, pools |-> old.pools]
      /\ DOMAIN store = ObjectKind
      /\ "any" \in DOMAIN old.objects
      /\ \A name \in DOMAIN old.objects :
            old.objects[name].fqdn \in BOOLEAN /\ (old.objects[name].fqdn => name \in STRING)
      /\ IsFiniteSet(DOMAIN old.pools) /\ DOMAIN old.pools \subseteq STRING
      /\ \A pool \in DOMAIN old.pools : old.pools[pool] \in Seq(STRING)
  BY <1>1 DEF StoreOK
<1> HIDE DEF read
<1>3. st = [objects |-> objects, pools |-> pools]
  <2> DEFINE mid == LoadObjects(store, kind, read.objects)
  <2>1. mid = [store EXCEPT ![kind].objects = objects]
    BY DEF LoadObjects
  <2>2. DOMAIN mid = ObjectKind /\ mid[kind] = [old EXCEPT !.objects = objects]
    BY <1>1, <1>2, <2>1
  <2>3. mid[kind] = [objects |-> objects, pools |-> old.pools]
    BY <1>2, <2>2
  <2>4. st = [mid EXCEPT ![kind].pools = PutAll(@, read.pools)][kind]
    BY DEF LoadKind, LoadPools
  <2> HIDE DEF mid, objects, st
  <2>5. st = [mid[kind] EXCEPT !.pools = PutAll(mid[kind].pools, read.pools)]
    BY <1>1, <2>2, <2>4
  <2>6. mid[kind].pools = old.pools
    BY <2>3
  <2>7. st = [mid[kind] EXCEPT !.pools = pools]
    BY <2>5, <2>6
  <2>8. QED
    BY <2>3, <2>7
<1>4. DOMAIN accepted \subseteq DOMAIN read.objects /\ \A name \in DOMAIN accepted : accepted[name] = read.objects[name]
  BY DEF Accepted, Restrict
<1> HIDE DEF accepted, old
<1>5. /\ DOMAIN objects = DOMAIN accepted \cup DOMAIN old.objects
      /\ \A name \in DOMAIN objects : objects[name] = IF name \in DOMAIN accepted THEN accepted[name]
                                                      ELSE old.objects[name]
  BY DEF PutAll
<1>6. /\ DOMAIN pools = DOMAIN read.pools \cup DOMAIN old.pools
      /\ \A pool \in DOMAIN pools : pools[pool] = IF pool \in DOMAIN read.pools THEN read.pools[pool]
                                                  ELSE old.pools[pool]
  BY DEF PutAll
<1> HIDE DEF objects, pools, st
<1>7. IsFiniteSet(DOMAIN pools)
  <2>1. IsFiniteSet(DOMAIN read.pools) /\ IsFiniteSet(DOMAIN old.pools)
    BY <1>1, <1>2
  <2>2. IsFiniteSet(DOMAIN read.pools \cup DOMAIN old.pools)
    BY <2>1, FS_Union
  <2>3. QED
    BY <1>6, <2>2
<1>8. st.objects = objects /\ st.pools = pools
  BY <1>3
<1>9. "any" \in DOMAIN objects
  BY <1>2, <1>5
<1>10. \A name \in DOMAIN objects : objects[name].fqdn \in BOOLEAN /\ (objects[name].fqdn => name \in STRING)
  BY <1>1, <1>2, <1>4, <1>5
<1>11. \A pool \in DOMAIN pools : pool \in STRING /\ pools[pool] \in Seq(STRING)
  BY <1>1, <1>2, <1>6
<1>12. QED
  BY <1>3, <1>7, <1>8, <1>9, <1>10, <1>11 DEF st, read

LEMMA LoadStoreIsOK ==
    ASSUME StoreOK(store), NEW files \in StoreFiles
    PROVE  StoreOK([kind \in ObjectKind |->
                      IF kind \in DOMAIN files THEN LoadKind(kind, files[kind]) ELSE store[kind]])
<1> DEFINE st == [kind \in ObjectKind |->
                    IF kind \in DOMAIN files THEN LoadKind(kind, files[kind]) ELSE store[kind]]
<1>1. ASSUME NEW kind \in ObjectKind
      PROVE  /\ st[kind] = [objects |-> st[kind].objects, pools |-> st[kind].pools]
             /\ "any" \in DOMAIN st[kind].objects
             /\ \A name \in DOMAIN st[kind].objects :
                   /\ st[kind].objects[name].fqdn \in BOOLEAN
                   /\ st[kind].objects[name].fqdn => name \in STRING
             /\ IsFiniteSet(DOMAIN st[kind].pools) /\ DOMAIN st[kind].pools \subseteq STRING
             /\ \A pool \in DOMAIN st[kind].pools : st[kind].pools[pool] \in Seq(STRING)
  <2>1. CASE kind \in DOMAIN files
    <3>1. st[kind] = LoadKind(kind, files[kind])
      BY <2>1
    <3> HIDE DEF st
    <3>2. QED
      BY <2>1, <3>1, LoadKindIsOK
  <2>2. CASE kind \notin DOMAIN files
    <3>1. st[kind] = store[kind]
      BY <2>2
    <3> HIDE DEF st
    <3>2. QED
      BY <3>1 DEF StoreOK
  <2>3. QED
    BY <2>1, <2>2
<1>2. st = [kind \in ObjectKind |-> st[kind]]
  OBVIOUS
<1> HIDE DEF st
<1>3. st = [kind \in ObjectKind |-> [objects |-> st[kind].objects, pools |-> st[kind].pools]]
  BY <1>1, <1>2
<1>4. StoreOK(st)
  BY <1>1, <1>3 DEF StoreOK
<1>5. QED
  BY <1>4 DEF st

(***************************************************************************)
(* Every step keeps the invariant, one lemma for each action.              *)
(***************************************************************************)
\* A step that changes the store, and nothing the other parts are about.
LEMMA ChangeStoreKeeps ==
    ASSUME LoaderInv, NEW st, StoreOK(st), ChangeStore(st)
    PROVE  LoaderInv'
BY DEF LoaderInv, ChangeStore, RulesOK, PlaceOK, StatusOK, StatusCounts

LEMMA StartLoadKeeps ==
    ASSUME LoaderInv, StartLoad
    PROVE  LoaderInv'
<1>1. /\ file' \in Policies /\ rules' = <<>> /\ position' = 0 /\ phase' = "loading" /\ status' = NoStatus
      /\ UNCHANGED <<implicit, store, resolver, network>>
  BY DEF StartLoad
<1>2. implicit' \in BOOLEAN /\ StoreOK(store') /\ ResolverOK(resolver') /\ NetworkOK(network')
  BY <1>1 DEF LoaderInv
<1>3. RulesOK'
  BY <1>1 DEF RulesOK
<1>4. Len(file') \in Nat
  BY <1>1, FilesAssumption
<1>5. PlaceOK'
  BY <1>1, <1>4 DEF PlaceOK
<1>6. StatusOK'
  BY <1>1, SizeMaxAssumption DEF StatusOK, NoStatus
<1>7. {i \in DOMAIN rules' : rules'[i].id # 0} = {}
  BY <1>1
<1>8. StatusCounts'
  BY <1>1, <1>7, FS_EmptySet DEF StatusCounts, NoStatus
<1>9. QED
  BY <1>2, <1>3, <1>5, <1>6, <1>8 DEF LoaderInv

\* The row that is read.
LEMMA RowIsTyped ==
    ASSUME PlaceOK, AnotherRow
    PROVE  /\ position + 1 \in 0 .. Len(file)
           /\ Row.id \in Nat \ {0} /\ \A field \in RowField : Row[field] \in Seq(STRING)
<1>1. position \in Nat /\ position < Len(file) /\ file[position + 1].readable
  BY DEF PlaceOK, AnotherRow
<1>2. file # <<>>
  BY <1>1
<1>3. file \in Policies
  BY <1>2 DEF PlaceOK
<1>4. file \in Seq(Range(file))
  BY <1>3, FilesAssumption
<1>5. Len(file) \in Nat /\ position + 1 \in DOMAIN file
  BY <1>1, <1>4
<1>6. QED
  BY <1>1, <1>3, <1>5, FilesAssumption DEF Row

LEMMA RefuseRowKeeps ==
    ASSUME LoaderInv, RefuseRow
    PROVE  LoaderInv'
<1>1. /\ phase = "loading" /\ AnotherRow /\ position' = position + 1
      /\ status' = [status EXCEPT !.errors = @ + 1]
      /\ UNCHANGED <<implicit, store, resolver, network, rules, file, phase>>
  BY DEF RefuseRow, InLoop, Rest
<1>2. implicit' \in BOOLEAN /\ StoreOK(store') /\ ResolverOK(resolver') /\ NetworkOK(network')
  BY <1>1 DEF LoaderInv
<1>3. RulesOK'
  BY <1>1 DEF LoaderInv, RulesOK
<1>4. PlaceOK'
  BY <1>1, RowIsTyped DEF LoaderInv, PlaceOK
<1>5. status' = [loaded |-> status.loaded, errors |-> status.errors + 1,
                 disabled |-> status.disabled, unresolved |-> status.unresolved]
  BY <1>1 DEF LoaderInv, StatusOK
<1>6. StatusOK'
  BY <1>5 DEF LoaderInv, StatusOK
<1>7. StatusCounts'
  <2>1. status.loaded + (status.errors + 1) = position + 1
    BY DEF LoaderInv, StatusOK, StatusCounts
  <2>2. status'.loaded = status.loaded /\ status'.errors = status.errors + 1
    BY <1>5
  <2>3. QED
    BY <1>1, <2>1, <2>2 DEF LoaderInv, StatusCounts
<1>8. QED
  BY <1>2, <1>3, <1>4, <1>6, <1>7 DEF LoaderInv

LEMMA InterruptKeeps ==
    ASSUME LoaderInv, Interrupt
    PROVE  LoaderInv'
BY DEF LoaderInv, Interrupt, InLoop, Rest, RulesOK, PlaceOK, StatusOK, StatusCounts

LEMMA RestartKeeps ==
    ASSUME LoaderInv, Restart
    PROVE  LoaderInv'
<1>1. /\ store' = ClearedStore /\ resolver' = StartedResolver(resolver.file) /\ network' = NewNetwork
      /\ rules' = <<>> /\ file' = <<>> /\ position' = 0 /\ phase' = "idle" /\ status' = NoStatus
      /\ implicit' = implicit
  BY DEF Restart
<1>2. implicit' \in BOOLEAN /\ StoreOK(store') /\ ResolverOK(resolver') /\ NetworkOK(network')
  BY <1>1, ClearedIsOK, StartedIsOK, NewIsOK DEF LoaderInv
<1>3. RulesOK'
  BY <1>1 DEF RulesOK
<1>4. PlaceOK'
  BY <1>1 DEF PlaceOK
<1>5. StatusOK'
  BY <1>1, SizeMaxAssumption DEF StatusOK, NoStatus
<1>6. {i \in DOMAIN rules' : rules'[i].id # 0} = {}
  BY <1>1
<1>7. StatusCounts'
  BY <1>1, <1>6, FS_EmptySet DEF StatusCounts, NoStatus
<1>8. QED
  BY <1>2, <1>3, <1>4, <1>5, <1>7 DEF LoaderInv

\* What a row adds is a rule, or an error.
LEMMA AddRuleKeeps ==
    ASSUME RulesOK, PlaceOK, StatusOK, StatusCounts, phase = "loading", AnotherRow,
           NEW rule, rule.id \in Nat \ {0}, rule.enabled \in BOOLEAN, NEW unresolved,
           AddRule(rule, unresolved), UNCHANGED <<file, implicit>>
    PROVE  RulesOK' /\ PlaceOK' /\ StatusOK' /\ StatusCounts'
<1>1. PICK S : rules \in Seq(S)
  BY DEF RulesOK
<1>2. /\ rules' = IF IsValid(rule) THEN Append(rules, rule) ELSE rules
      /\ position' = position + 1 /\ phase' = "loading" /\ file' = file
  BY DEF AddRule
<1>3. /\ status' = [status EXCEPT !.loaded = IF IsValid(rule) THEN @ + 1 ELSE @,
                                  !.errors = IF IsValid(rule) THEN @ ELSE @ + 1,
                                  !.unresolved = @ \cup unresolved]
  BY DEF AddRule
<1>4. /\ status.loaded \in Nat /\ status.errors \in Nat /\ status.disabled \in 0 .. (SizeMax - 1)
      /\ status.loaded + status.errors = position
      /\ status.loaded = Cardinality({i \in DOMAIN rules : rules[i].id # 0})
  BY DEF StatusOK, StatusCounts
<1>5. DOMAIN status = {"loaded", "errors", "disabled", "unresolved"}
  BY DEF StatusOK
<1>6. /\ status'.loaded = IF IsValid(rule) THEN status.loaded + 1 ELSE status.loaded
      /\ status'.errors = IF IsValid(rule) THEN status.errors ELSE status.errors + 1
      /\ status'.disabled = status.disabled
      /\ DOMAIN status' = DOMAIN status
  BY <1>3, <1>5
<1>7. status' = [loaded |-> status'.loaded, errors |-> status'.errors,
                 disabled |-> status'.disabled, unresolved |-> status'.unresolved]
  BY <1>3, <1>5, <1>6
<1>8. StatusOK'
  BY <1>4, <1>6, <1>7 DEF StatusOK
<1>9. PlaceOK'
  BY <1>2, RowIsTyped DEF PlaceOK
<1>10. RulesOK' /\ status'.loaded = Cardinality({i \in DOMAIN rules' : rules'[i].id # 0})
  <2>1. CASE IsValid(rule)
    <3>1. rules' = Append(rules, rule)
      BY <1>2, <2>1
    <3>2. /\ rules' \in Seq(S \cup {rule})
          /\ \A i \in DOMAIN rules' : rules'[i] = rule \/ (i \in DOMAIN rules /\ rules'[i] = rules[i])
      BY <1>1, <3>1, AppendIs
    <3>3. RulesOK'
      BY <1>2, <3>2 DEF RulesOK
    <3>4. Cardinality({i \in DOMAIN rules' : rules'[i].id # 0}) = status.loaded + 1
      BY <1>1, <1>4, <3>1, RowsCounted
    <3>5. QED
      BY <1>6, <2>1, <3>3, <3>4
  <2>2. CASE ~IsValid(rule)
    BY <1>2, <1>4, <1>6, <2>2 DEF RulesOK
  <2>3. QED
    BY <2>1, <2>2
<1>11. status'.loaded + status'.errors = position'
  BY <1>2, <1>4, <1>6
<1>12. StatusCounts'
  BY <1>2, <1>10, <1>11 DEF StatusCounts
<1>13. QED
  BY <1>8, <1>9, <1>10, <1>12

LEMMA AddRowKeeps ==
    ASSUME LoaderInv, AddRow
    PROVE  LoaderInv' /\ KnownTo(resolver, resolver')
<1>1. phase = "loading" /\ AnotherRow /\ UNCHANGED <<implicit, store, file>>
  BY DEF AddRow, InLoop, Rest
<1>2. PICK answers : /\ network' = BuildGroups(Row, answers).network
                     /\ resolver' = BuildGroups(Row, answers).resolver
                     /\ IF BuildGroups(Row, answers).thrown
                        THEN phase' = "stopped" /\ UNCHANGED <<rules, position, status>>
                        ELSE AddRule(RuleOf(Row, BuildGroups(Row, answers).groups),
                                     BuildGroups(Row, answers).unresolved)
  BY DEF AddRow
<1> DEFINE built == BuildGroups(Row, answers)
           rule == RuleOf(Row, built.groups)
<1>3. Row.id \in Nat \ {0} /\ \A field \in RowField : Row[field] \in Seq(STRING)
  BY <1>1, RowIsTyped DEF LoaderInv
<1>4. Sound(resolver, built)
  BY <1>3, BuildGroupsKeep DEF LoaderInv
<1> HIDE DEF built
<1>5. ResolverOK(resolver') /\ KnownTo(resolver, resolver') /\ NetworkOK(network')
  BY <1>2, <1>4 DEF Sound, built
<1>6. implicit' \in BOOLEAN /\ StoreOK(store')
  BY <1>1 DEF LoaderInv
<1>7. RulesOK' /\ PlaceOK' /\ StatusOK' /\ StatusCounts'
  <2>1. CASE built.thrown
    <3>1. phase' = "stopped" /\ UNCHANGED <<rules, position, status>>
      BY <1>2, <2>1 DEF built
    <3>2. QED
      BY <1>1, <3>1 DEF LoaderInv, RulesOK, PlaceOK, StatusOK, StatusCounts
  <2>2. CASE ~built.thrown
    <3>1. AddRule(rule, built.unresolved)
      BY <1>2, <2>2 DEF built
    <3>2. rule.id \in Nat \ {0} /\ rule.enabled \in BOOLEAN
      BY <1>3 DEF RuleOf
    <3> HIDE DEF rule
    <3>3. QED
      BY <1>1, <3>1, <3>2, AddRuleKeeps DEF LoaderInv
  <2>3. QED
    BY <2>1, <2>2
<1>8. QED
  BY <1>5, <1>6, <1>7 DEF LoaderInv

LEMMA EndLoadKeeps ==
    ASSUME LoaderInv, EndLoad
    PROVE  LoaderInv'
<1>1. /\ phase = "loading" /\ phase' = "loaded"
      /\ rules' = IF implicit THEN Append(rules, DenyAllRule) ELSE rules
      /\ status' = [status EXCEPT !.disabled = (status.loaded - Cardinality(Enabled(rules'))) % SizeMax]
      /\ UNCHANGED <<implicit, store, resolver, network, file, position>>
  BY DEF EndLoad, InLoop, Rest
<1>2. implicit' \in BOOLEAN /\ StoreOK(store') /\ ResolverOK(resolver') /\ NetworkOK(network')
  BY <1>1 DEF LoaderInv
<1>3. PICK S : rules \in Seq(S)
  BY DEF LoaderInv, RulesOK
<1>4. DenyAllRule.id = 0 /\ DenyAllRule.enabled \in BOOLEAN
  BY DEF DenyAllRule
<1>5. /\ status.loaded \in Nat /\ status.errors \in Nat
      /\ status.loaded + status.errors = position
      /\ status.loaded = Cardinality({i \in DOMAIN rules : rules[i].id # 0})
      /\ \A i \in DOMAIN rules : rules[i].id # 0
  BY <1>1 DEF LoaderInv, StatusOK, StatusCounts, RulesOK
<1>6. status.loaded = Len(rules)
  <2>1. {i \in DOMAIN rules : rules[i].id # 0} = 1 .. Len(rules)
    <3>1. DOMAIN rules = 1 .. Len(rules)
      BY <1>3
    <3>2. QED
      BY <1>5, <3>1
  <2>2. Len(rules) \in Nat
    BY <1>3
  <2>3. Cardinality(1 .. Len(rules)) = Len(rules)
    <3> DEFINE n == Len(rules)
    <3>1. n \in Nat
      BY <2>2
    <3> HIDE DEF n
    <3>2. Cardinality(1 .. n) = n
      BY <3>1, FS_Interval
    <3>3. QED
      BY <3>2 DEF n
  <2>4. QED
    BY <1>5, <2>1, <2>3
<1>7. /\ rules' \in Seq(S \cup {DenyAllRule})
      /\ Len(rules') = status.loaded + (IF implicit THEN 1 ELSE 0)
      /\ \A i \in DOMAIN rules' : rules'[i] = DenyAllRule \/ (i \in DOMAIN rules /\ rules'[i] = rules[i])
      /\ Cardinality({i \in DOMAIN rules' : rules'[i].id # 0}) = status.loaded
  <2>1. CASE implicit
    <3>1. rules' = Append(rules, DenyAllRule)
      BY <1>1, <2>1
    <3>2. /\ rules' \in Seq(S \cup {DenyAllRule}) /\ Len(rules') = Len(rules) + 1
          /\ \A i \in DOMAIN rules' : rules'[i] = DenyAllRule \/ (i \in DOMAIN rules /\ rules'[i] = rules[i])
      BY <1>3, <3>1, AppendIs
    <3>3. Cardinality({i \in DOMAIN rules' : rules'[i].id # 0}) = status.loaded
      BY <1>3, <1>4, <1>5, <3>1, RowsCounted
    <3>4. QED
      BY <1>6, <2>1, <3>2, <3>3
  <2>2. CASE ~implicit
    <3>1. rules' = rules
      BY <1>1, <2>2
    <3>2. rules \in Seq(S \cup {DenyAllRule})
      BY <1>3
    <3>3. QED
      BY <1>5, <1>6, <2>2, <3>1, <3>2
  <2>3. QED
    BY <2>1, <2>2
<1>8. RulesOK'
  <2>1. \A i \in DOMAIN rules : rules[i].id \in Nat /\ rules[i].enabled \in BOOLEAN
    BY DEF LoaderInv, RulesOK
  <2>2. DenyAllRule.id \in Nat /\ DenyAllRule.enabled \in BOOLEAN
    BY <1>4
  <2>3. \A i \in DOMAIN rules' : rules'[i].id \in Nat /\ rules'[i].enabled \in BOOLEAN
    BY <1>7, <2>1, <2>2
  <2>4. \E T : rules' \in Seq(T)
    BY <1>7
  <2>5. QED
    BY <1>1, <2>3, <2>4 DEF RulesOK
<1>9. PlaceOK'
  BY <1>1 DEF LoaderInv, PlaceOK
<1> DEFINE disabled == (status.loaded - Cardinality(Enabled(rules'))) % SizeMax
           others == {i \in DOMAIN rules' : ~rules'[i].enabled}
<1>10. /\ Cardinality(Enabled(rules')) \in Nat /\ Cardinality(others) \in Nat
       /\ Cardinality(Enabled(rules')) + Cardinality(others) = Len(rules')
  BY <1>7, EnabledCounted
<1>11. status' = [loaded |-> status.loaded, errors |-> status.errors,
                  disabled |-> disabled, unresolved |-> status.unresolved]
  BY <1>1 DEF LoaderInv, StatusOK
<1> DEFINE added == IF implicit THEN 1 ELSE 0
           enabled == Cardinality(Enabled(rules'))
<1>12. disabled = (Cardinality(others) - added) % SizeMax
  <2> DEFINE more == Cardinality(others)
  <2>1. added \in {0, 1}
    OBVIOUS
  <2>2. enabled \in Nat /\ more \in Nat /\ enabled + more = status.loaded + added
    BY <1>7, <1>10
  <2> HIDE DEF added, enabled, more
  <2>3. status.loaded - enabled = more - added
    BY <1>5, <2>1, <2>2
  <2>4. QED
    BY <2>3 DEF enabled, more
<1>13. disabled \in 0 .. (SizeMax - 1)
  BY <1>5, <1>10, SizeMaxAssumption
<1> HIDE DEF disabled, others
<1>14. StatusOK'
  BY <1>5, <1>11, <1>13 DEF StatusOK
<1>15. StatusCounts'
  <2>1. /\ status'.loaded = status.loaded /\ status'.errors = status.errors /\ status'.disabled = disabled
        /\ position' = position /\ implicit' = implicit
    BY <1>1, <1>11
  <2>2. status'.loaded = Cardinality({i \in DOMAIN rules' : rules'[i].id # 0})
    BY <1>7, <2>1
  <2>3. status'.disabled = (Cardinality({i \in DOMAIN rules' : ~rules'[i].enabled})
                             - (IF implicit' THEN 1 ELSE 0)) % SizeMax
    BY <1>12, <2>1 DEF others
  <2>4. QED
    BY <1>5, <2>1, <2>2, <2>3 DEF StatusCounts
<1>16. QED
  BY <1>2, <1>8, <1>9, <1>14, <1>15 DEF LoaderInv

LEMMA NextKeeps ==
    ASSUME LoaderInv, [Next]_vars
    PROVE  LoaderInv'
<1>1. CASE LoadStore
  <2>1. PICK files \in StoreFiles :
            ChangeStore([kind \in ObjectKind |->
                           IF kind \in DOMAIN files THEN LoadKind(kind, files[kind]) ELSE store[kind]])
    BY <1>1 DEF LoadStore
  <2>2. QED
    BY <2>1, LoadStoreIsOK, ChangeStoreKeeps DEF LoaderInv
<1>2. CASE ClearStore
  BY <1>2, ClearedIsOK, ChangeStoreKeeps DEF ClearStore
<1>3. CASE StartLoad
  BY <1>3, StartLoadKeeps
<1>4. CASE RefuseRow
  BY <1>4, RefuseRowKeeps
<1>5. CASE AddRow
  BY <1>5, AddRowKeeps
<1>6. CASE EndLoad
  BY <1>6, EndLoadKeeps
<1>7. CASE Interrupt
  BY <1>7, InterruptKeeps
<1>8. CASE Restart
  BY <1>8, RestartKeeps
<1>9. CASE UNCHANGED vars
  BY <1>9 DEF vars, LoaderInv, RulesOK, PlaceOK, StatusOK, StatusCounts
<1>10. QED
  BY <1>1, <1>2, <1>3, <1>4, <1>5, <1>6, <1>7, <1>8, <1>9 DEF Next

LEMMA AlwaysLoaderInv == Spec => []LoaderInv
<1>1. Init => LoaderInv
  BY InitIsOK
<1>2. LoaderInv /\ [Next]_vars => LoaderInv'
  BY NextKeeps
<1>3. QED
  BY <1>1, <1>2, PTL DEF Spec

(***************************************************************************)
(* The second part: what is loaded means what its names mean.              *)
(*                                                                         *)
(* Truthful says that what a build knows is right, for all that agrees with*)
(* it: an object in a cache is what the store and the hosts say of its name,*)
(* and a group is all its leaves.  Builds says that one record follows from*)
(* another, keeping what was known and true.  From the bottom up, every part*)
(* of add_rule is shown to build, and to add to the groups of the row what its*)
(* names mean and to the report the names that mean nothing.               *)
(***************************************************************************)

\* A property of the numbers up to n.
LEMMA UpTo ==
    ASSUME NEW n \in Nat, NEW Good, 0 \in Good, \A m \in 1 .. n : m - 1 \in Good => m \in Good
    PROVE  \A m \in 0 .. n : m \in Good
<1> DEFINE Bad == {m \in 0 .. n : m \notin Good}
<1> SUFFICES ASSUME Bad # {} PROVE FALSE
  OBVIOUS
<1>1. PICK m \in Bad : \A k \in Bad : m <= k
  <2>1. Bad \in SUBSET Nat
    OBVIOUS
  <2> HIDE DEF Bad
  <2>2. QED
    BY <2>1, LeastNatural
<1>2. m \in 1 .. n /\ m - 1 \in 0 .. n
  OBVIOUS
<1>3. m - 1 \notin Bad
  <2>1. m \in Nat /\ ~(m <= m - 1)
    BY <1>2
  <2> HIDE DEF Bad
  <2>2. QED
    BY <1>1, <2>1
<1>4. QED
  BY <1>2, <1>3

(***************************************************************************)
(* Sequences put one after the other.                                      *)
(***************************************************************************)
In(e, seq) == \E i \in DOMAIN seq : seq[i] = e

\* `g' has the results for all beginnings of seqs.
Joins(g, seqs) ==
    /\ g[0] = <<>>
    /\ \A i \in 1 .. Len(seqs) : g[i] = g[i - 1] \o seqs[i]
    /\ FlattenSeq(seqs) = g[Len(seqs)]

LEMMA FlattenJoins ==
    ASSUME NEW S, NEW seqs \in Seq(Seq(S))
    PROVE  \E g : Joins(g, seqs) /\ \A i \in 0 .. Len(seqs) : g[i] \in Seq(S)
<1> DEFINE n == Len(seqs)
<1>1. n \in Nat /\ DOMAIN seqs = 1 .. n /\ \A i \in 1 .. n : seqs[i] \in Seq(S)
  BY LenProperties, ElementOfSeq
<1>a. n = Len(seqs) /\ <<>> \in Seq(S) /\ \A s \in Seq(S) : <<>> \o s = s
  OBVIOUS
<1> HIDE DEF n
<1>2. CASE n = 0
  <2>1. FlattenSeq(seqs) = seqs /\ seqs = <<>>
    BY <1>1, <1>2, <1>a, EmptySeq DEF FlattenSeq
  <2> DEFINE g == [i \in 0 .. 0 |-> <<>>]
  <2>2. g[0] = <<>>
    OBVIOUS
  <2> HIDE DEF g
  <2>3. Joins(g, seqs) /\ \A i \in 0 .. Len(seqs) : g[i] \in Seq(S)
    <3>1. 1 .. Len(seqs) = {} /\ 0 .. Len(seqs) = {0}
      BY <1>2, <1>a
    <3>2. QED
      BY <1>2, <1>a, <2>1, <2>2, <3>1 DEF Joins
  <2>4. QED
    BY <2>3
<1>3. CASE n # 0
  <2> DEFINE f == CHOOSE f : f = [i \in 1 .. n |-> IF i = 1 THEN seqs[i] ELSE f[i - 1] \o seqs[i]]
  <2>1. FlattenSeq(seqs) = f[n]
    BY <1>3, <1>a DEF FlattenSeq, n
  <2>2. \E h : Flattens(h, n, seqs)
    BY <1>1, FlattenExists
  <2>3. f = [i \in 1 .. n |-> IF i = 1 THEN seqs[i] ELSE f[i - 1] \o seqs[i]]
    BY <2>2 DEF Flattens
  <2> HIDE DEF f
  <2> DEFINE g == [i \in 0 .. n |-> IF i = 0 THEN <<>> ELSE f[i]]
  <2>4. g[0] = <<>> /\ \A i \in 1 .. n : g[i] = f[i]
    BY <1>1
  <2> HIDE DEF g
  <2>5. \A i \in 1 .. n : g[i] = IF i = 1 THEN seqs[i] ELSE g[i - 1] \o seqs[i]
    <3>1. ASSUME NEW i \in 1 .. n
          PROVE  g[i] = IF i = 1 THEN seqs[i] ELSE g[i - 1] \o seqs[i]
      <4>1. f[i] = IF i = 1 THEN seqs[i] ELSE f[i - 1] \o seqs[i]
        BY <2>3
      <4>2. i # 1 => i - 1 \in 1 .. n
        BY <1>1
      <4>3. QED
        BY <2>4, <4>1, <4>2
    <3>2. QED
      BY <3>1
  <2>6. \A i \in 1 .. n : g[i] = g[i - 1] \o seqs[i]
    <3> SUFFICES ASSUME NEW i \in 1 .. n PROVE g[i] = g[i - 1] \o seqs[i]
      OBVIOUS
    <3>1. CASE i = 1
      <4>1. g[i] = seqs[i] /\ g[i - 1] = <<>> /\ seqs[i] \in Seq(S)
        BY <1>1, <2>4, <2>5, <3>1
      <4>2. QED
        BY <1>a, <4>1
    <3>2. CASE i # 1
      BY <2>5, <3>2
    <3>3. QED
      BY <3>1, <3>2
  <2> DEFINE Good == {i \in 0 .. n : g[i] \in Seq(S)}
  <2>7. \A i \in 0 .. n : i \in Good
    <3>1. 0 \in Good
      <4>1. g[0] \in Seq(S)
        BY <1>a, <2>4, Zenon
      <4>2. 0 \in 0 .. n
        BY <1>1
      <4>3. QED
        BY <4>1, <4>2
    <3>2. ASSUME NEW i \in 1 .. n, i - 1 \in Good
          PROVE  i \in Good
      <4>1. i \in 0 .. n /\ g[i - 1] \in Seq(S) /\ seqs[i] \in Seq(S) /\ g[i] = g[i - 1] \o seqs[i]
        BY <1>1, <2>6, <3>2
      <4> HIDE DEF Good
      <4>2. g[i] \in Seq(S)
        BY <4>1, ConcatProperties
      <4>3. QED
        BY <4>1, <4>2 DEF Good
    <3> HIDE DEF Good
    <3>3. QED
      BY <1>1, <3>1, <3>2, UpTo
  <2>8. FlattenSeq(seqs) = g[n]
    BY <1>1, <1>3, <2>1, <2>4
  <2>9. Joins(g, seqs)
    BY <1>a, <2>4, <2>6, <2>8 DEF Joins
  <2>10. QED
    BY <1>a, <2>7, <2>9
<1>4. QED
  BY <1>2, <1>3

\* What holds of parts, and of the concatenation of two, holds of the whole.
LEMMA FlattenClosed ==
    ASSUME NEW S, NEW C \in SUBSET Seq(S), <<>> \in C, \A a, b \in C : a \o b \in C,
           NEW seqs \in Seq(Seq(S)), \A i \in DOMAIN seqs : seqs[i] \in C
    PROVE  FlattenSeq(seqs) \in C
<1>1. PICK g : Joins(g, seqs)
  BY FlattenJoins
<1> DEFINE n == Len(seqs)
           Good == {i \in 0 .. n : g[i] \in C}
<1>2. n \in Nat /\ DOMAIN seqs = 1 .. n
  OBVIOUS
<1>3. \A i \in 0 .. n : i \in Good
  <2>1. 0 \in Good
    BY <1>1, <1>2 DEF Joins
  <2>2. ASSUME NEW i \in 1 .. n, i - 1 \in Good
        PROVE  i \in Good
    <3>1. i \in 0 .. n /\ i \in 1 .. Len(seqs)
      BY <1>2
    <3>2. g[i] = g[i - 1] \o seqs[i]
      BY <1>1, <3>1 DEF Joins
    <3>3. seqs[i] \in C
      BY <1>2
    <3>4. g[i - 1] \in C
      BY <2>2
    <3>5. g[i] \in C
      BY <3>2, <3>3, <3>4
    <3>6. QED
      BY <3>1, <3>5
  <2> HIDE DEF Good, n
  <2>3. QED
    BY <1>2, <2>1, <2>2, UpTo
<1>4. QED
  BY <1>1, <1>2, <1>3 DEF Joins

LEMMA ConcatHas ==
    ASSUME NEW S, NEW a \in Seq(S), NEW b \in Seq(S)
    PROVE  /\ \A i \in DOMAIN a : i \in DOMAIN (a \o b) /\ (a \o b)[i] = a[i]
           /\ \A i \in DOMAIN b : i + Len(a) \in DOMAIN (a \o b) /\ (a \o b)[i + Len(a)] = b[i]
           /\ \A i \in DOMAIN (a \o b) :
                 (i \in DOMAIN a) \/ (i - Len(a) \in DOMAIN b /\ (a \o b)[i] = b[i - Len(a)])
BY ConcatProperties, LenProperties

LEMMA InConcat ==
    ASSUME NEW S, NEW a \in Seq(S), NEW b \in Seq(S), NEW e
    PROVE  In(e, a \o b) <=> In(e, a) \/ In(e, b)
<1> DEFINE c == a \o b
           n == Len(a)
<1>1. /\ \A i \in DOMAIN a : i \in DOMAIN c /\ c[i] = a[i]
      /\ \A i \in DOMAIN b : i + n \in DOMAIN c /\ c[i + n] = b[i]
      /\ \A i \in DOMAIN c : i \in DOMAIN a \/ (i - n \in DOMAIN b /\ c[i] = b[i - n])
  BY ConcatHas
<1> HIDE DEF c, n
<1>2. In(e, c) <=> In(e, a) \/ In(e, b)
  BY <1>1 DEF In
<1>3. QED
  BY <1>2 DEF c

LEMMA FlattenHas ==
    ASSUME NEW S, NEW seqs \in Seq(Seq(S)), NEW e
    PROVE  In(e, FlattenSeq(seqs)) <=> \E i \in DOMAIN seqs : In(e, seqs[i])
<1> DEFINE n == Len(seqs)
<1>1. n \in Nat /\ DOMAIN seqs = 1 .. n /\ \A i \in 1 .. n : seqs[i] \in Seq(S)
  BY LenProperties, ElementOfSeq
<1>2. PICK g : Joins(g, seqs) /\ \A i \in 0 .. n : g[i] \in Seq(S)
  BY FlattenJoins
<1> HIDE DEF n
<1> DEFINE Good == {m \in 0 .. n : In(e, g[m]) <=> \E i \in 1 .. m : In(e, seqs[i])}
<1>3. \A m \in 0 .. n : m \in Good
  <2>1. 0 \in Good
    BY <1>1, <1>2 DEF Joins, In
  <2>2. ASSUME NEW m \in 1 .. n, m - 1 \in Good
        PROVE  m \in Good
    <3>1. g[m] = g[m - 1] \o seqs[m] /\ g[m - 1] \in Seq(S) /\ seqs[m] \in Seq(S)
      <4>1. m - 1 \in 0 .. n /\ m \in 1 .. Len(seqs)
        BY <1>1 DEF n
      <4>2. QED
        BY <1>1, <1>2, <4>1 DEF Joins
    <3>2. In(e, g[m]) <=> In(e, g[m - 1]) \/ In(e, seqs[m])
      BY <3>1, InConcat
    <3>3. In(e, g[m - 1]) <=> \E i \in 1 .. (m - 1) : In(e, seqs[i])
      BY <2>2
    <3>4. 1 .. m = (1 .. (m - 1)) \cup {m} /\ m \in 0 .. n
      BY <1>1
    <3>5. QED
      BY <3>2, <3>3, <3>4
  <2> HIDE DEF Good
  <2>3. QED
    BY <1>1, <2>1, <2>2, UpTo
<1>4. n \in 0 .. n /\ FlattenSeq(seqs) = g[n]
  BY <1>1, <1>2 DEF Joins, n
<1>5. QED
  BY <1>1, <1>3, <1>4

\* One more part.
LEMMA FlattenOneMore ==
    ASSUME NEW S, NEW seqs \in Seq(Seq(S)), NEW last \in Seq(S)
    PROVE  FlattenSeq(Append(seqs, last)) = FlattenSeq(seqs) \o last
<1> DEFINE n == Len(seqs)
           more == Append(seqs, last)
<1>1. /\ n \in Nat /\ Len(more) = n + 1 /\ more \in Seq(Seq(S))
      /\ \A i \in 1 .. n : more[i] = seqs[i]
      /\ more[n + 1] = last
  BY LenProperties
<1>2. PICK g : Joins(g, seqs)
  BY FlattenJoins
<1>3. PICK h : Joins(h, more)
  BY <1>1, FlattenJoins
<1> HIDE DEF more
<1> DEFINE Good == {i \in 0 .. n : g[i] = h[i]}
<1>4. \A i \in 0 .. n : i \in Good
  <2>1. 0 \in Good
    BY <1>1, <1>2, <1>3 DEF Joins
  <2>2. ASSUME NEW i \in 1 .. n, i - 1 \in Good
        PROVE  i \in Good
    <3>1. i \in 0 .. n /\ i \in 1 .. Len(more)
      BY <1>1
    <3>2. g[i] = g[i - 1] \o seqs[i] /\ h[i] = h[i - 1] \o more[i]
      BY <1>2, <1>3, <3>1 DEF Joins
    <3>3. more[i] = seqs[i] /\ g[i - 1] = h[i - 1]
      BY <1>1, <2>2
    <3>4. QED
      BY <3>1, <3>2, <3>3
  <2> HIDE DEF Good, n
  <2>3. QED
    BY <1>1, <2>1, <2>2, UpTo
<1>5. h[n + 1] = h[n] \o last
  <2>1. n + 1 \in 1 .. Len(more) /\ (n + 1) - 1 = n
    BY <1>1
  <2>2. QED
    BY <1>1, <1>3, <2>1 DEF Joins
<1>6. g[n] = h[n]
  BY <1>1, <1>4
<1>7. QED
  BY <1>1, <1>2, <1>3, <1>5, <1>6 DEF Joins, more

(***************************************************************************)
(* The traversal of pools.                                                 *)
(***************************************************************************)
PoolsOK(pools) ==
    /\ IsFiniteSet(DOMAIN pools) /\ DOMAIN pools \subseteq STRING
    /\ \A pool \in DOMAIN pools : pools[pool] \in Seq(STRING)

Parts(objects, pools, pool, below) ==
    [i \in DOMAIN pools[pool] |-> EntriesOf(objects, pools, pools[pool][i], below)]

LEMMA TraversalIsWalk ==
    ASSUME NEW objects, NEW pools, PoolsOK(pools)
    PROVE  LET n == Cardinality(DOMAIN pools) IN
           n \in Nat /\ \E w : Walks(w, n, objects, pools) /\ Traversal(objects, pools) = w[n]
<1> DEFINE n == Cardinality(DOMAIN pools)
           w == CHOOSE w : w = [d \in 0 .. n |->
                   [p \in DOMAIN pools |->
                      IF d = 0 THEN <<Entry("loop", p)>>
                      ELSE Append(FlattenSeq([i \in DOMAIN pools[p] |->
                                      EntriesOf(objects, pools, pools[p][i], w[d - 1])]),
                                  Entry("pool", p))]]
<1>1. n \in Nat
  BY FS_CardinalityType DEF PoolsOK
<1>2. Traversal(objects, pools) = w[n]
  BY DEF Traversal
<1>3. \E g : Walks(g, n, objects, pools)
  BY <1>1, WalkExists
<1>4. w = [d \in 0 .. n |->
             [p \in DOMAIN pools |->
                IF d = 0 THEN <<Entry("loop", p)>>
                ELSE Append(FlattenSeq([i \in DOMAIN pools[p] |->
                                EntriesOf(objects, pools, pools[p][i], w[d - 1])]), Entry("pool", p))]]
  BY <1>3 DEF Walks, WalkLevel
<1> HIDE DEF w
<1>5. Walks(w, n, objects, pools)
  BY <1>4 DEF Walks, WalkLevel
<1>6. QED
  BY <1>1, <1>2, <1>5

LEMMA PartsAreSequences ==
    ASSUME NEW objects, NEW pools, PoolsOK(pools), NEW below,
           \A p \in DOMAIN pools : below[p] \in Seq(EntryRecord), NEW pool \in DOMAIN pools
    PROVE  Parts(objects, pools, pool, below) \in Seq(Seq(EntryRecord))
<1> DEFINE parts == Parts(objects, pools, pool, below)
           T == Seq(EntryRecord)
<1>1. /\ pools[pool] \in Seq(STRING)
      /\ DOMAIN pools[pool] = 1 .. Len(pools[pool]) /\ Len(pools[pool]) \in Nat
      /\ \A i \in 1 .. Len(pools[pool]) : pools[pool][i] \in STRING
  BY LenProperties, ElementOfSeq DEF PoolsOK
<1>2. \A type \in {"object", "pool", "unresolved", "loop"} : \A name \in STRING :
          <<Entry(type, name)>> \in Seq(EntryRecord)
  BY DEF Entry, EntryRecord
<1>3. \A name \in STRING : EntriesOf(objects, pools, name, below) \in Seq(EntryRecord)
  BY <1>2 DEF EntriesOf
<1>4. parts = [i \in 1 .. Len(pools[pool]) |-> EntriesOf(objects, pools, pools[pool][i], below)]
  BY <1>1 DEF Parts
<1>5. \A i \in 1 .. Len(pools[pool]) : EntriesOf(objects, pools, pools[pool][i], below) \in T
  BY <1>1, <1>3
<1> HIDE DEF parts, T
<1>6. parts \in [1 .. Len(pools[pool]) -> T]
  BY <1>4, <1>5
<1>7. parts \in Seq(T)
  BY <1>1, <1>6
<1>8. QED
  BY <1>7 DEF T, parts

LEMMA InAppend ==
    ASSUME NEW S, NEW seq \in Seq(S), NEW x \in S, NEW e
    PROVE  Append(seq, x) \in Seq(S) /\ (In(e, Append(seq, x)) <=> e = x \/ In(e, seq))
<1> DEFINE more == Append(seq, x)
<1>1. /\ more \in Seq(S) /\ Len(seq) \in Nat
      /\ DOMAIN more = DOMAIN seq \cup {Len(seq) + 1} /\ more[Len(seq) + 1] = x
      /\ \A i \in DOMAIN seq : more[i] = seq[i]
  BY AppendProperties, LenProperties
<1> HIDE DEF more
<1>2. In(e, more) <=> e = x \/ In(e, seq)
  BY <1>1 DEF In
<1>3. QED
  BY <1>1, <1>2 DEF more

\* What a level of the traversal has for a pool, from the level below.
LevelFrom(seq, objects, pools, pool, below) ==
    /\ seq = Append(FlattenSeq(Parts(objects, pools, pool, below)), Entry("pool", pool))
    /\ Parts(objects, pools, pool, below) \in Seq(Seq(EntryRecord))
    /\ \A e : In(e, seq) <=>
                 \/ e = Entry("pool", pool)
                 \/ \E i \in DOMAIN pools[pool] :
                       In(e, EntriesOf(objects, pools, pools[pool][i], below))

LEMMA LevelIsFrom ==
    ASSUME NEW objects, NEW pools, PoolsOK(pools), NEW below,
           \A p \in DOMAIN pools : below[p] \in Seq(EntryRecord), NEW pool \in DOMAIN pools,
           NEW d, d # 0
    PROVE  LevelFrom(WalkLevel(objects, pools, d, below)[pool], objects, pools, pool, below)
<1> DEFINE parts == Parts(objects, pools, pool, below)
           flat == FlattenSeq(parts)
           seq == WalkLevel(objects, pools, d, below)[pool]
<1>1. parts \in Seq(Seq(EntryRecord))
  BY PartsAreSequences
<1>2. seq = Append(flat, Entry("pool", pool))
  BY DEF WalkLevel, Parts
<1>3. \A i \in DOMAIN pools[pool] : parts[i] = EntriesOf(objects, pools, pools[pool][i], below)
  BY DEF Parts
<1>4. DOMAIN parts = DOMAIN pools[pool]
  BY DEF Parts
<1> HIDE DEF parts, seq
<1>5. \A e : In(e, flat) <=> \E i \in DOMAIN pools[pool] :
                       In(e, EntriesOf(objects, pools, pools[pool][i], below))
  <2>1. \A e : In(e, flat) <=> \E i \in DOMAIN parts : In(e, parts[i])
    BY <1>1, FlattenHas
  <2>2. QED
    BY <1>3, <1>4, <2>1
<1>6. flat \in Seq(EntryRecord) /\ Entry("pool", pool) \in EntryRecord
  BY <1>1, FlattenIsSequence DEF Entry, EntryRecord, PoolsOK
<1> HIDE DEF flat
<1>7. \A e : In(e, seq) <=> e = Entry("pool", pool) \/ In(e, flat)
  BY <1>2, <1>6, InAppend
<1>8. QED
  BY <1>1, <1>2, <1>5, <1>7 DEF LevelFrom, parts, flat, seq

LEMMA WalkStarts ==
    ASSUME NEW objects, NEW pools, NEW n \in Nat, NEW w, Walks(w, n, objects, pools), NEW pool \in DOMAIN pools
    PROVE  w[0][pool] = <<Entry("loop", pool)>>
<1>1. 0 \in 0 .. n
  OBVIOUS
<1>2. w[0] = WalkLevel(objects, pools, 0, w[0 - 1])
  BY <1>1 DEF Walks
<1>3. QED
  BY <1>2 DEF WalkLevel

LEMMA LevelIs ==
    ASSUME NEW objects, NEW pools, PoolsOK(pools), NEW n \in Nat, NEW w, Walks(w, n, objects, pools),
           NEW d \in 0 .. n, NEW pool \in DOMAIN pools
    PROVE  /\ w[d][pool] \in Seq(EntryRecord)
           /\ d = 0 => w[d][pool] = <<Entry("loop", pool)>>
           /\ d # 0 => LevelFrom(w[d][pool], objects, pools, pool, w[d - 1])
<1>1. \A m \in 0 .. n : w[m] = WalkLevel(objects, pools, m, w[m - 1])
  BY DEF Walks
<1> DEFINE Good == {m \in 0 .. n : \A p \in DOMAIN pools : w[m][p] \in Seq(EntryRecord)}
<1>2. \A m \in 0 .. n : m \in Good
  <2>1. 0 \in Good
    <3>1. w[0] = WalkLevel(objects, pools, 0, w[0 - 1]) /\ 0 \in 0 .. n
      BY <1>1
    <3>2. \A p \in DOMAIN pools : WalkLevel(objects, pools, 0, w[0 - 1])[p] \in Seq(EntryRecord)
      BY LevelIsSequences DEF PoolsOK
    <3>3. QED
      BY <3>1, <3>2
  <2>2. ASSUME NEW m \in 1 .. n, m - 1 \in Good
        PROVE  m \in Good
    <3>1. m \in 0 .. n /\ m # 0 /\ w[m] = WalkLevel(objects, pools, m, w[m - 1])
      BY <1>1
    <3> DEFINE below == w[m - 1]
    <3>2. \A p \in DOMAIN pools : below[p] \in Seq(EntryRecord)
      BY <2>2
    <3> HIDE DEF below
    <3>3. \A p \in DOMAIN pools : WalkLevel(objects, pools, m, below)[p] \in Seq(EntryRecord)
      BY <3>2, LevelIsSequences DEF PoolsOK
    <3>4. QED
      BY <3>1, <3>3 DEF below
  <2> HIDE DEF Good
  <2>3. QED
    BY <2>1, <2>2, UpTo
<1>3. \A m \in 0 .. n : \A p \in DOMAIN pools : w[m][p] \in Seq(EntryRecord)
  BY <1>2
<1>4. d = 0 => w[d][pool] = <<Entry("loop", pool)>>
  BY <1>1 DEF WalkLevel
<1>5. d # 0 => LevelFrom(w[d][pool], objects, pools, pool, w[d - 1])
  <2> SUFFICES ASSUME d # 0 PROVE LevelFrom(w[d][pool], objects, pools, pool, w[d - 1])
    OBVIOUS
  <2> DEFINE below == w[d - 1]
  <2>1. \A p \in DOMAIN pools : below[p] \in Seq(EntryRecord)
    BY <1>3
  <2>2. w[d] = WalkLevel(objects, pools, d, below)
    BY <1>1
  <2> HIDE DEF below
  <2>3. LevelFrom(w[d][pool], objects, pools, pool, below)
    BY <2>1, <2>2, LevelIsFrom
  <2>4. QED
    BY <2>3 DEF below
<1>6. QED
  BY <1>3, <1>4, <1>5

NoLoop(seq) == \A e : In(e, seq) => e.type # "loop"

LEMMA EntriesOfIs ==
    ASSUME NEW objects, NEW pools, NEW name, NEW below
    PROVE  LET entries == EntriesOf(objects, pools, name, below) IN
           /\ name \in objects => entries = <<Entry("object", name)>>
           /\ name \notin objects /\ name \in DOMAIN pools => entries = below[name]
           /\ name \notin objects /\ name \notin DOMAIN pools => entries = <<Entry("unresolved", name)>>
BY DEF EntriesOf

LEMMA InOne ==
    ASSUME NEW x, NEW e
    PROVE  In(e, <<x>>) <=> e = x
BY DEF In

\* Whatever is true of a pool at level 0, and at a level if it is at the level
\* below, is true at every level.
LEMMA LevelStable ==
    ASSUME NEW objects, NEW pools, PoolsOK(pools), NEW n \in Nat, NEW w, Walks(w, n, objects, pools)
    PROVE  \A d \in 0 .. n : \A p \in DOMAIN pools :
              NoLoop(w[d][p]) => \A e \in d .. n : w[e][p] = w[d][p]
<1> DEFINE Good == {d \in 0 .. n : \A p \in DOMAIN pools :
                      NoLoop(w[d][p]) => \A e \in d .. n : w[e][p] = w[d][p]}
<1>1. 0 \in Good
  <2>1. ASSUME NEW p \in DOMAIN pools
        PROVE  ~NoLoop(w[0][p])
    <3>1. w[0][p] = <<Entry("loop", p)>>
      BY LevelIs
    <3>2. QED
      BY <3>1, InOne DEF NoLoop, Entry
  <2>2. QED
    BY <2>1
<1>2. ASSUME NEW d \in 1 .. n, d - 1 \in Good
      PROVE  d \in Good
  <2> SUFFICES ASSUME NEW p \in DOMAIN pools, NoLoop(w[d][p]), NEW e \in d .. n
               PROVE  w[e][p] = w[d][p]
    OBVIOUS
  <2>1. /\ d \in 0 .. n /\ d # 0 /\ e \in 0 .. n /\ e # 0
        /\ d - 1 \in 0 .. n /\ e - 1 \in (d - 1) .. n
    OBVIOUS
  <2> DEFINE low == w[d - 1]
             high == w[e - 1]
  <2>2. LevelFrom(w[d][p], objects, pools, p, low) /\ LevelFrom(w[e][p], objects, pools, p, high)
    BY <2>1, LevelIs
  <2>3. \A q \in DOMAIN pools : NoLoop(low[q]) => high[q] = low[q]
    BY <1>2, <2>1
  <2> HIDE DEF low, high
  <2>4. ASSUME NEW i \in DOMAIN pools[p]
        PROVE  EntriesOf(objects, pools, pools[p][i], high) = EntriesOf(objects, pools, pools[p][i], low)
    <3> DEFINE x == pools[p][i]
    <3>1. CASE x \notin objects /\ x \in DOMAIN pools
      <4>1. EntriesOf(objects, pools, x, high) = high[x] /\ EntriesOf(objects, pools, x, low) = low[x]
        BY <3>1, EntriesOfIs
      <4>2. NoLoop(low[x])
        BY <2>2, <4>1 DEF LevelFrom, NoLoop
      <4>3. QED
        BY <2>3, <3>1, <4>1, <4>2
    <3>2. CASE ~(x \notin objects /\ x \in DOMAIN pools)
      <4> HIDE DEF x
      <4>1. EntriesOf(objects, pools, x, high) = EntriesOf(objects, pools, x, low)
        BY <3>2, EntriesOfIs
      <4>2. QED
        BY <4>1 DEF x
    <3>3. QED
      BY <3>1, <3>2
  <2>5. Parts(objects, pools, p, high) = Parts(objects, pools, p, low)
    BY <2>4 DEF Parts
  <2>6. QED
    BY <2>2, <2>5 DEF LevelFrom
<1> HIDE DEF Good
<1>3. \A d \in 0 .. n : d \in Good
  BY <1>1, <1>2, UpTo
<1>4. QED
  BY <1>3 DEF Good

\* A name that a pool lists.
MemberOf(name, pools) == \E q \in DOMAIN pools : name \in Range(pools[q])

\* The type of an entry tells what its name is.
Typed(entry, objects, pools, pool) ==
    /\ entry \in EntryRecord
    /\ entry.type = "object" => entry.name \in objects /\ MemberOf(entry.name, pools)
    /\ entry.type = "unresolved" => entry.name \notin objects /\ entry.name \notin DOMAIN pools
    /\ entry.type \in {"pool", "loop"} =>
          entry.name \in DOMAIN pools /\ (entry.name \notin objects \/ entry.name = pool)

LEMMA SingleTyped ==
    ASSUME NEW objects, NEW pools, NEW name \in STRING, NEW pool, NEW below, NEW e,
           In(e, EntriesOf(objects, pools, name, below)),
           name \in objects \/ name \notin DOMAIN pools, MemberOf(name, pools)
    PROVE  Typed(e, objects, pools, pool)
<1>1. CASE name \in objects
  <2>1. e = Entry("object", name)
    BY <1>1, EntriesOfIs, InOne
  <2>2. QED
    BY <1>1, <2>1 DEF Entry, EntryRecord, Typed
<1>2. CASE name \notin objects
  <2>1. e = Entry("unresolved", name)
    BY <1>2, EntriesOfIs, InOne
  <2>2. QED
    BY <1>2, <2>1 DEF Entry, EntryRecord, Typed
<1>3. QED
  BY <1>1, <1>2

LEMMA LevelTyped ==
    ASSUME NEW objects, NEW pools, PoolsOK(pools), NEW n \in Nat, NEW w, Walks(w, n, objects, pools)
    PROVE  \A d \in 0 .. n : \A p \in DOMAIN pools : \A e :
              In(e, w[d][p]) => Typed(e, objects, pools, p)
<1> DEFINE Good == {d \in 0 .. n : \A p \in DOMAIN pools : \A e :
                      In(e, w[d][p]) => Typed(e, objects, pools, p)}
<1>a. \A p \in DOMAIN pools : p \in STRING /\ \A i \in DOMAIN pools[p] : pools[p][i] \in STRING
  <2> SUFFICES ASSUME NEW p \in DOMAIN pools PROVE p \in STRING /\ \A i \in DOMAIN pools[p] : pools[p][i] \in STRING
    OBVIOUS
  <2>1. pools[p] \in Seq(STRING) /\ p \in STRING
    BY DEF PoolsOK
  <2>2. QED
    BY <2>1, ElementOfSeq, LenProperties
<1>1. 0 \in Good
  <2> SUFFICES ASSUME NEW p \in DOMAIN pools, NEW e, In(e, w[0][p])
               PROVE  Typed(e, objects, pools, p)
    OBVIOUS
  <2>1. w[0][p] = <<Entry("loop", p)>>
    BY LevelIs
  <2>2. e = Entry("loop", p)
    BY <2>1, InOne
  <2>3. QED
    BY <1>a, <2>2 DEF Entry, EntryRecord, Typed
<1>2. ASSUME NEW d \in 1 .. n, d - 1 \in Good
      PROVE  d \in Good
  <2> SUFFICES ASSUME NEW p \in DOMAIN pools, NEW e, In(e, w[d][p])
               PROVE  Typed(e, objects, pools, p)
    OBVIOUS
  <2> DEFINE low == w[d - 1]
  <2>1. LevelFrom(w[d][p], objects, pools, p, low)
    <3>1. d \in 0 .. n /\ d # 0
      OBVIOUS
    <3>2. QED
      BY <3>1, LevelIs
  <2>2. \A q \in DOMAIN pools : \A x : In(x, low[q]) => Typed(x, objects, pools, q)
    BY <1>2
  <2> HIDE DEF low
  <2>3. CASE e = Entry("pool", p)
    BY <1>a, <2>3 DEF Entry, EntryRecord, Typed
  <2>4. CASE e # Entry("pool", p)
    <3>1. PICK i \in DOMAIN pools[p] : In(e, EntriesOf(objects, pools, pools[p][i], low))
      BY <2>1, <2>4 DEF LevelFrom
    <3> DEFINE x == pools[p][i]
    <3>2. x \in STRING /\ In(e, EntriesOf(objects, pools, x, low)) /\ MemberOf(x, pools)
      BY <1>a, <3>1 DEF MemberOf, Range
    <3> HIDE DEF x
    <3>3. CASE x \in objects \/ x \notin DOMAIN pools
      BY <3>2, <3>3, SingleTyped
    <3>4. CASE ~(x \in objects \/ x \notin DOMAIN pools)
      <4>1. In(e, low[x])
        BY <3>2, <3>4, EntriesOfIs
      <4>2. Typed(e, objects, pools, x)
        BY <2>2, <3>4, <4>1
      <4>3. QED
        BY <3>4, <4>2 DEF Typed
    <3>5. QED
      BY <3>3, <3>4
  <2>5. QED
    BY <2>3, <2>4
<1> HIDE DEF Good
<1>3. \A d \in 0 .. n : d \in Good
  BY <1>1, <1>2, UpTo
<1>4. QED
  BY <1>3 DEF Good

\* A pool met by a traversal without a loop has no loop either.
LEMMA LevelNested ==
    ASSUME NEW objects, NEW pools, PoolsOK(pools), NEW n \in Nat, NEW w, Walks(w, n, objects, pools)
    PROVE  \A d \in 0 .. n : \A p \in DOMAIN pools : NoLoop(w[d][p]) =>
              \A q : In(Entry("pool", q), w[d][p]) => q \in DOMAIN pools /\ NoLoop(w[n][q])
<1> DEFINE Good == {d \in 0 .. n : \A p \in DOMAIN pools : NoLoop(w[d][p]) =>
                      \A q : In(Entry("pool", q), w[d][p]) => q \in DOMAIN pools /\ NoLoop(w[n][q])}
<1>1. 0 \in Good
  <2> SUFFICES ASSUME NEW p \in DOMAIN pools
               PROVE  ~NoLoop(w[0][p])
    OBVIOUS
  <2>1. w[0][p] = <<Entry("loop", p)>>
    BY LevelIs
  <2>2. QED
    BY <2>1, InOne DEF NoLoop, Entry
<1>2. ASSUME NEW d \in 1 .. n, d - 1 \in Good
      PROVE  d \in Good
  <2> SUFFICES ASSUME NEW p \in DOMAIN pools, NoLoop(w[d][p]), NEW q, In(Entry("pool", q), w[d][p])
               PROVE  q \in DOMAIN pools /\ NoLoop(w[n][q])
    OBVIOUS
  <2>0. d \in 0 .. n /\ d # 0 /\ n \in d .. n
    OBVIOUS
  <2> DEFINE low == w[d - 1]
  <2>1. LevelFrom(w[d][p], objects, pools, p, low)
    BY <2>0, LevelIs
  <2>2. \A x \in DOMAIN pools : NoLoop(low[x]) =>
           (In(Entry("pool", q), low[x]) => q \in DOMAIN pools /\ NoLoop(w[n][q]))
    BY <1>2
  <2> HIDE DEF low
  <2>3. CASE q = p
    <3>1. w[n][p] = w[d][p]
      BY <2>0, LevelStable
    <3>2. QED
      BY <2>3, <3>1
  <2>4. CASE q # p
    <3>0. Entry("pool", q) # Entry("pool", p)
      BY <2>4 DEF Entry
    <3>1. PICK i \in DOMAIN pools[p] : In(Entry("pool", q), EntriesOf(objects, pools, pools[p][i], low))
      BY <2>1, <3>0 DEF LevelFrom
    <3> DEFINE x == pools[p][i]
    <3>2. In(Entry("pool", q), EntriesOf(objects, pools, x, low))
      BY <3>1
    <3>3. \A e : In(e, EntriesOf(objects, pools, x, low)) => In(e, w[d][p])
      BY <2>1 DEF LevelFrom
    <3> HIDE DEF x
    <3>4. x \notin objects /\ x \in DOMAIN pools
      BY <3>2, EntriesOfIs, InOne DEF Entry
    <3>5. EntriesOf(objects, pools, x, low) = low[x]
      BY <3>4, EntriesOfIs
    <3>6. NoLoop(low[x])
      BY <3>3, <3>5 DEF NoLoop
    <3>7. QED
      BY <2>2, <3>2, <3>4, <3>5, <3>6
  <2>5. QED
    BY <2>3, <2>4
<1> HIDE DEF Good
<1>3. \A d \in 0 .. n : d \in Good
  BY <1>1, <1>2, UpTo
<1>4. QED
  BY <1>3 DEF Good

HasName(seq, name) == \E e : In(e, seq) /\ e.name = name

\* A pool is the name of one of its entries.
LEMMA LevelNamed ==
    ASSUME NEW objects, NEW pools, PoolsOK(pools), NEW n \in Nat, NEW w, Walks(w, n, objects, pools),
           NEW d \in 0 .. n, NEW p \in DOMAIN pools
    PROVE  HasName(w[d][p], p)
<1>1. CASE d = 0
  <2>1. w[0][p] = <<Entry("loop", p)>>
    BY LevelIs
  <2>2. In(Entry("loop", p), w[d][p])
    BY <1>1, <2>1, InOne
  <2>3. QED
    BY <2>2 DEF Entry, HasName
<1>2. CASE d # 0
  <2>1. LevelFrom(w[d][p], objects, pools, p, w[d - 1])
    BY <1>2, LevelIs
  <2>2. In(Entry("pool", p), w[d][p])
    BY <2>1 DEF LevelFrom
  <2>3. QED
    BY <2>2 DEF Entry, HasName
<1>3. QED
  BY <1>1, <1>2

LEMMA EntriesNamed ==
    ASSUME NEW objects, NEW pools, NEW name, NEW below,
           name \in DOMAIN pools => HasName(below[name], name)
    PROVE  HasName(EntriesOf(objects, pools, name, below), name)
<1>1. CASE name \in objects
  BY <1>1, EntriesOfIs, InOne DEF Entry, HasName
<1>2. CASE name \notin objects /\ name \in DOMAIN pools
  BY <1>2, EntriesOfIs
<1>3. CASE name \notin objects /\ name \notin DOMAIN pools
  BY <1>3, EntriesOfIs, InOne DEF Entry, HasName
<1>4. QED
  BY <1>1, <1>2, <1>3

\* The members of a pool come before it.
Ordered(seq, pools) ==
    \A k \in DOMAIN seq : seq[k].type = "pool" =>
       \A i \in DOMAIN pools[seq[k].name] :
          \E j \in DOMAIN seq : j < k /\ seq[j].name = pools[seq[k].name][i]

LEMMA OrderedConcat ==
    ASSUME NEW pools, NEW a \in Seq(EntryRecord), NEW b \in Seq(EntryRecord),
           Ordered(a, pools), Ordered(b, pools)
    PROVE  Ordered(a \o b, pools)
<1> DEFINE c == a \o b
           n == Len(a)
<1>1. /\ \A i \in DOMAIN a : i \in DOMAIN c /\ c[i] = a[i]
      /\ \A i \in DOMAIN b : i + n \in DOMAIN c /\ c[i + n] = b[i]
      /\ \A i \in DOMAIN c : i \in DOMAIN a \/ (i - n \in DOMAIN b /\ c[i] = b[i - n])
  BY ConcatHas
<1>2. n \in Nat /\ (\A i \in DOMAIN c : i \in Nat) /\ (\A i \in DOMAIN b : i \in Nat)
  BY LenProperties, ConcatProperties
<1> HIDE DEF c, n
<1> SUFFICES ASSUME NEW k \in DOMAIN c, c[k].type = "pool", NEW i \in DOMAIN pools[c[k].name]
             PROVE  \E j \in DOMAIN c : j < k /\ c[j].name = pools[c[k].name][i]
  BY DEF Ordered, c
<1>3. CASE k \in DOMAIN a
  <2>1. c[k] = a[k]
    BY <1>1, <1>3
  <2>2. PICK j \in DOMAIN a : j < k /\ a[j].name = pools[a[k].name][i]
    BY <1>3, <2>1 DEF Ordered
  <2>3. QED
    BY <1>1, <2>1, <2>2
<1>4. CASE k \notin DOMAIN a
  <2>1. k - n \in DOMAIN b /\ c[k] = b[k - n]
    BY <1>1, <1>4
  <2>2. PICK j \in DOMAIN b : j < k - n /\ b[j].name = pools[b[k - n].name][i]
    BY <2>1 DEF Ordered
  <2>3. j + n \in DOMAIN c /\ c[j + n] = b[j] /\ j + n < k
    BY <1>1, <1>2, <2>2
  <2>4. QED
    BY <2>1, <2>2, <2>3
<1>5. QED
  BY <1>3, <1>4

LEMMA OrderedPool ==
    ASSUME NEW pools, NEW flat \in Seq(EntryRecord), Ordered(flat, pools),
           NEW p, p \in STRING,
           \A i \in DOMAIN pools[p] : HasName(flat, pools[p][i])
    PROVE  Ordered(Append(flat, Entry("pool", p)), pools)
<1> DEFINE c == Append(flat, Entry("pool", p))
           n == Len(flat)
<1>1. /\ n \in Nat /\ DOMAIN flat = 1 .. n /\ DOMAIN c = 1 .. (n + 1)
      /\ \A i \in DOMAIN flat : c[i] = flat[i]
      /\ c[n + 1] = Entry("pool", p)
  BY LenProperties, AppendProperties DEF Entry, EntryRecord
<1> HIDE DEF c, n
<1> SUFFICES ASSUME NEW k \in DOMAIN c, c[k].type = "pool", NEW i \in DOMAIN pools[c[k].name]
             PROVE  \E j \in DOMAIN c : j < k /\ c[j].name = pools[c[k].name][i]
  BY DEF Ordered, c
<1>3. CASE k \in DOMAIN flat
  <2>1. c[k] = flat[k]
    BY <1>1, <1>3
  <2>2. PICK j \in DOMAIN flat : j < k /\ flat[j].name = pools[flat[k].name][i]
    BY <1>3, <2>1 DEF Ordered
  <2>3. QED
    BY <1>1, <2>1, <2>2
<1>4. CASE k \notin DOMAIN flat
  <2>1. k = n + 1 /\ c[k].name = p
    BY <1>1, <1>4 DEF Entry
  <2>2. PICK j \in DOMAIN flat : flat[j].name = pools[p][i]
    BY <2>1 DEF In, HasName
  <2>3. j \in DOMAIN c /\ j < k /\ c[j] = flat[j]
    BY <1>1, <2>1, <2>2
  <2>4. QED
    BY <2>1, <2>2, <2>3
<1>5. QED
  BY <1>3, <1>4

LEMMA LevelOrdered ==
    ASSUME NEW objects, NEW pools, PoolsOK(pools), NEW n \in Nat, NEW w, Walks(w, n, objects, pools)
    PROVE  \A d \in 0 .. n : \A p \in DOMAIN pools : Ordered(w[d][p], pools)
<1> DEFINE Good == {d \in 0 .. n : \A p \in DOMAIN pools : Ordered(w[d][p], pools)}
<1>0. \A x : x.type # "pool" => Ordered(<<x>>, pools)
  BY DEF Ordered
<1>1. 0 \in Good
  <2> SUFFICES ASSUME NEW p \in DOMAIN pools
               PROVE  Ordered(w[0][p], pools)
    OBVIOUS
  <2>1. w[0][p] = <<Entry("loop", p)>>
    BY LevelIs
  <2>2. Entry("loop", p).type # "pool"
    BY DEF Entry
  <2>3. QED
    BY <1>0, <2>1, <2>2
<1>2. ASSUME NEW d \in 1 .. n, d - 1 \in Good
      PROVE  d \in Good
  <2> SUFFICES ASSUME NEW p \in DOMAIN pools
               PROVE  Ordered(w[d][p], pools)
    OBVIOUS
  <2>0. d \in 0 .. n /\ d # 0 /\ d - 1 \in 0 .. n
    OBVIOUS
  <2> DEFINE low == w[d - 1]
             parts == Parts(objects, pools, p, low)
  <2>1. LevelFrom(w[d][p], objects, pools, p, low)
    BY <2>0, LevelIs
  <2>2. \A q \in DOMAIN pools : /\ Ordered(low[q], pools) /\ low[q] \in Seq(EntryRecord)
                                /\ HasName(low[q], q)
    <3> SUFFICES ASSUME NEW q \in DOMAIN pools
                 PROVE  /\ Ordered(low[q], pools) /\ low[q] \in Seq(EntryRecord)
                        /\ HasName(low[q], q)
      OBVIOUS
    <3>1. low[q] \in Seq(EntryRecord)
      BY <2>0, LevelIs
    <3>2. HasName(low[q], q)
      BY <2>0, LevelNamed
    <3>3. QED
      BY <1>2, <3>1, <3>2
  <2> HIDE DEF low
  <2>3. /\ DOMAIN parts = DOMAIN pools[p] /\ parts \in Seq(Seq(EntryRecord))
        /\ \A i \in DOMAIN pools[p] : parts[i] = EntriesOf(objects, pools, pools[p][i], low)
    BY <2>1 DEF Parts, LevelFrom
  <2> HIDE DEF parts
  <2>4. ASSUME NEW i \in DOMAIN pools[p]
        PROVE  Ordered(parts[i], pools) /\ HasName(parts[i], pools[p][i])
    <3> DEFINE x == pools[p][i]
    <3>1. parts[i] = EntriesOf(objects, pools, x, low)
      BY <2>3
    <3> HIDE DEF x
    <3>2. Entry("object", x).type # "pool" /\ Entry("unresolved", x).type # "pool"
      BY DEF Entry
    <3>3. Ordered(parts[i], pools)
      BY <1>0, <2>2, <3>1, <3>2, EntriesOfIs
    <3>4. HasName(parts[i], x)
      <4>1. x \in DOMAIN pools => HasName(low[x], x)
        BY <2>2
      <4>2. HasName(EntriesOf(objects, pools, x, low), x)
        BY <4>1, EntriesNamed
      <4>3. QED
        BY <3>1, <4>2
    <3>5. QED
      BY <3>3, <3>4 DEF x
  <2> DEFINE C == {s \in Seq(EntryRecord) : Ordered(s, pools)}
             flat == FlattenSeq(parts)
  <2>5. flat \in C
    <3>1. <<>> \in C
      BY DEF Ordered
    <3>2. \A a, b \in C : a \o b \in C
      <4> SUFFICES ASSUME NEW a \in C, NEW b \in C PROVE a \o b \in C
        OBVIOUS
      <4>1. a \o b \in Seq(EntryRecord)
        BY ConcatProperties
      <4>2. QED
        BY <4>1, OrderedConcat
    <3>3. \A i \in DOMAIN parts : parts[i] \in C
      BY <2>3, <2>4, ElementOfSeq, LenProperties
    <3> HIDE DEF C
    <3>4. C \in SUBSET Seq(EntryRecord)
      BY DEF C
    <3>5. QED
      BY <2>3, <3>1, <3>2, <3>3, <3>4, FlattenClosed
  <2>6. \A i \in DOMAIN pools[p] : HasName(flat, pools[p][i])
    <3>1. \A e : In(e, flat) <=> \E i \in DOMAIN parts : In(e, parts[i])
      BY <2>3, FlattenHas
    <3>2. QED
      BY <2>3, <2>4, <3>1 DEF HasName
  <2>7. w[d][p] = Append(flat, Entry("pool", p))
    BY <2>1 DEF LevelFrom, parts
  <2>8. p \in STRING
    BY DEF PoolsOK
  <2> HIDE DEF flat
  <2>9. QED
    BY <2>5, <2>6, <2>7, <2>8, OrderedPool
<1> HIDE DEF Good
<1>3. \A d \in 0 .. n : d \in Good
  BY <1>1, <1>2, UpTo
<1>4. QED
  BY <1>3 DEF Good

\* Two sets of objects that agree on the names met.
LEMMA LevelCongruent ==
    ASSUME NEW objects, NEW others, NEW pools, PoolsOK(pools), NEW n \in Nat,
           NEW w, Walks(w, n, objects, pools), NEW v, Walks(v, n, others, pools)
    PROVE  \A d \in 0 .. n : \A p \in DOMAIN pools :
              (\A e : In(e, w[d][p]) => (e.name \in objects <=> e.name \in others)) => v[d][p] = w[d][p]
<1> DEFINE Good == {d \in 0 .. n : \A p \in DOMAIN pools :
              (\A e : In(e, w[d][p]) => (e.name \in objects <=> e.name \in others)) => v[d][p] = w[d][p]}
<1>1. 0 \in Good
  <2> SUFFICES ASSUME NEW p \in DOMAIN pools PROVE v[0][p] = w[0][p]
    OBVIOUS
  <2>1. w[0][p] = <<Entry("loop", p)>> /\ v[0][p] = <<Entry("loop", p)>>
    BY LevelIs
  <2>2. QED
    BY <2>1
<1>2. ASSUME NEW d \in 1 .. n, d - 1 \in Good
      PROVE  d \in Good
  <2> SUFFICES ASSUME NEW p \in DOMAIN pools,
                      \A e : In(e, w[d][p]) => (e.name \in objects <=> e.name \in others)
               PROVE  v[d][p] = w[d][p]
    OBVIOUS
  <2>0. d \in 0 .. n /\ d # 0 /\ d - 1 \in 0 .. n
    OBVIOUS
  <2> DEFINE low == w[d - 1]
             vlow == v[d - 1]
  <2>1. LevelFrom(w[d][p], objects, pools, p, low) /\ LevelFrom(v[d][p], others, pools, p, vlow)
    BY <2>0, LevelIs
  <2>2. \A q \in DOMAIN pools : HasName(low[q], q)
    <3>1. ASSUME NEW q \in DOMAIN pools
          PROVE  HasName(low[q], q)
      BY <2>0, LevelNamed
    <3>2. QED
      BY <3>1
  <2>3. \A q \in DOMAIN pools :
           (\A e : In(e, low[q]) => (e.name \in objects <=> e.name \in others)) => vlow[q] = low[q]
    BY <1>2
  <2> HIDE DEF low, vlow
  <2>4. ASSUME NEW i \in DOMAIN pools[p]
        PROVE  EntriesOf(others, pools, pools[p][i], vlow) = EntriesOf(objects, pools, pools[p][i], low)
    <3> DEFINE x == pools[p][i]
    <3>1. \A e : In(e, EntriesOf(objects, pools, x, low)) => In(e, w[d][p])
      BY <2>1 DEF LevelFrom
    <3> HIDE DEF x
    <3>2. HasName(EntriesOf(objects, pools, x, low), x)
      <4>1. x \in DOMAIN pools => HasName(low[x], x)
        BY <2>2
      <4>2. QED
        BY <4>1, EntriesNamed
    <3>3. x \in objects <=> x \in others
      BY <3>1, <3>2 DEF HasName
    <3>4. x \notin objects /\ x \in DOMAIN pools => vlow[x] = low[x]
      BY <2>3, <3>1, EntriesOfIs
    <3>5. EntriesOf(others, pools, x, vlow) = EntriesOf(objects, pools, x, low)
      BY <3>3, <3>4, EntriesOfIs
    <3>6. QED
      BY <3>5 DEF x
  <2>5. Parts(others, pools, p, vlow) = Parts(objects, pools, p, low)
    BY <2>4 DEF Parts
  <2>6. QED
    BY <2>1, <2>5 DEF LevelFrom
<1> HIDE DEF Good
<1>3. \A d \in 0 .. n : d \in Good
  BY <1>1, <1>2, UpTo
<1>4. QED
  BY <1>3 DEF Good

LEMMA LoopIs ==
    ASSUME NEW entries
    PROVE  HasLoop(entries) <=> ~NoLoop(entries)
BY DEF HasLoop, NoLoop, In

LEMMA NamesAre ==
    ASSUME NEW entries \in Seq(EntryRecord), NEW type, NEW name
    PROVE  name \in NamesOf(entries, type) <=> In(Entry(type, name), entries)
<1>1. \A i \in DOMAIN entries : entries[i] \in EntryRecord
  BY ElementOfSeq, LenProperties
<1>2. \A e \in EntryRecord : e = Entry(type, name) <=> e.type = type /\ e.name = name
  BY DEF EntryRecord, Entry
<1>3. In(Entry(type, name), entries) <=> \E i \in DOMAIN entries : entries[i].type = type /\ entries[i].name = name
  BY <1>1, <1>2 DEF In
<1>4. QED
  BY <1>3 DEF NamesOf

\* What the traversal of a pool without a loop gives.
LEMMA TraversalOK ==
    ASSUME NEW objects, NEW pools, PoolsOK(pools), NEW p \in DOMAIN pools,
           NoLoop(Traversal(objects, pools)[p])
    PROVE  LET T == Traversal(objects, pools) IN
           /\ T[p] \in Seq(EntryRecord)
           /\ \A e : In(e, T[p]) <=>
                        \/ e = Entry("pool", p)
                        \/ \E i \in DOMAIN pools[p] : In(e, EntriesOf(objects, pools, pools[p][i], T))
           /\ \A e : In(e, T[p]) => Typed(e, objects, pools, p)
           /\ \A q : In(Entry("pool", q), T[p]) => q \in DOMAIN pools /\ NoLoop(T[q])
           /\ Ordered(T[p], pools)
<1> DEFINE n == Cardinality(DOMAIN pools)
           T == Traversal(objects, pools)
<1>1. n \in Nat /\ \E w : Walks(w, n, objects, pools) /\ T = w[n]
  BY TraversalIsWalk
<1>2. PICK w : Walks(w, n, objects, pools) /\ T = w[n]
  BY <1>1
<1>3. NoLoop(w[n][p])
  BY <1>2
<1>4. n \in 0 .. n
  BY <1>1
<1> HIDE DEF n, T
<1>5. /\ w[n][p] \in Seq(EntryRecord) /\ Ordered(w[n][p], pools)
      /\ \A e : In(e, w[n][p]) => Typed(e, objects, pools, p)
      /\ \A q : In(Entry("pool", q), w[n][p]) => q \in DOMAIN pools /\ NoLoop(w[n][q])
  BY <1>1, <1>2, <1>3, <1>4, LevelIs, LevelOrdered, LevelTyped, LevelNested
<1>6. n # 0
  <2> SUFFICES ASSUME n = 0 PROVE FALSE
    OBVIOUS
  <2>1. w[0][p] = <<Entry("loop", p)>>
    BY <1>1, <1>2, WalkStarts
  <2>2. w[n][p] = <<Entry("loop", p)>>
    BY <2>1
  <2>3. QED
    BY <1>3, <2>2, InOne DEF NoLoop, Entry
<1>7. n - 1 \in 0 .. n /\ n \in (n - 1) .. n
  BY <1>1, <1>6
<1> DEFINE low == w[n - 1]
<1>8. LevelFrom(w[n][p], objects, pools, p, low)
  BY <1>1, <1>2, <1>4, <1>6, LevelIs
<1>9. \A q \in DOMAIN pools : NoLoop(low[q]) => w[n][q] = low[q]
  BY <1>1, <1>2, <1>7, LevelStable
<1> HIDE DEF low
<1>10. ASSUME NEW i \in DOMAIN pools[p]
       PROVE  EntriesOf(objects, pools, pools[p][i], low) = EntriesOf(objects, pools, pools[p][i], T)
  <2> DEFINE x == pools[p][i]
  <2>1. \A e : In(e, EntriesOf(objects, pools, x, low)) => e.type # "loop"
    BY <1>3, <1>8 DEF LevelFrom, NoLoop
  <2> HIDE DEF x
  <2>2. x \notin objects /\ x \in DOMAIN pools => T[x] = low[x]
    BY <1>2, <1>9, <2>1, EntriesOfIs DEF NoLoop
  <2>3. EntriesOf(objects, pools, x, low) = EntriesOf(objects, pools, x, T)
    BY <2>2, EntriesOfIs
  <2>4. QED
    BY <2>3 DEF x
<1>11. \A e : In(e, w[n][p]) <=>
                 \/ e = Entry("pool", p)
                 \/ \E i \in DOMAIN pools[p] : In(e, EntriesOf(objects, pools, pools[p][i], T))
  BY <1>8, <1>10 DEF LevelFrom
<1>12. QED
  BY <1>2, <1>5, <1>11 DEF T

LEMMA TraversalCongruent ==
    ASSUME NEW objects, NEW others, NEW pools, PoolsOK(pools), NEW p \in DOMAIN pools,
           \A e : In(e, Traversal(objects, pools)[p]) => (e.name \in objects <=> e.name \in others)
    PROVE  Traversal(others, pools)[p] = Traversal(objects, pools)[p]
<1> DEFINE n == Cardinality(DOMAIN pools)
<1>1. n \in Nat /\ \E w : Walks(w, n, objects, pools) /\ Traversal(objects, pools) = w[n]
  BY TraversalIsWalk
<1>2. \E v : Walks(v, n, others, pools) /\ Traversal(others, pools) = v[n]
  BY TraversalIsWalk
<1>3. PICK w : Walks(w, n, objects, pools) /\ Traversal(objects, pools) = w[n]
  BY <1>1
<1>4. PICK v : Walks(v, n, others, pools) /\ Traversal(others, pools) = v[n]
  BY <1>2
<1>5. n \in 0 .. n
  BY <1>1
<1> HIDE DEF n
<1>6. (\A e : In(e, w[n][p]) => (e.name \in objects <=> e.name \in others)) => v[n][p] = w[n][p]
  BY <1>1, <1>3, <1>4, <1>5, LevelCongruent
<1>7. QED
  BY <1>3, <1>4, <1>6

(***************************************************************************)
(* The meaning of names.                                                   *)
(***************************************************************************)
\* What a name that is not a literal means.
LeafMeaning(known, kind, name) ==
    UNION {ObjectMeaning(known, kind, leaf) : leaf \in Leaves(known, kind, name) \cap KnownObjects(known, kind)}

PoolEntries(known, kind, name) == Traversal(KnownObjects(known, kind), PoolsOf(kind))[name]

UnresolvedOf(known, kind, name) ==
    {leaf \in Leaves(known, kind, name) : ~IsLiteral(kind, name) /\ ~HasObject(known, kind, leaf)}

LEMMA KnownIs ==
    ASSUME NEW known, NEW kind, NEW name
    PROVE  name \in KnownObjects(known, kind) <=> HasObject(known, kind, name)
BY DEF KnownObjects, HasObject

LEMMA ObjectMeans ==
    ASSUME NEW known, NEW kind, NEW name, HasObject(known, kind, name)
    PROVE  /\ LeafMeaning(known, kind, name) = ObjectMeaning(known, kind, name)
           /\ UnresolvedOf(known, kind, name) = {}
<1>1. Leaves(known, kind, name) = {name}
  BY DEF Leaves
<1>2. Leaves(known, kind, name) \cap KnownObjects(known, kind) = {name}
  BY <1>1, KnownIs
<1>3. UnresolvedOf(known, kind, name) = {}
  BY <1>1 DEF UnresolvedOf
<1>4. LeafMeaning(known, kind, name) = ObjectMeaning(known, kind, name)
  BY <1>2 DEF LeafMeaning
<1>5. QED
  BY <1>3, <1>4

LEMMA UnknownMeans ==
    ASSUME NEW known, NEW kind, NEW name,
           ~HasObject(known, kind, name), name \notin DOMAIN PoolsOf(kind)
    PROVE  /\ LeafMeaning(known, kind, name) = {}
           /\ UnresolvedOf(known, kind, name) = IF IsLiteral(kind, name) THEN {} ELSE {name}
<1>1. Leaves(known, kind, name) = {name}
  BY DEF Leaves
<1>2. Leaves(known, kind, name) \cap KnownObjects(known, kind) = {}
  BY <1>1, KnownIs
<1>3. QED
  BY <1>1, <1>2 DEF UnresolvedOf, LeafMeaning

\* The leaves of a pool are the entries of its traversal.
LEMMA PoolMeans ==
    ASSUME NEW known, NEW kind, PoolsOK(PoolsOf(kind)), NEW p \in DOMAIN PoolsOf(kind),
           ~HasObject(known, kind, p), NoLoop(PoolEntries(known, kind, p))
    PROVE  /\ \A v : v \in LeafMeaning(known, kind, p) <=>
                 \E leaf : /\ In(Entry("object", leaf), PoolEntries(known, kind, p))
                           /\ v \in ObjectMeaning(known, kind, leaf)
           /\ ~IsLiteral(kind, p) =>
                 UnresolvedOf(known, kind, p) = NamesOf(PoolEntries(known, kind, p), "unresolved")
<1> DEFINE objects == KnownObjects(known, kind)
           pools == PoolsOf(kind)
           entries == Traversal(objects, pools)[p]
<1>1. entries \in Seq(EntryRecord) /\ \A e : In(e, entries) => Typed(e, objects, pools, p)
  <2>1. NoLoop(entries)
    BY DEF PoolEntries
  <2> HIDE DEF objects, pools
  <2>2. PoolsOK(pools) /\ p \in DOMAIN pools
    BY DEF pools
  <2>3. QED
    BY <2>1, <2>2, TraversalOK
<1>2. Leaves(known, kind, p) = NamesOf(entries, "object") \cup NamesOf(entries, "unresolved")
  BY DEF Leaves
<1>3. PoolEntries(known, kind, p) = entries
  BY DEF PoolEntries
<1> HIDE DEF entries
<1>4. \A name : /\ name \in NamesOf(entries, "object") <=> In(Entry("object", name), entries)
                /\ name \in NamesOf(entries, "unresolved") <=> In(Entry("unresolved", name), entries)
  <2> SUFFICES ASSUME NEW name
               PROVE  /\ name \in NamesOf(entries, "object") <=> In(Entry("object", name), entries)
                      /\ name \in NamesOf(entries, "unresolved") <=> In(Entry("unresolved", name), entries)
    OBVIOUS
  <2>1. name \in NamesOf(entries, "object") <=> In(Entry("object", name), entries)
    BY <1>1, NamesAre
  <2>2. name \in NamesOf(entries, "unresolved") <=> In(Entry("unresolved", name), entries)
    BY <1>1, NamesAre
  <2>3. QED
    BY <2>1, <2>2
<1>a. \A type, name : Entry(type, name).type = type /\ Entry(type, name).name = name
  BY DEF Entry
<1>5. \A name : name \in NamesOf(entries, "object") => name \in objects
  BY <1>1, <1>4, <1>a DEF Typed
<1>6. \A name : name \in NamesOf(entries, "unresolved") => name \notin objects
  BY <1>1, <1>4, <1>a DEF Typed
<1> HIDE DEF objects, pools
<1>7. Leaves(known, kind, p) \cap objects = NamesOf(entries, "object")
  BY <1>2, <1>5, <1>6
<1>8. \A v : v \in LeafMeaning(known, kind, p) <=>
                 \E leaf \in NamesOf(entries, "object") : v \in ObjectMeaning(known, kind, leaf)
  BY <1>7 DEF LeafMeaning, objects
<1>9. \A name : HasObject(known, kind, name) <=> name \in objects
  BY KnownIs DEF objects
<1>10. ~IsLiteral(kind, p) => UnresolvedOf(known, kind, p) = NamesOf(entries, "unresolved")
  BY <1>2, <1>5, <1>6, <1>9 DEF UnresolvedOf
<1>11. QED
  BY <1>3, <1>4, <1>8, <1>10

\* A pool means what its members mean.
LEMMA PoolIsMembers ==
    ASSUME NEW known, NEW kind, PoolsOK(PoolsOf(kind)), NEW p \in DOMAIN PoolsOf(kind),
           ~HasObject(known, kind, p), NoLoop(PoolEntries(known, kind, p))
    PROVE  LeafMeaning(known, kind, p) =
              UNION {LeafMeaning(known, kind, member) : member \in Range(PoolsOf(kind)[p])}
<1> DEFINE objects == KnownObjects(known, kind)
           pools == PoolsOf(kind)
           T == Traversal(objects, pools)
<1>1. \A name : PoolEntries(known, kind, name) = T[name]
  BY DEF PoolEntries
<1>2. \A e : In(e, T[p]) <=>
                 \/ e = Entry("pool", p)
                 \/ \E i \in DOMAIN pools[p] : In(e, EntriesOf(objects, pools, pools[p][i], T))
  <2>1. NoLoop(T[p])
    BY <1>1
  <2> HIDE DEF objects, pools
  <2>2. PoolsOK(pools) /\ p \in DOMAIN pools
    BY DEF pools
  <2>3. QED
    BY <2>1, <2>2, TraversalOK
<1>a. \A type, name : Entry(type, name).type = type /\ Entry(type, name).name = name
  BY DEF Entry
<1>3. \A name : name \in objects <=> HasObject(known, kind, name)
  BY KnownIs
<1>4. PoolsOK(pools) /\ pools = PoolsOf(kind)
  OBVIOUS
<1>5. \A v : v \in LeafMeaning(known, kind, p) <=>
                 \E leaf : In(Entry("object", leaf), T[p]) /\ v \in ObjectMeaning(known, kind, leaf)
  BY <1>1, PoolMeans
<1> HIDE DEF objects, pools, T
<1>6. ASSUME NEW i \in DOMAIN pools[p], NEW v
      PROVE  v \in LeafMeaning(known, kind, pools[p][i]) <=>
                \E leaf : /\ In(Entry("object", leaf), EntriesOf(objects, pools, pools[p][i], T))
                          /\ v \in ObjectMeaning(known, kind, leaf)
  <2> DEFINE x == pools[p][i]
  <2>0. \A e : In(e, EntriesOf(objects, pools, x, T)) => In(e, T[p])
    BY <1>2
  <2> HIDE DEF x
  <2> SUFFICES v \in LeafMeaning(known, kind, x) <=>
                \E leaf : /\ In(Entry("object", leaf), EntriesOf(objects, pools, x, T))
                          /\ v \in ObjectMeaning(known, kind, leaf)
    BY DEF x
  <2>1. CASE x \in objects
    <3>1. EntriesOf(objects, pools, x, T) = <<Entry("object", x)>>
      BY <2>1, EntriesOfIs
    <3>2. \A leaf : In(Entry("object", leaf), EntriesOf(objects, pools, x, T)) <=> leaf = x
      <4>1. \A leaf : In(Entry("object", leaf), <<Entry("object", x)>>) <=> Entry("object", leaf) = Entry("object", x)
        BY InOne
      <4>2. QED
        BY <1>a, <3>1, <4>1
    <3>3. LeafMeaning(known, kind, x) = ObjectMeaning(known, kind, x)
      BY <1>3, <2>1, ObjectMeans
    <3>4. QED
      BY <3>2, <3>3
  <2>2. CASE x \notin objects /\ x \in DOMAIN pools
    <3>1. EntriesOf(objects, pools, x, T) = T[x]
      BY <2>2, EntriesOfIs
    <3>2. NoLoop(T[x])
      BY <1>1, <2>0, <3>1 DEF NoLoop
    <3>3. QED
      BY <1>1, <1>3, <1>4, <2>2, <3>1, <3>2, PoolMeans
  <2>3. CASE x \notin objects /\ x \notin DOMAIN pools
    <3>1. EntriesOf(objects, pools, x, T) = <<Entry("unresolved", x)>>
      BY <2>3, EntriesOfIs
    <3>2. \A leaf : ~In(Entry("object", leaf), EntriesOf(objects, pools, x, T))
      <4>1. \A leaf : In(Entry("object", leaf), <<Entry("unresolved", x)>>) <=> Entry("object", leaf) = Entry("unresolved", x)
        BY InOne
      <4>2. QED
        BY <1>a, <3>1, <4>1
    <3>3. LeafMeaning(known, kind, x) = {}
      BY <1>3, <1>4, <2>3, UnknownMeans
    <3>4. QED
      BY <3>2, <3>3
  <2>4. QED
    BY <2>1, <2>2, <2>3
<1>7. \A leaf : In(Entry("object", leaf), T[p]) <=>
                  \E i \in DOMAIN pools[p] : In(Entry("object", leaf), EntriesOf(objects, pools, pools[p][i], T))
  BY <1>2, <1>a
<1>8. \A v : v \in LeafMeaning(known, kind, p) <=> \E i \in DOMAIN pools[p] : v \in LeafMeaning(known, kind, pools[p][i])
  BY <1>5, <1>6, <1>7
<1>9. Range(pools[p]) = {pools[p][i] : i \in DOMAIN pools[p]}
  BY DEF Range
<1>10. QED
  BY <1>4, <1>8, <1>9

(***************************************************************************)
(* What the caches have to hold.                                           *)
(***************************************************************************)
StoreTrue(st) ==
    \A kind \in ObjectKind :
       /\ \A name \in DOMAIN st[kind].objects :
             LET object == st[kind].objects[name] IN
             /\ Range(object.values) # {}
             /\ object.fqdn => kind = "address" /\ object.values[1] \in Hosts
       /\ kind # "address" => st[kind].objects["any"] = Object(<<"any">>)

Fair == StoreOK(store) /\ StoreTrue(store) /\ ~CachesCanDiffer

\* What is known goes beyond what a build knows.
Agrees(known, b) ==
    /\ \A host \in DOMAIN b.resolver.memory :
          host \in DOMAIN known.hosts /\ known.hosts[host] = b.resolver.memory[host]
    /\ \A gen \in Generator : \A name \in DOMAIN b.network.gen[gen].ids :
          name \in DOMAIN known.ids[gen] /\ known.ids[gen][name] = b.network.gen[gen].ids[name]

FilteredTrue(r) ==
    \A host \in DOMAIN r.filtered :
       LET object == r.filtered[host] IN
       /\ host \in DOMAIN r.memory /\ object.addresses = r.memory[host] \cap UsableAddress
       /\ IsFqdn("src", object.name) /\ HostOf("src", object.name) = host

Many(known, kind, name) ==
    kind \in {"src", "dst", "svc"} /\ Cardinality(ObjectMeaning(known, kind, name)) > 1

ZoneKind == {"src_zone", "dst_zone"}

\* A cached object is a zone, a literal, or an object of the store.
ObjectTrue(known, kind, name, values) ==
    CASE kind \in ZoneKind -> values = IdMeaning(known, kind, name)
      [] kind \notin ZoneKind /\ IsLiteral(kind, name) -> values = LiteralMeaning(known, kind, name)
      [] OTHER -> /\ HasObject(known, kind, name) /\ ~Many(known, kind, name)
                  /\ values = ObjectMeaning(known, kind, name)

CachesTrue(known, nw) ==
    \A kind \in CacheKind :
       /\ \A name \in DOMAIN nw.cache[kind].objects :
             ObjectTrue(known, kind, name, nw.cache[kind].objects[name])
       /\ \A name \in DOMAIN nw.cache[kind].groups :
             nw.cache[kind].groups[name] = LeafMeaning(known, kind, name)

Truthful(b) ==
    /\ FilteredTrue(b.resolver)
    /\ \A kind \in CacheKind : "any" \in DOMAIN b.network.cache[kind].objects
    /\ \A known : Agrees(known, b) => CachesTrue(known, b.network)

\* Nothing is lost while a row is built.
Grows(b, c) ==
    /\ KnownTo(b.resolver, c.resolver)
    /\ \A host \in DOMAIN b.resolver.filtered :
          host \in DOMAIN c.resolver.filtered /\ c.resolver.filtered[host] = b.resolver.filtered[host]
    /\ \A gen \in Generator : \A name \in DOMAIN b.network.gen[gen].ids :
          /\ name \in DOMAIN c.network.gen[gen].ids
          /\ c.network.gen[gen].ids[name] = b.network.gen[gen].ids[name]
    /\ \A kind \in CacheKind :
          /\ DOMAIN b.network.cache[kind].objects \subseteq DOMAIN c.network.cache[kind].objects
          /\ DOMAIN b.network.cache[kind].groups \subseteq DOMAIN c.network.cache[kind].groups
    /\ b.failing => c.failing
    /\ b.thrown => c.thrown

Builds(b, c) == Grows(b, c) /\ (Truthful(b) /\ ~c.failing => Truthful(c))

LEMMA GrowsAgain ==
    ASSUME NEW b, NEW c, NEW d, Grows(b, c), Grows(c, d)
    PROVE  Grows(b, d)
BY KnownTransitive DEF Grows

LEMMA BuildsAgain ==
    ASSUME NEW b, NEW c, NEW d, Builds(b, c), Builds(c, d)
    PROVE  Builds(b, d)
<1>1. Grows(b, d)
  BY GrowsAgain DEF Builds
<1>2. d.failing = FALSE \/ d.failing # FALSE
  OBVIOUS
<1>3. ~d.failing => ~c.failing
  BY DEF Builds, Grows
<1>4. QED
  BY <1>1, <1>3 DEF Builds

LEMMA BuildsSelf ==
    ASSUME NEW b
    PROVE  Builds(b, b)
BY DEF Builds, Grows, KnownTo

LEMMA AgreesBefore ==
    ASSUME NEW b, NEW c, Grows(b, c), NEW known, Agrees(known, c)
    PROVE  Agrees(known, b)
BY DEF Grows, Agrees, KnownTo

\* A build that keeps the resolver and the network.
LEMMA SameCaches ==
    ASSUME NEW b, NEW c, c.resolver = b.resolver, c.network = b.network,
           b.failing => c.failing, b.thrown => c.thrown
    PROVE  Builds(b, c)
BY DEF Builds, Grows, KnownTo, Truthful, Agrees

(***************************************************************************)
(* One more entry of a cache.                                              *)
(***************************************************************************)
ObjectCached(nw, after, kind, name, values) ==
    /\ \A k \in CacheKind : after.cache[k].groups = nw.cache[k].groups
    /\ \A k \in CacheKind \ {kind} : after.cache[k].objects = nw.cache[k].objects
    /\ after.cache[kind].objects = Put(nw.cache[kind].objects, name, values)

GroupCached(nw, after, kind, name, values) ==
    /\ \A k \in CacheKind : after.cache[k].objects = nw.cache[k].objects
    /\ \A k \in CacheKind \ {kind} : after.cache[k].groups = nw.cache[k].groups
    /\ after.cache[kind].groups = Put(nw.cache[kind].groups, name, values)

LEMMA ObjectPutIs ==
    ASSUME NEW nw, NetworkOK(nw), NEW kind \in CacheKind, NEW name, NEW values
    PROVE  LET after == [nw EXCEPT !.cache[kind].objects = Put(@, name, values)] IN
           after.gen = nw.gen /\ ObjectCached(nw, after, kind, name, values)
<1> DEFINE put == Put(nw.cache[kind].objects, name, values)
           after == [nw EXCEPT !.cache[kind].objects = put]
<1>1. /\ nw = [cache |-> nw.cache, gen |-> nw.gen]
      /\ nw.cache = [k \in CacheKind |-> [objects |-> nw.cache[k].objects, groups |-> nw.cache[k].groups]]
  BY DEF NetworkOK
<1>2. after.gen = nw.gen
  BY <1>1
<1>3. after.cache = [nw.cache EXCEPT ![kind] = [nw.cache[kind] EXCEPT !.objects = put]]
  BY <1>1
<1>4. \A k \in CacheKind : nw.cache[k] = [objects |-> nw.cache[k].objects, groups |-> nw.cache[k].groups]
  BY <1>1
<1> HIDE DEF after, put
<1>5. \A k \in CacheKind : after.cache[k].groups = nw.cache[k].groups
  BY <1>1, <1>3, <1>4
<1>6. \A k \in CacheKind : after.cache[k].objects = IF k = kind THEN put ELSE nw.cache[k].objects
  BY <1>1, <1>3, <1>4
<1>7. ObjectCached(nw, after, kind, name, values)
  BY <1>5, <1>6 DEF ObjectCached, put
<1>8. QED
  BY <1>2, <1>7 DEF after, put

LEMMA GroupPutIs ==
    ASSUME NEW nw, NetworkOK(nw), NEW kind \in CacheKind, NEW name, NEW values
    PROVE  LET after == [nw EXCEPT !.cache[kind].groups = Put(@, name, values)] IN
           after.gen = nw.gen /\ GroupCached(nw, after, kind, name, values)
<1> DEFINE put == Put(nw.cache[kind].groups, name, values)
           after == [nw EXCEPT !.cache[kind].groups = put]
<1>1. /\ nw = [cache |-> nw.cache, gen |-> nw.gen]
      /\ nw.cache = [k \in CacheKind |-> [objects |-> nw.cache[k].objects, groups |-> nw.cache[k].groups]]
  BY DEF NetworkOK
<1>2. after.gen = nw.gen
  BY <1>1
<1>3. after.cache = [nw.cache EXCEPT ![kind] = [nw.cache[kind] EXCEPT !.groups = put]]
  BY <1>1
<1>4. \A k \in CacheKind : nw.cache[k] = [objects |-> nw.cache[k].objects, groups |-> nw.cache[k].groups]
  BY <1>1
<1> HIDE DEF after, put
<1>5. \A k \in CacheKind : after.cache[k].objects = nw.cache[k].objects
  BY <1>1, <1>3, <1>4
<1>6. \A k \in CacheKind : after.cache[k].groups = IF k = kind THEN put ELSE nw.cache[k].groups
  BY <1>1, <1>3, <1>4
<1>7. GroupCached(nw, after, kind, name, values)
  BY <1>5, <1>6 DEF GroupCached, put
<1>8. QED
  BY <1>2, <1>7 DEF after, put

\* What is known of the numbers, not of the caches, tells what is known.
IdsKept(nw, after) ==
    \A gen \in Generator : \A name \in DOMAIN nw.gen[gen].ids :
       /\ name \in DOMAIN after.gen[gen].ids
       /\ after.gen[gen].ids[name] = nw.gen[gen].ids[name]

\* A step of a build that started with `start'.
BuildsFrom(start, b, c) ==
    Grows(b, c) /\ (Truthful(start) /\ Truthful(b) /\ ~c.failing => Truthful(c))

LEMMA BuildsFromSelf ==
    ASSUME NEW b, NEW c
    PROVE  BuildsFrom(b, b, c) <=> Builds(b, c)
BY DEF BuildsFrom, Builds

LEMMA BuildsFurther ==
    ASSUME NEW start, NEW b, NEW c, Builds(start, b), BuildsFrom(start, b, c)
    PROVE  Builds(start, c)
<1>1. Grows(start, c) /\ (~c.failing => ~b.failing)
  BY GrowsAgain DEF Builds, BuildsFrom, Grows
<1>2. QED
  BY <1>1 DEF Builds, BuildsFrom

LEMMA BuildsObject ==
    ASSUME NEW start, NEW b, NEW c, c.resolver = b.resolver, b.failing => c.failing, b.thrown => c.thrown,
           IdsKept(b.network, c.network), NEW kind \in CacheKind, NEW name, NEW values,
           name \notin DOMAIN b.network.cache[kind].objects,
           ObjectCached(b.network, c.network, kind, name, values),
           Truthful(start) /\ Truthful(b) /\ ~c.failing => \A known : Agrees(known, c) => ObjectTrue(known, kind, name, values)
    PROVE  BuildsFrom(start, b, c) /\ name \in DOMAIN c.network.cache[kind].objects
<1> DEFINE old == b.network.cache
           new == c.network.cache
<1>1. /\ DOMAIN new[kind].objects = DOMAIN old[kind].objects \cup {name}
      /\ new[kind].objects[name] = values
      /\ \A n \in DOMAIN old[kind].objects : new[kind].objects[n] = old[kind].objects[n]
  <2> DEFINE map == b.network.cache[kind].objects
  <2>1. new[kind].objects = Put(map, name, values)
    BY DEF ObjectCached
  <2>2. name \notin DOMAIN map
    OBVIOUS
  <2> HIDE DEF map
  <2>3. /\ DOMAIN Put(map, name, values) = DOMAIN map \cup {name}
        /\ Put(map, name, values)[name] = values
        /\ \A n \in DOMAIN map : Put(map, name, values)[n] = map[n]
    BY <2>2, Zenon DEF Put
  <2>4. QED
    BY <2>1, <2>3 DEF map
<1>2. \A k \in CacheKind : new[k].groups = old[k].groups /\ (k # kind => new[k].objects = old[k].objects)
  BY DEF ObjectCached
<1> HIDE DEF old, new
<1>3. Grows(b, c)
  <2>1. \A k \in CacheKind : DOMAIN old[k].objects \subseteq DOMAIN new[k].objects
    BY <1>1, <1>2
  <2>2. QED
    BY <1>2, <2>1 DEF Grows, KnownTo, IdsKept, old, new
<1>4. ASSUME Truthful(start), Truthful(b), ~c.failing, NEW known, Agrees(known, c)
      PROVE  CachesTrue(known, c.network)
  <2>1. CachesTrue(known, b.network)
    BY <1>3, <1>4, AgreesBefore DEF Truthful
  <2>2. ASSUME NEW k \in CacheKind, NEW n \in DOMAIN new[k].objects
        PROVE  ObjectTrue(known, k, n, new[k].objects[n])
    <3>1. CASE k = kind /\ n = name
      BY <1>1, <1>4, <3>1
    <3>2. CASE ~(k = kind /\ n = name)
      <4>1. n \in DOMAIN old[k].objects /\ new[k].objects[n] = old[k].objects[n]
        BY <1>1, <1>2, <3>2
      <4>2. QED
        BY <2>1, <4>1 DEF CachesTrue, old
    <3>3. QED
      BY <3>1, <3>2
  <2>3. \A k \in CacheKind : \A n \in DOMAIN new[k].groups : new[k].groups[n] = LeafMeaning(known, k, n)
    BY <1>2, <2>1 DEF CachesTrue, old
  <2>4. QED
    BY <2>2, <2>3 DEF CachesTrue, new
<1>5. \A k \in CacheKind : "any" \in DOMAIN old[k].objects => "any" \in DOMAIN new[k].objects
  BY <1>1, <1>2
<1>6. Truthful(start) /\ Truthful(b) /\ ~c.failing => Truthful(c)
  BY <1>4, <1>5 DEF Truthful, old, new
<1>7. QED
  BY <1>1, <1>3, <1>6 DEF BuildsFrom, new

LEMMA BuildsGroup ==
    ASSUME NEW start, NEW b, NEW c, c.resolver = b.resolver, b.failing => c.failing, b.thrown => c.thrown,
           IdsKept(b.network, c.network), NEW kind \in CacheKind, NEW name, NEW values,
           name \notin DOMAIN b.network.cache[kind].groups,
           GroupCached(b.network, c.network, kind, name, values),
           Truthful(start) /\ Truthful(b) /\ ~c.failing => \A known : Agrees(known, c) => values = LeafMeaning(known, kind, name)
    PROVE  BuildsFrom(start, b, c) /\ name \in DOMAIN c.network.cache[kind].groups
<1> DEFINE old == b.network.cache
           new == c.network.cache
<1>1. /\ DOMAIN new[kind].groups = DOMAIN old[kind].groups \cup {name}
      /\ new[kind].groups[name] = values
      /\ \A n \in DOMAIN old[kind].groups : new[kind].groups[n] = old[kind].groups[n]
  <2> DEFINE map == b.network.cache[kind].groups
  <2>1. new[kind].groups = Put(map, name, values)
    BY DEF GroupCached
  <2>2. name \notin DOMAIN map
    OBVIOUS
  <2> HIDE DEF map
  <2>3. /\ DOMAIN Put(map, name, values) = DOMAIN map \cup {name}
        /\ Put(map, name, values)[name] = values
        /\ \A n \in DOMAIN map : Put(map, name, values)[n] = map[n]
    BY <2>2, Zenon DEF Put
  <2>4. QED
    BY <2>1, <2>3 DEF map
<1>2. \A k \in CacheKind : new[k].objects = old[k].objects /\ (k # kind => new[k].groups = old[k].groups)
  BY DEF GroupCached
<1> HIDE DEF old, new
<1>3. Grows(b, c)
  <2>1. \A k \in CacheKind : DOMAIN old[k].groups \subseteq DOMAIN new[k].groups
    BY <1>1, <1>2
  <2>2. QED
    BY <1>2, <2>1 DEF Grows, KnownTo, IdsKept, old, new
<1>4. ASSUME Truthful(start), Truthful(b), ~c.failing, NEW known, Agrees(known, c)
      PROVE  CachesTrue(known, c.network)
  <2>1. CachesTrue(known, b.network)
    BY <1>3, <1>4, AgreesBefore DEF Truthful
  <2>2. ASSUME NEW k \in CacheKind, NEW n \in DOMAIN new[k].groups
        PROVE  new[k].groups[n] = LeafMeaning(known, k, n)
    <3>1. CASE k = kind /\ n = name
      BY <1>1, <1>4, <3>1
    <3>2. CASE ~(k = kind /\ n = name)
      <4>1. n \in DOMAIN old[k].groups /\ new[k].groups[n] = old[k].groups[n]
        BY <1>1, <1>2, <3>2
      <4>2. QED
        BY <2>1, <4>1 DEF CachesTrue, old
    <3>3. QED
      BY <3>1, <3>2
  <2>3. \A k \in CacheKind : \A n \in DOMAIN new[k].objects : ObjectTrue(known, k, n, new[k].objects[n])
    BY <1>2, <2>1 DEF CachesTrue, old
  <2>4. QED
    BY <2>2, <2>3 DEF CachesTrue, new
<1>5. \A k \in CacheKind : "any" \in DOMAIN old[k].objects => "any" \in DOMAIN new[k].objects
  BY <1>2
<1>6. Truthful(start) /\ Truthful(b) /\ ~c.failing => Truthful(c)
  BY <1>4, <1>5 DEF Truthful, old, new
<1>7. QED
  BY <1>1, <1>3, <1>6 DEF BuildsFrom, new

\* A name is registered in the part of a cache where it is looked up.
PartOf(many) == IF many THEN "groups" ELSE "objects"

\* A build that has registered a name, and done nothing else.
Registers(start, b, c, kind, part, name) ==
    /\ BuildsFrom(start, b, c)
    /\ c.resolver = b.resolver /\ c.failing = b.failing
    /\ c.groups = b.groups /\ c.unresolved = b.unresolved
    /\ ~c.thrown => ~b.thrown /\ name \in DOMAIN c.network.cache[kind][part]

LEMMA RegistersObject ==
    ASSUME NEW first, NEW start, NEW b, Sound(first, b), ~b.thrown, NEW kind \in CacheKind, NEW name, NEW values,
           Truthful(start) /\ Truthful(b) /\ ~b.failing => \A known : Agrees(known, b) => ObjectTrue(known, kind, name, values)
    PROVE  Registers(start, b, [b EXCEPT !.network = CacheObject(b.network, kind, name, values)], kind, "objects", name)
<1> DEFINE nw == CacheObject(b.network, kind, name, values)
           c == [b EXCEPT !.network = nw]
<1>1. /\ c.network = nw /\ c.resolver = b.resolver /\ c.failing = b.failing /\ c.groups = b.groups
      /\ c.unresolved = b.unresolved /\ c.thrown = b.thrown
  <2> HIDE DEF nw
  <2>1. QED
    BY SoundParts
<1>2. CASE name \in DOMAIN b.network.cache[kind].objects
  <2>1. nw = b.network
    BY <1>2 DEF CacheObject
  <2> HIDE DEF c, nw
  <2>2. BuildsFrom(start, b, c)
    BY <1>1, <2>1, SameCaches DEF Builds, BuildsFrom
  <2>3. c.network.cache[kind]["objects"] = b.network.cache[kind].objects
    BY <1>1, <2>1
  <2>4. QED
    BY <1>1, <1>2, <2>2, <2>3 DEF Registers, c, nw
<1>3. CASE name \notin DOMAIN b.network.cache[kind].objects
  <2>1. nw = [b.network EXCEPT !.cache[kind].objects = Put(@, name, values)]
    BY <1>3 DEF CacheObject
  <2>2. nw.gen = b.network.gen /\ ObjectCached(b.network, nw, kind, name, values)
    BY <2>1, ObjectPutIs DEF Sound
  <2> HIDE DEF c, nw
  <2>3. IdsKept(b.network, c.network)
    BY <1>1, <2>2 DEF IdsKept
  <2>4. \A known : Agrees(known, c) => Agrees(known, b)
    BY <1>1, <2>2 DEF Agrees
  <2>5. BuildsFrom(start, b, c) /\ name \in DOMAIN c.network.cache[kind].objects
    BY <1>1, <1>3, <2>2, <2>3, <2>4, BuildsObject
  <2>6. QED
    BY <1>1, <2>5 DEF Registers, c, nw
<1>4. QED
  BY <1>2, <1>3

LEMMA RegistersGroup ==
    ASSUME NEW first, NEW start, NEW b, Sound(first, b), ~b.thrown, NEW kind \in CacheKind, NEW name, NEW values,
           Truthful(start) /\ Truthful(b) /\ ~b.failing => \A known : Agrees(known, b) => values = LeafMeaning(known, kind, name)
    PROVE  Registers(start, b, [b EXCEPT !.network = CacheMulti(b.network, kind, name, values)], kind, "groups", name)
<1> DEFINE nw == CacheMulti(b.network, kind, name, values)
           c == [b EXCEPT !.network = nw]
<1>1. /\ c.network = nw /\ c.resolver = b.resolver /\ c.failing = b.failing /\ c.groups = b.groups
      /\ c.unresolved = b.unresolved /\ c.thrown = b.thrown
  <2> HIDE DEF nw
  <2>1. QED
    BY SoundParts
<1>2. CASE name \in DOMAIN b.network.cache[kind].groups
  <2>1. nw = b.network
    BY <1>2 DEF CacheMulti
  <2> HIDE DEF c, nw
  <2>2. BuildsFrom(start, b, c)
    BY <1>1, <2>1, SameCaches DEF Builds, BuildsFrom
  <2>3. c.network.cache[kind]["groups"] = b.network.cache[kind].groups
    BY <1>1, <2>1
  <2>4. QED
    BY <1>1, <1>2, <2>2, <2>3 DEF Registers, c, nw
<1>3. CASE name \notin DOMAIN b.network.cache[kind].groups
  <2>1. nw = [b.network EXCEPT !.cache[kind].groups = Put(@, name, values)]
    BY <1>3 DEF CacheMulti
  <2>2. nw.gen = b.network.gen /\ GroupCached(b.network, nw, kind, name, values)
    BY <2>1, GroupPutIs DEF Sound
  <2> HIDE DEF c, nw
  <2>3. IdsKept(b.network, c.network)
    BY <1>1, <2>2 DEF IdsKept
  <2>4. \A known : Agrees(known, c) => Agrees(known, b)
    BY <1>1, <2>2 DEF Agrees
  <2>a. Truthful(start) /\ Truthful(b) /\ ~c.failing =>
           \A known : Agrees(known, c) => values = LeafMeaning(known, kind, name)
    BY <1>1, <2>4
  <2>5. BuildsFrom(start, b, c) /\ name \in DOMAIN c.network.cache[kind].groups
    <3>1. c.resolver = b.resolver /\ (b.failing => c.failing) /\ (b.thrown => c.thrown)
      BY <1>1
    <3>2. GroupCached(b.network, c.network, kind, name, values)
      BY <1>1, <2>2
    <3> HIDE DEF c
    <3>3. QED
      BY <1>3, <2>3, <2>a, <3>1, <3>2, BuildsGroup
  <2>6. QED
    BY <1>1, <2>5 DEF Registers, c, nw
<1>4. QED
  BY <1>2, <1>3

\* What is registered under a number is true if it is what the number stands for.
NumberedTrue(known, kind, name, services) ==
    \A id : IdMeaning(known, kind, name) = {id} =>
               ObjectTrue(known, kind, name, {NumberedValue(kind, id, services)})

LEMMA RegistersNumbered ==
    ASSUME NEW first, NEW start, NEW b, Sound(first, b), ~b.thrown, NEW kind \in NumberedKind, NEW name, NEW services,
           Truthful(start) /\ Truthful(b) /\ ~b.failing => \A known : Agrees(known, b) => NumberedTrue(known, kind, name, services)
    PROVE  Registers(start, b, RegisterWithId(b, kind, name, services), kind, "objects", name)
<1> DEFINE g == GeneratorOf(kind)
           gen == b.network.gen[g]
           next == GetId(gen, name)
           nw == [b.network EXCEPT !.gen[g] = next]
           c == RegisterWithId(b, kind, name, services)
<1>0. NetworkOK(b.network) /\ g \in Generator /\ kind \in CacheKind
  BY SoundParts, GeneratorsOfKinds DEF NumberedKind
<1>1. CASE name \in DOMAIN b.network.cache[kind].objects
  <2>1. c = b
    BY <1>1 DEF RegisterWithId
  <2> HIDE DEF c
  <2>2. BuildsFrom(start, b, c)
    BY <2>1, BuildsSelf DEF Builds, BuildsFrom
  <2>3. QED
    BY <1>1, <2>1, <2>2 DEF Registers, c
<1>2. CASE name \notin DOMAIN b.network.cache[kind].objects
  <2>2. /\ GeneratorOK(next)
        /\ \A n \in DOMAIN gen.ids : n \in DOMAIN next.ids /\ next.ids[n] = gen.ids[n]
        /\ ~Overflows(gen, name) => name \in DOMAIN next.ids
    BY <1>0, GetIdKeeps DEF NetworkOK
  <2>3. c = RegisterNumbered(b, kind, name, services, gen, next)
    BY <1>2 DEF RegisterWithId
  <2> HIDE DEF next, c
  <2>4. NetworkOK(nw) /\ nw.cache = b.network.cache /\ nw.gen[g] = next
    BY <1>0, <2>2, GeneratorPut
  <2>5. \A h \in Generator : h # g => nw.gen[h] = b.network.gen[h]
    BY <1>0 DEF NetworkOK
  <2> HIDE DEF nw, g
  <2>6. IdsKept(b.network, nw)
    BY <1>0, <2>2, <2>4, <2>5 DEF IdsKept
  <2>7. CASE Overflows(gen, name)
    <3>1. c = [b EXCEPT !.network = nw, !.thrown = TRUE]
      <4>1. c = [b EXCEPT !.network.gen[g] = next, !.thrown = TRUE]
        BY <2>3, <2>7 DEF RegisterNumbered, g
      <4>2. QED
        BY <4>1, SoundParts DEF nw
    <3>2. /\ c.network = nw /\ c.resolver = b.resolver /\ c.failing = b.failing /\ c.groups = b.groups
          /\ c.unresolved = b.unresolved /\ c.thrown = TRUE
      BY <3>1, SoundParts
    <3>3. Grows(b, c)
      BY <2>4, <2>6, <3>2 DEF Grows, KnownTo, IdsKept
    <3>4. Truthful(b) => Truthful(c)
      BY <2>4, <3>2, <3>3, AgreesBefore DEF Truthful, CachesTrue
    <3>5. QED
      BY <3>2, <3>3, <3>4 DEF Registers, BuildsFrom, c
  <2>8. CASE ~Overflows(gen, name)
    <3> DEFINE id == next.ids[name]
               value == NumberedValue(kind, id, services)
               registered == CacheObject(nw, kind, name, {value})
    <3>1. c = [b EXCEPT !.network = registered]
      BY <2>3, <2>8 DEF RegisterNumbered, nw, g
    <3>2. registered = [nw EXCEPT !.cache[kind].objects = Put(@, name, {value})]
      BY <1>2, <2>4 DEF CacheObject
    <3> HIDE DEF registered
    <3>3. /\ c.network = registered /\ c.resolver = b.resolver /\ c.failing = b.failing
          /\ c.groups = b.groups /\ c.unresolved = b.unresolved /\ c.thrown = b.thrown
      BY <3>1, SoundParts
    <3> HIDE DEF value
    <3>4. registered.gen = nw.gen /\ ObjectCached(nw, registered, kind, name, {value})
      BY <1>0, <2>4, <3>2, ObjectPutIs
    <3>5. IdsKept(b.network, c.network) /\ ObjectCached(b.network, c.network, kind, name, {value})
      BY <2>4, <2>6, <3>3, <3>4 DEF IdsKept, ObjectCached
    <3>6. ASSUME Truthful(start), Truthful(b), ~b.failing, NEW known, Agrees(known, c)
          PROVE  ObjectTrue(known, kind, name, {value})
      <4>1. name # "any"
        BY <1>0, <1>2, <3>6 DEF Truthful
      <4>2. c.network.gen[g].ids = next.ids
        BY <2>4, <3>3, <3>4
      <4>3. name \in DOMAIN known.ids[g] /\ known.ids[g][name] = id
        BY <1>0, <2>2, <2>8, <3>6, <4>2 DEF Agrees
      <4>4. IdMeaning(known, kind, name) = {id}
        BY <4>1, <4>3 DEF IdMeaning, g
      <4>5. Agrees(known, b)
        BY <3>3, <3>5, <3>6 DEF Agrees, IdsKept
      <4>6. QED
        BY <3>6, <4>4, <4>5 DEF NumberedTrue, value
    <3>7. BuildsFrom(start, b, c) /\ name \in DOMAIN c.network.cache[kind].objects
      BY <1>0, <1>2, <3>3, <3>5, <3>6, BuildsObject
    <3>8. QED
      BY <3>3, <3>7 DEF Registers, c
  <2>9. QED
    BY <2>7, <2>8
<1>3. QED
  BY <1>1, <1>2

(***************************************************************************)
(* Host names.                                                             *)
(***************************************************************************)
\* What is learnt of a host is what is answered.
Hears(b, c, answers) ==
    \A host \in DOMAIN c.resolver.memory :
       \/ host \in DOMAIN b.resolver.memory
       \/ ~IsFailure(answers[host]) /\ c.resolver.memory[host] = answers[host].found

\* The host of a name has been looked up.
IsResolved(b, kind, name) == IsFqdn(kind, name) => HostOf(kind, name) \in DOMAIN b.resolver.filtered

LEMMA RecordGives ==
    ASSUME NEW r, ResolverOK(r), NEW host, NEW answer
    PROVE  LET s == RecordAnswer(r, host, answer) IN
           /\ s.filtered = r.filtered
           /\ \A h \in DOMAIN s.memory : h \in DOMAIN r.memory \/ (h = host /\ ~IsFailure(answer) /\ s.memory[h] = answer.found)
           /\ host \in DOMAIN s.memory \/ (host \notin DOMAIN r.memory /\ IsFailure(answer))
<1> DEFINE s == RecordAnswer(r, host, answer)
<1>1. CASE host \in DOMAIN r.memory \/ IsFailure(answer)
  BY <1>1 DEF RecordAnswer
<1>2. CASE ~(host \in DOMAIN r.memory \/ IsFailure(answer))
  <2> DEFINE found == answer.found
  <2>1. s = [memory |-> Put(r.memory, host, found), filtered |-> r.filtered,
             file |-> IF found = {} THEN r.file ELSE Put(r.file, host, found)]
    BY <1>2 DEF RecordAnswer, ResolverOK
  <2> HIDE DEF found, s
  <2>2. s.memory = Put(r.memory, host, found) /\ s.filtered = r.filtered
    BY <2>1
  <2>3. DOMAIN s.memory = {host} \cup DOMAIN r.memory /\ s.memory[host] = found
    BY <2>2 DEF Put
  <2>4. \A h \in DOMAIN s.memory : h \in DOMAIN r.memory \/ (h = host /\ s.memory[h] = found)
    BY <2>3
  <2>5. QED
    BY <1>2, <2>2, <2>3, <2>4 DEF found, s
<1>3. QED
  BY <1>1, <1>2

LEMMA FilterGives ==
    ASSUME NEW r, ResolverOK(r), NEW name, NEW host
    PROVE  LET s == FilterAnswer(r, name, host) IN
           /\ s.memory = r.memory
           /\ host \in DOMAIN r.memory => host \in DOMAIN s.filtered
           /\ \A h \in DOMAIN r.filtered : h \in DOMAIN s.filtered /\ s.filtered[h] = r.filtered[h]
           /\ \A h \in DOMAIN s.filtered :
                 \/ h \in DOMAIN r.filtered
                 \/ /\ h = host /\ host \in DOMAIN r.memory
                    /\ s.filtered[h].name = name /\ s.filtered[h].addresses = r.memory[host] \cap UsableAddress
<1> DEFINE s == FilterAnswer(r, name, host)
<1>1. CASE host \in DOMAIN r.filtered \/ host \notin DOMAIN r.memory
  BY <1>1 DEF FilterAnswer
<1>2. CASE ~(host \in DOMAIN r.filtered \/ host \notin DOMAIN r.memory)
  <2> DEFINE entry == [name |-> name, addresses |-> r.memory[host] \cap UsableAddress]
  <2>1. s = [memory |-> r.memory, filtered |-> Put(r.filtered, host, entry), file |-> r.file]
    BY <1>2 DEF FilterAnswer, ResolverOK
  <2>a. entry.name = name /\ entry.addresses = r.memory[host] \cap UsableAddress
    OBVIOUS
  <2> HIDE DEF entry, s
  <2>2. s.filtered = Put(r.filtered, host, entry) /\ s.memory = r.memory
    BY <2>1
  <2>3. /\ DOMAIN s.filtered = {host} \cup DOMAIN r.filtered /\ s.filtered[host] = entry
        /\ \A h \in DOMAIN r.filtered : h # host /\ s.filtered[h] = r.filtered[h]
    BY <1>2, <2>2 DEF Put
  <2>4. QED
    BY <1>2, <2>a, <2>2, <2>3 DEF s
<1>3. QED
  BY <1>1, <1>2

LEMMA ResolveGives ==
    ASSUME NEW r, ResolverOK(r), NEW name, NEW host, NEW answer
    PROVE  LET s == Resolve(r, name, host, answer) IN
           /\ \A h \in DOMAIN s.memory : h \in DOMAIN r.memory \/ (h = host /\ ~IsFailure(answer) /\ s.memory[h] = answer.found)
           /\ host \in DOMAIN s.filtered \/ (host \notin DOMAIN r.memory /\ IsFailure(answer))
           /\ \A h \in DOMAIN r.filtered : h \in DOMAIN s.filtered /\ s.filtered[h] = r.filtered[h]
           /\ \A h \in DOMAIN s.filtered :
                 \/ h \in DOMAIN r.filtered
                 \/ /\ h = host /\ host \in DOMAIN s.memory
                    /\ s.filtered[h].name = name /\ s.filtered[h].addresses = s.memory[host] \cap UsableAddress
<1> DEFINE m == RecordAnswer(r, host, answer)
           s == FilterAnswer(m, name, host)
<1>1. ResolverOK(m)
  BY RecordKeeps
<1>2. /\ m.filtered = r.filtered
      /\ \A h \in DOMAIN m.memory : h \in DOMAIN r.memory \/ (h = host /\ ~IsFailure(answer) /\ m.memory[h] = answer.found)
      /\ host \in DOMAIN m.memory \/ (host \notin DOMAIN r.memory /\ IsFailure(answer))
  BY RecordGives
<1> HIDE DEF m
<1>3. /\ s.memory = m.memory
      /\ host \in DOMAIN m.memory => host \in DOMAIN s.filtered
      /\ \A h \in DOMAIN m.filtered : h \in DOMAIN s.filtered /\ s.filtered[h] = m.filtered[h]
      /\ \A h \in DOMAIN s.filtered :
            \/ h \in DOMAIN m.filtered
            \/ /\ h = host /\ host \in DOMAIN m.memory
               /\ s.filtered[h].name = name /\ s.filtered[h].addresses = m.memory[host] \cap UsableAddress
  BY <1>1, FilterGives
<1>4. Resolve(r, name, host, answer) = s
  BY DEF Resolve, m
<1> HIDE DEF s
<1>5. QED
  BY <1>2, <1>3, <1>4

\* Only addresses are host names, and all their kinds have one dictionary.
LEMMA FqdnIsAddress ==
    ASSUME Fair, NEW kind \in DictionaryKind, NEW name, IsFqdn(kind, name)
    PROVE  /\ DictionaryOf(kind) = "address" /\ kind \in {"src", "dst"}
           /\ IsFqdn("src", name) /\ HostOf("src", name) = HostOf(kind, name)
           /\ HostOf(kind, name) \in Hosts /\ name \in STRING
<1>1. DictionaryOf(kind) \in ObjectKind
  BY DictionaryKinds
<1>2. name \in DOMAIN store[DictionaryOf(kind)].objects /\ store[DictionaryOf(kind)].objects[name].fqdn
  BY DEF IsFqdn, ObjectsOf
<1>3. DictionaryOf(kind) = "address" /\ store[DictionaryOf(kind)].objects[name].values[1] \in Hosts
  BY <1>1, <1>2 DEF Fair, StoreTrue
<1>4. name \in STRING
  BY <1>1, <1>2 DEF Fair, StoreOK
<1>5. kind \in {"src", "dst"}
  BY <1>3 DEF DictionaryOf, DictionaryKind, CacheKind
<1>6. DictionaryOf("src") = "address"
  BY DEF DictionaryOf
<1>7. QED
  BY <1>2, <1>3, <1>4, <1>5, <1>6 DEF IsFqdn, HostOf, ObjectsOf

LEMMA GetObjectGives ==
    ASSUME Fair, NEW kind \in DictionaryKind, NEW name, NEW answers,
           NEW first, NEW b, Sound(first, b), NEW c, c = GetObject(b, kind, name, answers)
    PROVE  /\ c.network = b.network /\ c.groups = b.groups /\ c.unresolved = b.unresolved
           /\ c.thrown = b.thrown
           /\ Builds(b, c) /\ Hears(b, c, answers)
           /\ FilteredTrue(b.resolver) => FilteredTrue(c.resolver)
           /\ ~c.failing => IsResolved(c, kind, name)
           /\ \/ IsResolved(c, kind, name)
              \/ HostOf(kind, name) \notin DOMAIN b.resolver.memory /\ IsFailure(answers[HostOf(kind, name)])
<1>1. CASE ~IsFqdn(kind, name)
  <2>1. c = b
    BY <1>1 DEF GetObject
  <2>2. QED
    BY <1>1, <2>1, BuildsSelf DEF Hears, IsResolved
<1>2. CASE IsFqdn(kind, name)
  <2> DEFINE host == HostOf(kind, name)
             r == Resolve(b.resolver, name, host, answers[host])
             failed == host \notin DOMAIN b.resolver.memory /\ IsFailure(answers[host])
  <2>1. name \in STRING /\ IsFqdn("src", name) /\ HostOf("src", name) = host
    BY <1>2, FqdnIsAddress
  <2>2. ResolverOK(b.resolver) /\ ResolverOK(r) /\ KnownTo(b.resolver, r)
    BY <2>1, ResolveKeeps, SoundParts
  <2>3. c = [b EXCEPT !.resolver = r, !.failing = b.failing \/ failed]
    BY <1>2 DEF GetObject
  <2>4. /\ \A h \in DOMAIN r.memory :
              \/ h \in DOMAIN b.resolver.memory
              \/ h = host /\ ~IsFailure(answers[host]) /\ r.memory[h] = answers[host].found
        /\ host \in DOMAIN r.filtered \/ failed
        /\ \A h \in DOMAIN b.resolver.filtered : h \in DOMAIN r.filtered /\ r.filtered[h] = b.resolver.filtered[h]
        /\ \A h \in DOMAIN r.filtered :
              \/ h \in DOMAIN b.resolver.filtered
              \/ /\ h = host /\ host \in DOMAIN r.memory
                 /\ r.filtered[h].name = name /\ r.filtered[h].addresses = r.memory[host] \cap UsableAddress
    BY <2>2, ResolveGives
  <2> HIDE DEF r, failed, host
  <2>5. /\ c.resolver = r /\ c.network = b.network /\ c.groups = b.groups /\ c.unresolved = b.unresolved
        /\ c.thrown = b.thrown
    BY <2>3, SoundParts
  <2>6. c.failing = (b.failing \/ failed)
    BY <2>3, SoundParts
  <2>7. Grows(b, c)
    BY <2>2, <2>4, <2>5, <2>6 DEF Grows
  <2>8. FilteredTrue(b.resolver) => FilteredTrue(r)
    BY <2>1, <2>2, <2>4 DEF FilteredTrue, KnownTo
  <2>9. Truthful(b) => Truthful(c)
    BY <2>5, <2>7, <2>8, AgreesBefore DEF Truthful
  <2>10. Hears(b, c, answers)
    BY <2>4, <2>5 DEF Hears
  <2>11. (~c.failing => IsResolved(c, kind, name)) /\ (IsResolved(c, kind, name) \/ failed)
    BY <2>4, <2>5, <2>6 DEF IsResolved, host
  <2>12. FilteredTrue(b.resolver) => FilteredTrue(c.resolver)
    BY <2>5, <2>8
  <2>13. Builds(b, c)
    BY <2>7, <2>9 DEF Builds
  <2>14. \/ IsResolved(c, kind, name)
         \/ HostOf(kind, name) \notin DOMAIN b.resolver.memory /\ IsFailure(answers[HostOf(kind, name)])
    BY <2>11 DEF failed, host
  <2>15. QED
    BY <2>5, <2>10, <2>11, <2>12, <2>13, <2>14
<1>3. QED
  BY <1>1, <1>2

\* The object that is returned is the one that is known, under its own name.
LEMMA ObjectGivenIs ==
    ASSUME Fair, NEW kind \in DictionaryKind, NEW name, NEW b, FilteredTrue(b.resolver),
           IsResolved(b, kind, name), NEW known, Agrees(known, b)
    PROVE  /\ IsFound(b, kind, name) <=> HasObject(known, kind, name)
           /\ IsFound(b, kind, name) => ObjectGiven(b, kind, name).name = name
           /\ IsFound(b, kind, name) /\ kind \in {"src", "dst", "svc"} =>
                 ObjectGiven(b, kind, name).addresses = ObjectMeaning(known, kind, name)
<1>1. CASE IsFqdn(kind, name)
  <2> DEFINE host == HostOf(kind, name)
             object == b.resolver.filtered[host]
  <2>1. IsFqdn("src", name) /\ HostOf("src", name) = host /\ kind \in {"src", "dst"}
    BY <1>1, FqdnIsAddress
  <2>2. host \in DOMAIN b.resolver.filtered
    BY <1>1 DEF IsResolved
  <2>3. ObjectGiven(b, kind, name) = object
    BY <1>1, <2>2 DEF ObjectGiven, ResolvedObject
  <2>4. /\ host \in DOMAIN b.resolver.memory /\ object.addresses = b.resolver.memory[host] \cap UsableAddress
        /\ IsFqdn("src", object.name) /\ HostOf("src", object.name) = host
    BY <2>2 DEF FilteredTrue
  <2> HIDE DEF object, host
  <2>5. object.addresses = HostMeaning(known, host)
    BY <2>4 DEF HostMeaning, Agrees
  <2>6. object.name = name
    <3>1. \A a, o \in DOMAIN Addresses.objects :
              a = o \/ ~IsFqdn("src", a) \/ ~IsFqdn("src", o) \/ HostOf("src", a) # HostOf("src", o)
      BY DEF Fair, CachesCanDiffer, HasAliases
    <3>2. \A a : IsFqdn("src", a) => a \in DOMAIN Addresses.objects
      BY DEF IsFqdn, ObjectsOf, DictionaryOf, Addresses
    <3>3. QED
      BY <2>1, <2>4, <3>1, <3>2
  <2>7. name \in DOMAIN ObjectsOf(kind)
    BY <1>1 DEF IsFqdn
  <2>8. HasObject(known, kind, name) <=> HostMeaning(known, host) # {}
    BY <1>1, <2>7 DEF HasObject, host
  <2>9. IsFound(b, kind, name) <=> HostMeaning(known, host) # {}
    BY <2>3, <2>5, <2>7 DEF IsFound
  <2>10. ObjectMeaning(known, kind, name) = HostMeaning(known, host)
    BY <1>1, <2>1 DEF ObjectMeaning, host
  <2>11. QED
    BY <2>3, <2>5, <2>6, <2>8, <2>9, <2>10
<1>2. CASE ~IsFqdn(kind, name)
  <2> DEFINE values == Range(ObjectsOf(kind)[name].values)
  <2>1. ObjectGiven(b, kind, name) = [name |-> name, addresses |-> values]
    BY <1>2 DEF ObjectGiven
  <2>2. name \in DOMAIN ObjectsOf(kind) => values # {}
    BY DictionaryKinds DEF ObjectsOf, Fair, StoreTrue
  <2>3. kind \in {"src", "dst", "svc"} => ObjectMeaning(known, kind, name) = values
    BY <1>2 DEF ObjectMeaning
  <2> HIDE DEF values
  <2>4. ObjectGiven(b, kind, name).name = name /\ ObjectGiven(b, kind, name).addresses = values
    BY <2>1
  <2>5. IsFound(b, kind, name) <=> name \in DOMAIN ObjectsOf(kind)
    BY <2>2, <2>4 DEF IsFound
  <2>6. HasObject(known, kind, name) <=> name \in DOMAIN ObjectsOf(kind)
    BY <1>2 DEF HasObject
  <2>7. QED
    BY <2>3, <2>4, <2>5, <2>6
<1>3. QED
  BY <1>1, <1>2

(***************************************************************************)
(* Objects of the store, literals and zones.                               *)
(***************************************************************************)
\* An object is the one of a name, unless a lookup has failed.
Stands(start, b, kind, object, name) ==
    Truthful(start) /\ Truthful(b) /\ ~b.failing =>
        /\ object.name = name
        /\ \A known : Agrees(known, b) =>
              /\ HasObject(known, kind, name)
              /\ kind \in {"src", "dst", "svc"} => object.addresses = ObjectMeaning(known, kind, name)

LEMMA RegisterObjectIs ==
    ASSUME NEW kind \in DictionaryKind, NEW object, NEW name, ~IsLiteral(kind, name),
           NEW first, NEW start, NEW b, Sound(first, b), ~b.thrown, Stands(start, b, kind, object, name)
    PROVE  Registers(start, b, RegisterObject(b, kind, object), kind,
                     PartOf(IsMulti(kind, object)), object.name)
<1>1. kind \in CacheKind /\ (kind \in {"src", "dst", "svc"} <=> kind \notin NumberedKind) /\ kind \notin ZoneKind
  BY DictionaryKinds DEF DictionaryKind, ZoneKind
<1>2. kind # "url"
  BY DEF IsLiteral
<1>3. CASE IsMulti(kind, object)
  <2>1. RegisterObject(b, kind, object)
            = [b EXCEPT !.network = CacheMulti(b.network, kind, object.name, object.addresses)]
    BY <1>3 DEF RegisterObject, IsMulti
  <2>2. ASSUME Truthful(start), Truthful(b), ~b.failing, NEW known, Agrees(known, b)
        PROVE  object.addresses = LeafMeaning(known, kind, object.name)
    <3>1. object.name = name /\ HasObject(known, kind, name) /\ object.addresses = ObjectMeaning(known, kind, name)
      BY <1>3, <2>2 DEF Stands, IsMulti
    <3>2. QED
      BY <3>1, ObjectMeans
  <2>3. PartOf(IsMulti(kind, object)) = "groups"
    BY <1>3 DEF PartOf
  <2>4. QED
    <3>1. Truthful(start) /\ Truthful(b) /\ ~b.failing =>
              \A known : Agrees(known, b) => object.addresses = LeafMeaning(known, kind, object.name)
      BY <2>2
    <3> DEFINE c == [b EXCEPT !.network = CacheMulti(b.network, kind, object.name, object.addresses)]
    <3>2. Registers(start, b, c, kind, "groups", object.name)
      BY <1>1, <3>1, RegistersGroup
    <3> HIDE DEF c
    <3>3. QED
      BY <2>1, <2>3, <3>2 DEF c
<1>4. CASE ~IsMulti(kind, object) /\ kind \in {"src", "dst", "svc"}
  <2>1. RegisterObject(b, kind, object)
            = [b EXCEPT !.network = CacheObject(b.network, kind, object.name, object.addresses)]
    BY <1>4 DEF RegisterObject
  <2>2. ASSUME Truthful(start), Truthful(b), ~b.failing, NEW known, Agrees(known, b)
        PROVE  ObjectTrue(known, kind, object.name, object.addresses)
    <3>1. object.name = name /\ HasObject(known, kind, name) /\ object.addresses = ObjectMeaning(known, kind, name)
      BY <1>4, <2>2 DEF Stands
    <3>2. ~Many(known, kind, name)
      BY <1>4, <3>1 DEF Many, IsMulti
    <3>3. QED
      BY <1>1, <3>1, <3>2 DEF ObjectTrue
  <2>3. PartOf(IsMulti(kind, object)) = "objects"
    BY <1>4 DEF PartOf
  <2>4. QED
    <3>1. Truthful(start) /\ Truthful(b) /\ ~b.failing =>
              \A known : Agrees(known, b) => ObjectTrue(known, kind, object.name, object.addresses)
      BY <2>2
    <3> DEFINE c == [b EXCEPT !.network = CacheObject(b.network, kind, object.name, object.addresses)]
    <3>2. Registers(start, b, c, kind, "objects", object.name)
      BY <1>1, <3>1, RegistersObject
    <3> HIDE DEF c
    <3>3. QED
      BY <2>1, <2>3, <3>2 DEF c
<1>5. CASE ~IsMulti(kind, object) /\ kind \notin {"src", "dst", "svc"}
  <2> DEFINE services == IF kind \in {"app", "app_svc"} THEN ResolveAppServices(object.name) ELSE {}
  <2>1. RegisterObject(b, kind, object) = RegisterWithId(b, kind, object.name, services)
    BY <1>5 DEF RegisterObject
  <2>2. ASSUME Truthful(start), Truthful(b), ~b.failing, NEW known, Agrees(known, b)
        PROVE  NumberedTrue(known, kind, object.name, services)
    <3>1. object.name = name /\ HasObject(known, kind, name)
      BY <2>2 DEF Stands
    <3>2. ~Many(known, kind, name)
      BY <1>5 DEF Many
    <3>3. ASSUME NEW id, IdMeaning(known, kind, name) = {id}
          PROVE  {NumberedValue(kind, id, services)} = ObjectMeaning(known, kind, name)
      <4>1. CASE kind \in {"app", "app_svc"}
        BY <3>1, <3>3, <4>1 DEF ObjectMeaning, NumberedValue
      <4>2. CASE kind \notin {"app", "app_svc"}
        BY <1>5, <3>3, <4>2 DEF ObjectMeaning, NumberedValue
      <4>3. QED
        BY <4>1, <4>2
    <3> HIDE DEF services
    <3>4. QED
      BY <1>1, <3>1, <3>2, <3>3 DEF ObjectTrue, NumberedTrue
  <2>3. PartOf(IsMulti(kind, object)) = "objects"
    BY <1>5 DEF PartOf
  <2> HIDE DEF services
  <2>4. QED
    BY <1>1, <1>5, <2>1, <2>2, <2>3, RegistersNumbered
<1>6. QED
  BY <1>3, <1>4, <1>5

(***************************************************************************)
(* What names add to the groups and to the report of a row.                *)
(***************************************************************************)
Meaning(known, kind, name) ==
    IF kind \in ZoneKind THEN IdMeaning(known, kind, name) ELSE NameMeaning(known, kind, name)
Reported(known, kind, name) ==
    IF kind \in ZoneKind THEN {} ELSE UnresolvedOf(known, kind, name)

Meanings(known, kind, names) == UNION {Meaning(known, kind, name) : name \in names}
Reports(known, kind, names) == UNION {Reported(known, kind, name) : name \in names}

Gains(b, c, kind, values, names) ==
    DOMAIN b.groups = CacheKind =>
        /\ DOMAIN c.groups = CacheKind
        /\ \A k \in CacheKind : c.groups[k] = IF k = kind THEN b.groups[k] \cup values ELSE b.groups[k]
        /\ c.unresolved = b.unresolved \cup ({DictionaryOf(kind)} \X names)

Built(b, c, kind, names) ==
    /\ Builds(b, c)
    /\ Truthful(b) /\ ~c.failing /\ ~c.thrown =>
          \A known : Agrees(known, c) =>
             Gains(b, c, kind, Meanings(known, kind, names), Reports(known, kind, names))

LEMMA BuiltNothing ==
    ASSUME NEW b, NEW kind
    PROVE  Built(b, b, kind, {})
<1>1. \A known : Meanings(known, kind, {}) = {} /\ Reports(known, kind, {}) = {}
  BY DEF Meanings, Reports
<1>2. {DictionaryOf(kind)} \X {} = {}
  OBVIOUS
<1>3. QED
  BY <1>1, <1>2, BuildsSelf DEF Built, Gains

LEMMA BuiltMore ==
    ASSUME NEW b, NEW c, NEW d, NEW kind, NEW names, NEW more,
           Built(b, c, kind, names), Built(c, d, kind, more)
    PROVE  Built(b, d, kind, names \cup more)
<1>1. Builds(b, d)
  BY BuildsAgain DEF Built
<1>2. ASSUME Truthful(b), ~d.failing, ~d.thrown, NEW known, Agrees(known, d)
      PROVE  Gains(b, d, kind, Meanings(known, kind, names \cup more), Reports(known, kind, names \cup more))
  <2>1. ~c.failing /\ ~c.thrown /\ Truthful(c) /\ Agrees(known, c)
    BY <1>2, AgreesBefore DEF Built, Builds, Grows
  <2>2. Gains(b, c, kind, Meanings(known, kind, names), Reports(known, kind, names))
    BY <1>2, <2>1 DEF Built
  <2>3. Gains(c, d, kind, Meanings(known, kind, more), Reports(known, kind, more))
    BY <1>2, <2>1 DEF Built
  <2>4. Meanings(known, kind, names \cup more) = Meanings(known, kind, names) \cup Meanings(known, kind, more)
    BY DEF Meanings
  <2>5. Reports(known, kind, names \cup more) = Reports(known, kind, names) \cup Reports(known, kind, more)
    BY DEF Reports
  <2>6. \A A, B : {DictionaryOf(kind)} \X (A \cup B) = ({DictionaryOf(kind)} \X A) \cup ({DictionaryOf(kind)} \X B)
    OBVIOUS
  <2> DEFINE D(N) == {DictionaryOf(kind)} \X N
  <2>7. \A A, B : D(A \cup B) = D(A) \cup D(B)
    BY <2>6
  <2> HIDE DEF D
  <2>8. \A A, B, V, W : Gains(b, c, kind, V, A) /\ Gains(c, d, kind, W, B) => Gains(b, d, kind, V \cup W, A \cup B)
    <3> SUFFICES ASSUME NEW A, NEW B, NEW V, NEW W, Gains(b, c, kind, V, A), Gains(c, d, kind, W, B),
                        DOMAIN b.groups = CacheKind
                 PROVE  /\ DOMAIN d.groups = CacheKind
                        /\ \A k \in CacheKind : d.groups[k] = IF k = kind THEN b.groups[k] \cup (V \cup W) ELSE b.groups[k]
                        /\ d.unresolved = b.unresolved \cup D(A \cup B)
      BY DEF Gains, D
    <3>1. /\ DOMAIN c.groups = CacheKind
          /\ \A k \in CacheKind : c.groups[k] = IF k = kind THEN b.groups[k] \cup V ELSE b.groups[k]
          /\ c.unresolved = b.unresolved \cup D(A)
      BY DEF Gains, D
    <3>2. /\ DOMAIN d.groups = CacheKind
          /\ \A k \in CacheKind : d.groups[k] = IF k = kind THEN c.groups[k] \cup W ELSE c.groups[k]
          /\ d.unresolved = c.unresolved \cup D(B)
      BY <3>1 DEF Gains, D
    <3>3. \A k \in CacheKind : d.groups[k] = IF k = kind THEN b.groups[k] \cup (V \cup W) ELSE b.groups[k]
      BY <3>1, <3>2
    <3>4. d.unresolved = b.unresolved \cup D(A \cup B)
      BY <2>7, <3>1, <3>2
    <3>5. QED
      BY <3>2, <3>3, <3>4
  <2>9. Gains(b, d, kind, Meanings(known, kind, names) \cup Meanings(known, kind, more),
              Reports(known, kind, names) \cup Reports(known, kind, more))
    BY <2>2, <2>3, <2>8, Zenon
  <2>10. QED
    BY <2>4, <2>5, <2>9, Zenon
<1>3. QED
  BY <1>1, <1>2 DEF Built

LEMMA MeaningOne ==
    ASSUME NEW known, NEW kind, NEW name
    PROVE  /\ Meanings(known, kind, {name}) = Meaning(known, kind, name)
           /\ Reports(known, kind, {name}) = Reported(known, kind, name)
BY DEF Meanings, Reports

LEMMA AddMembersGives ==
    ASSUME NEW first, NEW b, Sound(first, b), NEW kind, NEW values
    PROVE  LET c == AddMembers(b, kind, values) IN
           /\ c.network = b.network /\ c.resolver = b.resolver /\ c.failing = b.failing
           /\ c.unresolved = b.unresolved /\ c.thrown = b.thrown
           /\ DOMAIN c.groups = DOMAIN b.groups
           /\ \A k \in DOMAIN b.groups : c.groups[k] = IF k = kind THEN b.groups[k] \cup values ELSE b.groups[k]
<1> DEFINE groups == [b.groups EXCEPT ![kind] = @ \cup values]
           c == AddMembers(b, kind, values)
<1>1. c = [b EXCEPT !.groups = groups]
  BY SoundParts DEF AddMembers
<1>2. /\ DOMAIN groups = DOMAIN b.groups
      /\ \A k \in DOMAIN b.groups : groups[k] = IF k = kind THEN b.groups[k] \cup values ELSE b.groups[k]
  OBVIOUS
<1> HIDE DEF groups, c
<1>3. /\ c.network = b.network /\ c.resolver = b.resolver /\ c.failing = b.failing
      /\ c.unresolved = b.unresolved /\ c.thrown = b.thrown /\ c.groups = groups
  BY <1>1, SoundParts
<1>4. QED
  BY <1>2, <1>3 DEF c

\* A group gets what is cached, which is what the name means.
LEMMA AddCachedIs ==
    ASSUME NEW first, NEW b, NEW m, Sound(first, m), NEW kind \in CacheKind, NEW part, NEW name, NEW word,
           Registers(b, b, m, kind, part, name),
           Truthful(b) /\ Truthful(m) /\ ~m.failing /\ ~m.thrown =>
              \A known : Agrees(known, m) =>
                 /\ m.network.cache[kind][part][name] = Meaning(known, kind, word)
                 /\ Reported(known, kind, word) = {}
    PROVE  Built(b, AddCached(m, kind, part, name), kind, {word})
<1> DEFINE c == AddCached(m, kind, part, name)
           values == m.network.cache[kind][part][name]
<1>1. CASE m.thrown
  <2>1. c = m
    BY <1>1 DEF AddCached
  <2>2. QED
    BY <1>1, <2>1 DEF Built, Builds, BuildsFrom, Registers
<1>2. CASE ~m.thrown
  <2>1. c = AddMembers(m, kind, values)
    BY <1>2 DEF AddCached
  <2> HIDE DEF c, values
  <2>2. /\ c.network = m.network /\ c.resolver = m.resolver /\ c.failing = m.failing
        /\ c.unresolved = m.unresolved /\ c.thrown = m.thrown
        /\ DOMAIN c.groups = DOMAIN m.groups
        /\ \A k \in DOMAIN m.groups : c.groups[k] = IF k = kind THEN m.groups[k] \cup values ELSE m.groups[k]
    BY <2>1, AddMembersGives
  <2>3. Builds(m, c)
    BY <2>2, SameCaches
  <2>4. Builds(b, c)
    BY <2>3, BuildsAgain, BuildsFromSelf DEF Registers
  <2>5. ASSUME Truthful(b), ~c.failing, ~c.thrown, NEW known, Agrees(known, c)
        PROVE  Gains(b, c, kind, Meanings(known, kind, {word}), Reports(known, kind, {word}))
    <3>1. Agrees(known, m)
      BY <2>3, <2>5, AgreesBefore DEF Builds
    <3>2. Truthful(m)
      BY <2>2, <2>5 DEF Registers, BuildsFrom
    <3>3. values = Meaning(known, kind, word) /\ Reported(known, kind, word) = {}
      BY <1>2, <2>2, <2>5, <3>1, <3>2 DEF values
    <3>4. Meanings(known, kind, {word}) = values /\ Reports(known, kind, {word}) = {}
      BY <3>3, MeaningOne
    <3>5. m.groups = b.groups /\ m.unresolved = b.unresolved
      BY DEF Registers
    <3>6. {DictionaryOf(kind)} \X {} = {}
      OBVIOUS
    <3>7. QED
      BY <2>2, <3>4, <3>5, <3>6 DEF Gains
  <2>6. QED
    BY <2>4, <2>5 DEF Built, c
<1>3. QED
  BY <1>1, <1>2

LEMMA NotZone ==
    ASSUME NEW kind \in DictionaryKind
    PROVE  kind \notin ZoneKind /\ kind \in CacheKind
BY DEF DictionaryKind, ZoneKind

\* A name that is not a literal means its leaves.
LEMMA WordMeans ==
    ASSUME NEW known, NEW kind \in DictionaryKind, NEW name, ~IsLiteral(kind, name)
    PROVE  /\ Meaning(known, kind, name) = LeafMeaning(known, kind, name)
           /\ Reported(known, kind, name) = UnresolvedOf(known, kind, name)
BY NotZone DEF Meaning, Reported, NameMeaning, LeafMeaning

LEMMA LiteralMeans ==
    ASSUME NEW known, NEW kind \in DictionaryKind, NEW name, IsLiteral(kind, name)
    PROVE  /\ Meaning(known, kind, name) = LiteralMeaning(known, kind, name)
           /\ Reported(known, kind, name) = {}
BY NotZone DEF Meaning, Reported, NameMeaning, UnresolvedOf

LEMMA AddObjectIs ==
    ASSUME NEW kind \in DictionaryKind, NEW object, NEW name, ~IsLiteral(kind, name),
           NEW first, NEW b, Sound(first, b), ~b.thrown, Stands(b, b, kind, object, name)
    PROVE  Built(b, AddObject(b, kind, object), kind, {name})
<1> DEFINE m == RegisterObject(b, kind, object)
           part == PartOf(IsMulti(kind, object))
<1>1. Sound(first, m)
  BY RegisterObjectKeeps
<1>2. Registers(b, b, m, kind, part, object.name)
  BY RegisterObjectIs
<1>3. AddObject(b, kind, object) = AddCached(m, kind, part, object.name)
  BY DEF AddObject, PartOf
<1>4. kind \in CacheKind /\ kind \notin ZoneKind
  BY NotZone
<1> HIDE DEF m
<1>5. ASSUME Truthful(b), Truthful(m), ~m.failing, ~m.thrown, NEW known, Agrees(known, m)
      PROVE  /\ m.network.cache[kind][part][object.name] = Meaning(known, kind, name)
             /\ Reported(known, kind, name) = {}
  <2>1. Agrees(known, b) /\ ~b.failing /\ object.name \in DOMAIN m.network.cache[kind][part]
    BY <1>2, <1>5, AgreesBefore DEF Registers, BuildsFrom
  <2>2. object.name = name /\ HasObject(known, kind, name)
    BY <1>5, <2>1 DEF Stands
  <2>3. LeafMeaning(known, kind, name) = ObjectMeaning(known, kind, name) /\ UnresolvedOf(known, kind, name) = {}
    BY <2>2, ObjectMeans
  <2>4. CachesTrue(known, m.network)
    BY <1>5 DEF Truthful
  <2>5. m.network.cache[kind][part][name] = LeafMeaning(known, kind, name)
    <3>1. CASE IsMulti(kind, object)
      BY <1>4, <2>1, <2>2, <2>4, <3>1 DEF PartOf, CachesTrue
    <3>2. CASE ~IsMulti(kind, object)
      <4>1. part = "objects"
        BY <3>2 DEF PartOf
      <4>2. ObjectTrue(known, kind, name, m.network.cache[kind].objects[name])
        BY <1>4, <2>1, <2>2, <2>4, <4>1 DEF CachesTrue
      <4>3. m.network.cache[kind].objects[name] = ObjectMeaning(known, kind, name)
        BY <1>4, <4>2 DEF ObjectTrue
      <4>4. QED
        BY <2>3, <4>1, <4>3
    <3>3. QED
      BY <3>1, <3>2
  <2>6. QED
    BY <2>2, <2>3, <2>5, WordMeans
<1> HIDE DEF part
<1>6. QED
  BY <1>1, <1>2, <1>3, <1>4, <1>5, AddCachedIs

LEMMA AddLiteralIs ==
    ASSUME NEW kind \in DictionaryKind, NEW name, IsLiteral(kind, name),
           NEW first, NEW b, Sound(first, b), ~b.thrown
    PROVE  Built(b, AddLiteral(b, kind, name), kind, {name})
<1> DEFINE m == IF kind = "url" THEN RegisterWithId(b, kind, name, {})
                ELSE [b EXCEPT !.network = CacheObject(b.network, kind, name, {name})]
<1>1. kind \in CacheKind /\ kind \notin ZoneKind
  BY NotZone
<1>2. AddLiteral(b, kind, name) = AddCached(m, kind, "objects", name)
  BY DEF AddLiteral
<1>3. Sound(first, m) /\ Registers(b, b, m, kind, "objects", name)
  <2>1. CASE kind = "url"
    <3>1. kind \in NumberedKind
      BY <2>1 DEF NumberedKind, CacheKind
    <3>2. \A known : NumberedTrue(known, kind, name, {})
      BY <1>1, <2>1 DEF NumberedTrue, ObjectTrue, LiteralMeaning, NumberedValue
    <3>3. Registers(b, b, RegisterWithId(b, kind, name, {}), kind, "objects", name)
      BY <3>1, <3>2, RegistersNumbered
    <3>4. Sound(first, RegisterWithId(b, kind, name, {}))
      BY <3>1, RegisterWithIdKeeps
    <3>5. QED
      BY <2>1, <3>3, <3>4
  <2>2. CASE kind # "url"
    <3>1. \A known : ObjectTrue(known, kind, name, {name})
      BY <1>1, <2>2 DEF ObjectTrue, LiteralMeaning
    <3>2. kind \in CacheKind \ NumberedKind
      BY <2>2, DictionaryKinds DEF IsLiteral
    <3> DEFINE nw == CacheObject(b.network, kind, name, {name})
    <3>3. Registers(b, b, [b EXCEPT !.network = nw], kind, "objects", name)
      BY <1>1, <3>1, RegistersObject
    <3>4. NetworkOK(nw)
      BY <3>2, CacheObjectKeeps, SoundParts
    <3> HIDE DEF nw
    <3>5. Sound(first, [b EXCEPT !.network = nw])
      BY <3>4, NetworkReplaced
    <3>6. QED
      BY <2>2, <3>3, <3>5 DEF nw
  <2>3. QED
    BY <2>1, <2>2
<1> HIDE DEF m
<1>4. ASSUME Truthful(m), ~m.thrown, NEW known, Agrees(known, m)
      PROVE  /\ m.network.cache[kind]["objects"][name] = Meaning(known, kind, name)
             /\ Reported(known, kind, name) = {}
  <2>1. ObjectTrue(known, kind, name, m.network.cache[kind].objects[name])
    BY <1>1, <1>3, <1>4 DEF Truthful, CachesTrue, Registers
  <2>2. m.network.cache[kind].objects[name] = LiteralMeaning(known, kind, name)
    BY <1>1, <2>1 DEF ObjectTrue
  <2>3. QED
    BY <2>2, LiteralMeans
<1>5. QED
  BY <1>1, <1>2, <1>3, <1>4, AddCachedIs

LEMMA AddZoneIs ==
    ASSUME NEW kind \in ZoneKind, NEW name, NEW first, NEW b, Sound(first, b)
    PROVE  Built(b, AddZone(b, kind, name), kind, {name})
<1> DEFINE m == RegisterWithId(b, kind, name, {})
<1>1. kind \in NumberedKind /\ kind \in CacheKind /\ kind \notin {"app", "app_svc"}
  BY DEF NumberedKind, CacheKind, ZoneKind
<1>2. CASE b.thrown
  BY <1>2, BuildsSelf DEF AddZone, Built
<1>3. CASE ~b.thrown
  <2>1. AddZone(b, kind, name) = AddCached(m, kind, "objects", name)
    BY <1>3 DEF AddZone
  <2>2. \A known : NumberedTrue(known, kind, name, {})
    BY <1>1 DEF NumberedTrue, ObjectTrue, NumberedValue
  <2>3. Sound(first, m) /\ Registers(b, b, m, kind, "objects", name)
    BY <1>1, <1>3, <2>2, RegistersNumbered, RegisterWithIdKeeps
  <2> HIDE DEF m
  <2>4. ASSUME Truthful(m), ~m.thrown, NEW known, Agrees(known, m)
        PROVE  /\ m.network.cache[kind]["objects"][name] = Meaning(known, kind, name)
               /\ Reported(known, kind, name) = {}
    <3>1. ObjectTrue(known, kind, name, m.network.cache[kind].objects[name])
      BY <1>1, <2>3, <2>4 DEF Truthful, CachesTrue, Registers
    <3>2. m.network.cache[kind].objects[name] = IdMeaning(known, kind, name)
      BY <3>1 DEF ObjectTrue
    <3>3. QED
      BY <3>2 DEF Meaning, Reported
  <2>5. QED
    BY <1>1, <2>1, <2>3, <2>4, AddCachedIs
<1>4. QED
  BY <1>2, <1>3

LEMMA AddUnresolvedIs ==
    ASSUME NEW kind \in DictionaryKind, NEW name, ~IsLiteral(kind, name), name \notin DOMAIN PoolsOf(kind),
           NEW first, NEW b, Sound(first, b),
           Truthful(b) /\ ~b.failing => \A known : Agrees(known, b) => ~HasObject(known, kind, name)
    PROVE  Built(b, AddUnresolved(b, kind, {name}), kind, {name})
<1> DEFINE c == AddUnresolved(b, kind, {name})
<1>1. /\ c.network = b.network /\ c.resolver = b.resolver /\ c.failing = b.failing /\ c.groups = b.groups
      /\ c.unresolved = b.unresolved \cup ({DictionaryOf(kind)} \X {name}) /\ c.thrown = b.thrown
  BY SoundParts DEF AddUnresolved
<1> HIDE DEF c
<1>2. Builds(b, c)
  BY <1>1, SameCaches
<1>3. ASSUME Truthful(b), ~c.failing, ~c.thrown, NEW known, Agrees(known, c)
      PROVE  Gains(b, c, kind, Meanings(known, kind, {name}), Reports(known, kind, {name}))
  <2>1. ~HasObject(known, kind, name)
    BY <1>1, <1>2, <1>3, AgreesBefore DEF Builds
  <2>2. LeafMeaning(known, kind, name) = {} /\ UnresolvedOf(known, kind, name) = {name}
    BY <2>1, UnknownMeans
  <2>3. Meanings(known, kind, {name}) = {} /\ Reports(known, kind, {name}) = {name}
    <3>1. Meaning(known, kind, name) = {} /\ Reported(known, kind, name) = {name}
      BY <2>2, WordMeans
    <3>2. QED
      BY <3>1, MeaningOne, Zenon
  <2>4. QED
    BY <1>1, <2>3 DEF Gains
<1>4. QED
  BY <1>2, <1>3 DEF Built, c

(***************************************************************************)
(* The folds, as sequences of records.                                     *)
(***************************************************************************)
Runs(g, n, job, base, seq) ==
    g[0] = base /\ \A m \in 1 .. n : g[m] = Step(job, g[m - 1], seq[m])

LEMMA FoldRuns ==
    ASSUME NEW job, NEW base, NEW seq, NEW n \in Nat, NEW f, Folds(f, n, job, base, seq)
    PROVE  \E g : Runs(g, n, job, base, seq) /\ g[n] = f[1 .. n]
<1> DEFINE g == [m \in 0 .. n |-> f[1 .. m]]
<1>1. g[0] = base
  <2>1. 1 .. 0 = {} /\ {} \in SUBSET (1 .. n) /\ 0 \in 0 .. n
    OBVIOUS
  <2>2. f[{}] = base
    BY <2>1 DEF Folds
  <2>3. g[0] = f[1 .. 0]
    BY <2>1
  <2>4. QED
    BY <2>1, <2>2, <2>3
<1>2. ASSUME NEW m \in 1 .. n
      PROVE  g[m] = Step(job, g[m - 1], seq[m])
  <2>1. 1 .. m \in SUBSET (1 .. n) /\ m \in 0 .. n /\ m - 1 \in 0 .. n
    OBVIOUS
  <2>2. Max(1 .. m) = m /\ (1 .. m) \ {m} = 1 .. (m - 1) /\ 1 .. m # {}
    <3>1. m \in Nat /\ m \in 1 .. m
      OBVIOUS
    <3>2. Max(1 .. m) = m
      BY <3>1, MaxIsLast
    <3>3. (1 .. m) \ {m} = 1 .. (m - 1)
      BY <3>1
    <3>4. QED
      BY <3>1, <3>2, <3>3
  <2>3. f[1 .. m] = Step(job, f[1 .. (m - 1)], seq[m])
    BY <2>1, <2>2 DEF Folds
  <2>4. QED
    BY <2>1, <2>3
<1>3. g[n] = f[1 .. n]
  OBVIOUS
<1> HIDE DEF g
<1>4. Runs(g, n, job, base, seq)
  BY <1>1, <1>2 DEF Runs
<1>5. QED
  BY <1>3, <1>4

(***************************************************************************)
(* All the members of a pool are asked for.                                *)
(***************************************************************************)
Asked(b, c, answers) ==
    /\ c.network = b.network /\ c.groups = b.groups /\ c.unresolved = b.unresolved
    /\ c.thrown = b.thrown
    /\ Builds(b, c) /\ Hears(b, c, answers)

LEMMA AskedAgain ==
    ASSUME NEW b, NEW c, NEW d, NEW answers, Asked(b, c, answers), Asked(c, d, answers)
    PROVE  Asked(b, d, answers)
<1>1. Builds(b, d)
  BY BuildsAgain DEF Asked
<1>2. Hears(b, d, answers)
  BY DEF Asked, Hears, Builds, Grows, KnownTo
<1>3. QED
  BY <1>1, <1>2 DEF Asked

LEMMA StaysResolved ==
    ASSUME NEW b, NEW c, Builds(b, c), NEW kind, NEW name, IsResolved(b, kind, name)
    PROVE  IsResolved(c, kind, name)
BY DEF Builds, Grows, IsResolved

LEMMA AskAllIs ==
    ASSUME Fair, NEW kind \in DictionaryKind, NEW answers, NEW entries \in Seq(EntryRecord),
           NEW first, NEW b, Sound(first, b)
    PROVE  LET c == AskAll(b, kind, entries, answers) IN
           /\ Asked(b, c, answers)
           /\ ~c.failing => \A i \in DOMAIN entries : IsResolved(c, kind, entries[i].name)
<1> DEFINE job == Job("get", kind, answers)
           n == Len(entries)
<1>1. n \in Nat /\ DOMAIN entries = 1 .. n
  OBVIOUS
<1> HIDE DEF n
<1>2. PICK f : Folds(f, n, job, b, entries) /\ AskAll(b, kind, entries, answers) = f[1 .. n]
  <2>1. Outcome(AskAll(b, kind, entries, answers), n, job, b, entries)
    BY <1>1, GetIsFold
  <2>2. QED
    BY <2>1 DEF Outcome
<1>3. \A acc, x : Step(job, acc, x) = GetObject(acc, kind, x.name, answers)
  BY DEF Step, Job
<1> HIDE DEF job
<1>4. PICK g : Runs(g, n, job, b, entries) /\ g[n] = f[1 .. n]
  BY <1>1, <1>2, FoldRuns
<1> DEFINE Good == {m \in 0 .. n :
              /\ Sound(first, g[m]) /\ Asked(b, g[m], answers)
              /\ ~g[m].failing => \A i \in 1 .. m : IsResolved(g[m], kind, entries[i].name)}
<1>5. 0 \in Good
  <2>1. g[0] = b
    BY <1>4 DEF Runs
  <2>2. Asked(b, b, answers)
    BY BuildsSelf DEF Asked, Hears
  <2>3. QED
    BY <1>1, <2>1, <2>2
<1>6. ASSUME NEW m \in 1 .. n, m - 1 \in Good
      PROVE  m \in Good
  <2> DEFINE c == g[m - 1]
             d == g[m]
             name == entries[m].name
  <2>1. /\ Sound(first, c) /\ Asked(b, c, answers)
        /\ ~c.failing => \A i \in 1 .. (m - 1) : IsResolved(c, kind, entries[i].name)
    BY <1>6
  <2>2. d = GetObject(c, kind, name, answers)
    BY <1>3, <1>4 DEF Runs
  <2> HIDE DEF c, d, name
  <2>3. Asked(c, d, answers) /\ (~d.failing => IsResolved(d, kind, name))
    BY <2>1, <2>2, GetObjectGives DEF Asked
  <2>4. Sound(first, d)
    BY <2>1, <2>2, GetObjectKeeps DEF Fair
  <2>5. Asked(b, d, answers)
    BY <2>1, <2>3, AskedAgain
  <2>6. ASSUME ~d.failing, NEW i \in 1 .. m
        PROVE  IsResolved(d, kind, entries[i].name)
    <3>1. ~c.failing /\ Builds(c, d)
      BY <2>3, <2>6 DEF Asked, Builds, Grows
    <3>2. CASE i = m
      BY <2>3, <2>6, <3>2 DEF name
    <3>3. CASE i # m
      <4>1. i \in 1 .. (m - 1)
        BY <1>1, <3>3
      <4>2. IsResolved(c, kind, entries[i].name)
        BY <2>1, <3>1, <4>1
      <4>3. QED
        BY <3>1, <4>2, StaysResolved
    <3>4. QED
      BY <3>2, <3>3
  <2>7. m \in 0 .. n
    BY <1>1
  <2>8. QED
    BY <2>4, <2>5, <2>6, <2>7 DEF d
<1> HIDE DEF Good
<1>7. \A m \in 0 .. n : m \in Good
  BY <1>1, <1>5, <1>6, UpTo
<1>8. n \in Good
  BY <1>1, <1>7
<1>9. QED
  BY <1>1, <1>2, <1>4, <1>8 DEF Good

\* The objects the traversal finds are those that are known in the end.
LEMMA FoundIsKnown ==
    ASSUME Fair, NEW kind \in DictionaryKind, NEW name, NEW answers,
           NEW first, NEW b, Sound(first, b), Truthful(b), NEW c, Asked(b, c, answers), ~c.failing,
           IsResolved(c, kind, name), NEW known, Agrees(known, c)
    PROVE  name \in FoundObjects(b, kind, answers) <=> HasObject(known, kind, name)
<1> DEFINE d == GetObject(b, kind, name, answers)
<1>1. /\ Builds(b, d) /\ Hears(b, d, answers)
      /\ \/ IsResolved(d, kind, name)
         \/ HostOf(kind, name) \notin DOMAIN b.resolver.memory /\ IsFailure(answers[HostOf(kind, name)])
      /\ FilteredTrue(d.resolver) /\ (~IsFqdn(kind, name) => d = b)
  <2>1. ~IsFqdn(kind, name) => d = b
    BY DEF GetObject
  <2> HIDE DEF d
  <2>2. d = GetObject(b, kind, name, answers)
    BY DEF d
  <2>3. QED
    BY <2>1, <2>2, GetObjectGives DEF Truthful
<1>2. name \in FoundObjects(b, kind, answers) <=> IsFound(d, kind, name)
  BY DEF FoundObjects, IsFound
<1> HIDE DEF d
<1>3. FilteredTrue(c.resolver) /\ Builds(b, c) /\ Hears(b, c, answers)
  BY DEF Asked, Builds, Truthful
<1>4. IsFound(c, kind, name) <=> HasObject(known, kind, name)
  BY <1>3, ObjectGivenIs
<1>5. CASE ~IsFqdn(kind, name)
  <2>1. ObjectGiven(d, kind, name) = ObjectGiven(c, kind, name)
    BY <1>5 DEF ObjectGiven
  <2>2. QED
    BY <1>2, <1>4, <2>1 DEF IsFound
<1>6. CASE IsFqdn(kind, name)
  <2> DEFINE host == HostOf(kind, name)
  <2>1. /\ host \in DOMAIN c.resolver.filtered /\ host \in DOMAIN c.resolver.memory
        /\ c.resolver.filtered[host].addresses = c.resolver.memory[host] \cap UsableAddress
    BY <1>3, <1>6 DEF IsResolved, FilteredTrue
  <2>2. host \in DOMAIN b.resolver.memory \/ ~IsFailure(answers[host])
    BY <1>3, <2>1 DEF Hears
  <2>3. host \in DOMAIN d.resolver.filtered
    BY <1>1, <1>6, <2>2 DEF IsResolved
  <2>4. FilteredTrue(d.resolver)
    BY <1>1
  <2>5. /\ host \in DOMAIN d.resolver.memory
        /\ d.resolver.filtered[host].addresses = d.resolver.memory[host] \cap UsableAddress
    BY <2>3, <2>4 DEF FilteredTrue
  <2>6. d.resolver.memory[host] = c.resolver.memory[host]
    <3>1. CASE host \in DOMAIN b.resolver.memory
      BY <1>1, <1>3, <3>1 DEF Builds, Grows, KnownTo
    <3>2. CASE host \notin DOMAIN b.resolver.memory
      BY <1>1, <1>3, <2>1, <2>5, <3>2 DEF Hears
    <3>3. QED
      BY <3>1, <3>2
  <2>7. ObjectGiven(d, kind, name).addresses = ObjectGiven(c, kind, name).addresses
    BY <1>6, <2>1, <2>3, <2>5, <2>6 DEF ObjectGiven, ResolvedObject
  <2>8. QED
    BY <1>2, <1>4, <2>7 DEF IsFound
<1>7. QED
  BY <1>5, <1>6

(***************************************************************************)
(* The members of a pool, registered in order.                             *)
(***************************************************************************)
LEMMA GroupIsMulti ==
    ASSUME NEW nw, NEW kind, NEW name, NEW members
    PROVE  CacheGroup(nw, kind, name, members)
              = CacheMulti(nw, kind, name, UNION {MemberValues(nw.cache[kind], m) : m \in Range(members)})
BY DEF CacheGroup, CacheMulti

InCache(b, kind, name) ==
    \/ name \in DOMAIN b.network.cache[kind].objects
    \/ name \in DOMAIN b.network.cache[kind].groups

\* The pools of the store, as they are for each kind of cache.
LEMMA PoolsAreOK ==
    ASSUME Fair, NEW kind \in DictionaryKind
    PROVE  PoolsOK(PoolsOf(kind))
BY DictionaryKinds DEF Fair, StoreOK, PoolsOf, PoolsOK

LEMMA MembersAreNoLiterals ==
    ASSUME Fair, NEW kind \in DictionaryKind, kind # "url", NEW p \in DOMAIN PoolsOf(kind),
           NEW m \in Range(PoolsOf(kind)[p])
    PROVE  ~IsLiteral(kind, m)
<1>1. DictionaryOf(kind) \in ObjectKind
  BY DictionaryKinds
<1>2. p \in DOMAIN store[DictionaryOf(kind)].pools
  BY DEF PoolsOf
<1>3. Range(PoolsOf(kind)[p]) \cap Literals = {}
  BY <1>1, <1>2 DEF Fair, CachesCanDiffer, HasLiteralMembers, PoolsOf
<1>4. QED
  BY <1>3 DEF IsLiteral

\* A member that is registered is looked up as what it means.
LEMMA MemberMeans ==
    ASSUME Fair, NEW kind \in DictionaryKind, kind # "url", NEW p \in DOMAIN PoolsOf(kind),
           NEW m \in Range(PoolsOf(kind)[p]), NEW b, Truthful(b), NEW known, Agrees(known, b),
           HasObject(known, kind, m) \/ m \in DOMAIN PoolsOf(kind) => InCache(b, kind, m)
    PROVE  MemberValues(b.network.cache[kind], m) = LeafMeaning(known, kind, m)
<1> DEFINE cache == b.network.cache[kind]
<1>1. kind \in CacheKind /\ kind \notin ZoneKind
  BY NotZone
<1>2. ~IsLiteral(kind, m)
  BY MembersAreNoLiterals
<1>3. CachesTrue(known, b.network)
  BY DEF Truthful
<1>4. CASE m \in DOMAIN cache.objects
  <2>1. ObjectTrue(known, kind, m, cache.objects[m])
    BY <1>1, <1>3, <1>4 DEF CachesTrue
  <2>2. HasObject(known, kind, m) /\ cache.objects[m] = ObjectMeaning(known, kind, m)
    BY <1>1, <1>2, <2>1 DEF ObjectTrue
  <2>3. LeafMeaning(known, kind, m) = ObjectMeaning(known, kind, m)
    BY <2>2, ObjectMeans
  <2>4. MemberValues(cache, m) = cache.objects[m]
    BY <1>4 DEF MemberValues
  <2>5. QED
    BY <2>2, <2>3, <2>4
<1>5. CASE m \notin DOMAIN cache.objects /\ m \in DOMAIN cache.groups
  <2>1. MemberValues(cache, m) = cache.groups[m]
    BY <1>5 DEF MemberValues
  <2>2. QED
    BY <1>1, <1>3, <1>5, <2>1 DEF CachesTrue
<1>6. CASE m \notin DOMAIN cache.objects /\ m \notin DOMAIN cache.groups
  <2>1. MemberValues(cache, m) = {}
    BY <1>6 DEF MemberValues
  <2>2. ~HasObject(known, kind, m) /\ m \notin DOMAIN PoolsOf(kind)
    BY <1>6 DEF InCache
  <2>3. QED
    BY <2>1, <2>2, UnknownMeans
<1>7. QED
  BY <1>4, <1>5, <1>6

\* The entries are those of the pool, whatever is learnt later.
Listed(start, b, kind, p, entries) ==
    Truthful(start) /\ ~b.failing =>
        /\ NoLoop(entries)
        /\ \A i \in DOMAIN entries : IsResolved(b, kind, entries[i].name)
        /\ \A known : Agrees(known, b) =>
              ~HasObject(known, kind, p) /\ entries = PoolEntries(known, kind, p)

IsRegistered(b, kind, entry) ==
    /\ entry.type = "object" => InCache(b, kind, entry.name)
    /\ entry.type = "pool" => entry.name \in DOMAIN b.network.cache[kind].groups

LEMMA StaysRegistered ==
    ASSUME NEW b, NEW c, Grows(b, c), NEW kind \in CacheKind, NEW entry, IsRegistered(b, kind, entry)
    PROVE  IsRegistered(c, kind, entry)
BY DEF Grows, IsRegistered, InCache

\* A pool that comes after its members means what they mean.
LEMMA NestedPoolMeans ==
    ASSUME Fair, NEW kind \in DictionaryKind, kind # "url", NEW p \in DOMAIN PoolsOf(kind),
           NEW start, NEW b, Grows(start, b), Truthful(b), NEW known, Agrees(known, b),
           NEW entries, NoLoop(entries), ~HasObject(known, kind, p), entries = PoolEntries(known, kind, p),
           NEW i \in DOMAIN entries, entries[i].type = "pool",
           \A j \in DOMAIN entries : j < i => IsRegistered(b, kind, entries[j])
    PROVE  LET q == entries[i].name IN
           UNION {MemberValues(b.network.cache[kind], m) : m \in Range(PoolsOf(kind)[q])}
              = LeafMeaning(known, kind, q)
<1> DEFINE objects == KnownObjects(known, kind)
           pools == PoolsOf(kind)
           T == Traversal(objects, pools)
           q == entries[i].name
<1>1. entries = T[p] /\ NoLoop(T[p])
  BY DEF PoolEntries
<1>2. PoolsOK(pools)
  BY PoolsAreOK
<1>3. \A name : HasObject(known, kind, name) <=> name \in objects
  BY KnownIs
<1>4. \A name : PoolEntries(known, kind, name) = T[name]
  BY DEF PoolEntries
<1>5. p \in DOMAIN pools
  OBVIOUS
<1> HIDE DEF objects, pools, T, q
<1>6. /\ T[p] \in Seq(EntryRecord)
      /\ \A e : In(e, T[p]) => Typed(e, objects, pools, p)
      /\ \A x : In(Entry("pool", x), T[p]) => x \in DOMAIN pools /\ NoLoop(T[x])
      /\ Ordered(T[p], pools)
  BY <1>1, <1>2, <1>5, TraversalOK DEF T
<1>7. \A j \in DOMAIN entries : In(entries[j], T[p]) /\ entries[j] \in EntryRecord
  BY <1>1, <1>6 DEF In, Typed
<1>8. entries[i] = Entry("pool", q)
  BY <1>7 DEF EntryRecord, Entry, q
<1>9. q \in DOMAIN pools /\ NoLoop(T[q])
  BY <1>6, <1>7, <1>8
<1>10. q \notin objects
  <2>1. q \notin objects \/ q = p
    BY <1>6, <1>7 DEF Typed, q
  <2>2. QED
    BY <1>3, <2>1
<1>11. LeafMeaning(known, kind, q) = UNION {LeafMeaning(known, kind, m) : m \in Range(pools[q])}
  BY <1>2, <1>3, <1>4, <1>9, <1>10, PoolIsMembers DEF pools
<1>12. ASSUME NEW m \in Range(pools[q])
       PROVE  MemberValues(b.network.cache[kind], m) = LeafMeaning(known, kind, m)
  <2>1. PICK k \in DOMAIN pools[q] : m = pools[q][k]
    BY DEF Range
  <2>2. PICK j \in DOMAIN entries : j < i /\ entries[j].name = m
    <3>1. Ordered(entries, pools)
      BY <1>1, <1>6
    <3>2. \A l \in DOMAIN pools[entries[i].name] :
              \E j \in DOMAIN entries : j < i /\ entries[j].name = pools[entries[i].name][l]
      BY <3>1 DEF Ordered
    <3>3. QED
      BY <2>1, <3>2 DEF q
  <2>3. IsRegistered(b, kind, entries[j])
    BY <2>2
  <2>4. Typed(entries[j], objects, pools, p) /\ entries[j].type # "loop"
    BY <1>1, <1>6, <1>7 DEF NoLoop
  <2>5. HasObject(known, kind, m) \/ m \in DOMAIN pools => InCache(b, kind, m)
    <3>1. entries[j].type \in {"object", "pool", "unresolved", "loop"}
      BY <1>7 DEF EntryRecord
    <3>2. QED
      BY <1>3, <2>2, <2>3, <2>4, <3>1 DEF Typed, IsRegistered, InCache
  <2>6. QED
    BY <1>9, <2>5, MemberMeans DEF pools
<1>13. QED
  BY <1>11, <1>12 DEF q, pools

\* The resolver is left alone, and nothing is added to the row yet.
Beside(b, c) ==
    /\ c.resolver = b.resolver /\ c.failing = b.failing
    /\ c.groups = b.groups /\ c.unresolved = b.unresolved

LEMMA RegisterMemberIs ==
    ASSUME Fair, NEW kind \in DictionaryKind, kind # "url", NEW p \in DOMAIN PoolsOf(kind),
           NEW entries, NEW start, NEW listed, Listed(start, listed, kind, p, entries),
           NEW first, NEW b, Sound(first, b), Builds(start, b), Grows(listed, b), Beside(listed, b),
           NEW i \in DOMAIN entries, entries[i] \in EntryRecord,
           \A j \in DOMAIN entries : entries[j].type = "object" => ~IsLiteral(kind, entries[j].name),
           Truthful(start) /\ ~b.failing /\ ~b.thrown =>
              \A j \in DOMAIN entries : j < i => IsRegistered(b, kind, entries[j])
    PROVE  LET c == RegisterMember(b, kind, entries[i]) IN
           /\ BuildsFrom(start, b, c) /\ Beside(listed, c)
           /\ ~c.thrown => ~b.thrown
           /\ Truthful(start) /\ ~c.failing /\ ~c.thrown => IsRegistered(c, kind, entries[i])
<1> DEFINE entry == entries[i]
           c == RegisterMember(b, kind, entry)
<1>0. kind \in CacheKind
  BY NotZone
<1>1. CASE b.thrown \/ ~IsMember(entry)
  <2>1. c = b
    BY <1>1 DEF RegisterMember
  <2>2. BuildsFrom(start, b, b)
    BY BuildsSelf DEF Builds, BuildsFrom
  <2>3. ~b.thrown => IsRegistered(b, kind, entry)
    BY <1>1 DEF IsRegistered, IsMember
  <2> HIDE DEF c, entry
  <2>4. QED
    BY <2>1, <2>2, <2>3 DEF c, entry
<1>2. CASE ~b.thrown /\ IsMember(entry) /\ entry.type = "object"
  <2> DEFINE object == ObjectGiven(b, kind, entry.name)
             part == PartOf(IsMulti(kind, object))
  <2>1. c = RegisterObject(b, kind, object)
    BY <1>2 DEF RegisterMember
  <2> HIDE DEF c
  <2>2. ASSUME Truthful(start), Truthful(b), ~b.failing
        PROVE  /\ object.name = entry.name
               /\ \A known : Agrees(known, b) =>
                     /\ HasObject(known, kind, entry.name)
                     /\ kind \in {"src", "dst", "svc"} => object.addresses = ObjectMeaning(known, kind, entry.name)
    <3>1. ~listed.failing /\ \A known : Agrees(known, b) => Agrees(known, listed)
      BY <2>2, AgreesBefore DEF Beside
    <3>2. IsResolved(b, kind, entry.name)
      BY <2>2, <3>1 DEF Listed, Beside, IsResolved
    <3>3. FilteredTrue(b.resolver)
      BY <2>2 DEF Truthful
    <3>4. ASSUME NEW known, Agrees(known, b)
          PROVE  HasObject(known, kind, entry.name)
      <4>1. entries = PoolEntries(known, kind, p) /\ ~HasObject(known, kind, p) /\ NoLoop(entries)
        BY <2>2, <3>1, <3>4 DEF Listed
      <4> DEFINE objects == KnownObjects(known, kind)
                 pools == PoolsOf(kind)
      <4>2. entries = Traversal(objects, pools)[p]
        BY <4>1 DEF PoolEntries
      <4>3. PoolsOK(pools) /\ p \in DOMAIN pools
        BY PoolsAreOK
      <4> HIDE DEF objects, pools
      <4>4. \A e : In(e, entries) => Typed(e, objects, pools, p)
        BY <4>1, <4>2, <4>3, TraversalOK
      <4>5. entry.name \in objects
        BY <1>2, <4>4 DEF In, Typed
      <4>6. QED
        BY <4>5, KnownIs DEF objects
    <3>5. ASSUME NEW known, Agrees(known, b)
          PROVE  /\ object.name = entry.name
                 /\ kind \in {"src", "dst", "svc"} => object.addresses = ObjectMeaning(known, kind, entry.name)
      BY <3>2, <3>3, <3>4, <3>5, ObjectGivenIs
    <3>6. \E known : Agrees(known, b)
      <4> DEFINE known == [hosts |-> b.resolver.memory, ids |-> [gen \in Generator |-> b.network.gen[gen].ids]]
      <4>1. Agrees(known, b)
        BY DEF Agrees
      <4>2. QED
        BY <4>1
    <3>7. QED
      BY <3>4, <3>5, <3>6
  <2>3. ~IsLiteral(kind, entry.name)
    BY <1>2
  <2> HIDE DEF object
  <2>4. Stands(start, b, kind, object, entry.name)
    BY <2>2 DEF Stands
  <2>5. Registers(start, b, c, kind, part, object.name)
    BY <1>2, <2>1, <2>3, <2>4, RegisterObjectIs
  <2>6. Truthful(start) /\ ~c.failing /\ ~c.thrown => InCache(c, kind, entry.name)
    <3> SUFFICES ASSUME Truthful(start), ~c.failing, ~c.thrown
                 PROVE  InCache(c, kind, entry.name)
      OBVIOUS
    <3>1. ~b.failing /\ Truthful(b)
      BY <2>5 DEF Registers, Builds
    <3>2. object.name = entry.name
      BY <2>2, <3>1
    <3>3. QED
      BY <2>5, <3>2 DEF Registers, InCache, PartOf, part
  <2>7. Beside(listed, c)
    BY <2>5 DEF Registers, Beside
  <2>8. QED
    BY <1>2, <2>5, <2>6, <2>7 DEF Registers, IsRegistered, c
<1>3. CASE ~b.thrown /\ IsMember(entry) /\ entry.type # "object"
  <2> DEFINE q == entry.name
             values == UNION {MemberValues(b.network.cache[kind], m) : m \in Range(PoolsOf(kind)[q])}
             nw == CacheMulti(b.network, kind, q, values)
  <2>1. entry.type = "pool"
    BY <1>3 DEF IsMember
  <2>2. c = [b EXCEPT !.network = nw]
    <3>1. c = [b EXCEPT !.network = CacheGroup(b.network, kind, q, PoolsOf(kind)[q])]
      BY <1>3 DEF RegisterMember
    <3>2. CacheGroup(b.network, kind, q, PoolsOf(kind)[q]) = nw
      BY GroupIsMulti
    <3> HIDE DEF nw, c
    <3>3. QED
      BY <3>1, <3>2
  <2> HIDE DEF c
  <2>3. ASSUME Truthful(start), Truthful(b), ~b.failing, NEW known, Agrees(known, b)
        PROVE  values = LeafMeaning(known, kind, q)
    <3>1. ~listed.failing /\ Agrees(known, listed)
      BY <2>3, AgreesBefore DEF Beside
    <3>2. entries = PoolEntries(known, kind, p) /\ ~HasObject(known, kind, p) /\ NoLoop(entries)
      BY <2>3, <3>1 DEF Listed
    <3>3. QED
      BY <1>3, <2>1, <2>3, <3>1, <3>2, NestedPoolMeans
  <2> HIDE DEF values, q
  <2>4. Registers(start, b, [b EXCEPT !.network = nw], kind, "groups", q)
    <3>1. Truthful(start) /\ Truthful(b) /\ ~b.failing =>
             \A known : Agrees(known, b) => values = LeafMeaning(known, kind, q)
      BY <2>3
    <3>2. QED
      BY <1>0, <1>3, <3>1, RegistersGroup
  <2> HIDE DEF nw
  <2>5. Registers(start, b, c, kind, "groups", q)
    BY <2>2, <2>4
  <2>6. IsMember(entry) /\ entry.name = q
    BY <1>3 DEF q
  <2>7. Beside(listed, c)
    BY <2>5 DEF Registers, Beside
  <2>8. /\ ~c.thrown => ~b.thrown
        /\ ~c.thrown => IsRegistered(c, kind, entry)
    BY <2>1, <2>5, <2>6 DEF Registers, IsRegistered
  <2>9. QED
    BY <2>5, <2>7, <2>8 DEF Registers, c
<1>4. QED
  BY <1>1, <1>2, <1>3

\* All the members of a pool are registered, and nothing else happens.
LEMMA RegisterAllIs ==
    ASSUME Fair, NEW kind \in DictionaryKind, kind # "url", NEW p \in DOMAIN PoolsOf(kind),
           NEW entries \in Seq(EntryRecord), NEW first, NEW start,
           NEW b, Sound(first, b), Builds(start, b), Listed(start, b, kind, p, entries),
           \A j \in DOMAIN entries : entries[j].type = "object" => ~IsLiteral(kind, entries[j].name)
    PROVE  LET c == RegisterAll(b, kind, entries) IN
           /\ Builds(start, c) /\ Grows(b, c) /\ Beside(b, c)
           /\ Truthful(start) /\ ~c.failing /\ ~c.thrown =>
                 \A j \in DOMAIN entries : IsRegistered(c, kind, entries[j])
<1> DEFINE job == Job("register", kind, {})
           n == Len(entries)
<1>1. n \in Nat /\ DOMAIN entries = 1 .. n /\ \A i \in DOMAIN entries : entries[i] \in EntryRecord
  BY LenProperties, ElementOfSeq
<1> HIDE DEF n
<1>2. PICK f : Folds(f, n, job, b, entries) /\ RegisterAll(b, kind, entries) = f[1 .. n]
  <2>1. Outcome(RegisterAll(b, kind, entries), n, job, b, entries)
    BY <1>1, RegisterIsFold
  <2>2. QED
    BY <2>1 DEF Outcome
<1>3. \A acc, x : Step(job, acc, x) = RegisterMember(acc, kind, x)
  BY DEF Step, Job
<1> HIDE DEF job
<1>4. PICK g : Runs(g, n, job, b, entries) /\ g[n] = f[1 .. n]
  BY <1>1, <1>2, FoldRuns
<1> DEFINE Good == {m \in 0 .. n :
              /\ Sound(first, g[m]) /\ Builds(start, g[m])
              /\ Grows(b, g[m]) /\ Beside(b, g[m])
              /\ Truthful(start) /\ ~g[m].failing /\ ~g[m].thrown =>
                    \A j \in DOMAIN entries : j <= m => IsRegistered(g[m], kind, entries[j])}
<1>5. 0 \in Good
  <2>1. g[0] = b
    BY <1>4 DEF Runs
  <2>2. Grows(b, b) /\ Beside(b, b)
    BY BuildsSelf DEF Beside, Builds
  <2>3. \A j \in DOMAIN entries : ~(j <= 0)
    BY <1>1
  <2>4. QED
    BY <1>1, <2>1, <2>2, <2>3
<1>6. ASSUME NEW m \in 1 .. n, m - 1 \in Good
      PROVE  m \in Good
  <2> DEFINE d == g[m - 1]
             c == g[m]
  <2>1. /\ Sound(first, d) /\ Builds(start, d) /\ Grows(b, d) /\ Beside(b, d)
        /\ Truthful(start) /\ ~d.failing /\ ~d.thrown =>
              \A j \in DOMAIN entries : j <= m - 1 => IsRegistered(d, kind, entries[j])
    BY <1>6
  <2>2. c = RegisterMember(d, kind, entries[m])
    BY <1>3, <1>4 DEF Runs
  <2>3. /\ m \in DOMAIN entries /\ entries[m] \in EntryRecord /\ m \in 0 .. n
        /\ \A j \in DOMAIN entries : j < m => j <= m - 1
        /\ \A j \in DOMAIN entries : j <= m => j = m \/ j <= m - 1
    BY <1>1
  <2> HIDE DEF d, c
  <2>4. Truthful(start) /\ ~d.failing /\ ~d.thrown =>
              \A j \in DOMAIN entries : j < m => IsRegistered(d, kind, entries[j])
    BY <2>1, <2>3
  <2>5. /\ BuildsFrom(start, d, c) /\ Beside(b, c)
        /\ ~c.thrown => ~d.thrown
        /\ Truthful(start) /\ ~c.failing /\ ~c.thrown => IsRegistered(c, kind, entries[m])
    BY <2>1, <2>2, <2>3, <2>4, RegisterMemberIs
  <2>6. Sound(first, c)
    BY <2>1, <2>2, RegisterMemberKeeps
  <2>7. Builds(start, c) /\ Grows(b, c)
    BY <2>1, <2>5, BuildsFurther, GrowsAgain DEF BuildsFrom
  <2>8. ASSUME Truthful(start), ~c.failing, ~c.thrown, NEW j \in DOMAIN entries, j <= m
        PROVE  IsRegistered(c, kind, entries[j])
    <3>1. CASE j = m
      BY <2>5, <2>8, <3>1
    <3>2. CASE j # m
      <4>1. j <= m - 1
        BY <2>3, <2>8, <3>2
      <4>2. ~d.failing /\ ~d.thrown /\ Grows(d, c)
        BY <2>5, <2>8 DEF BuildsFrom, Grows
      <4>3. IsRegistered(d, kind, entries[j])
        BY <2>1, <2>8, <4>1, <4>2
      <4>4. kind \in CacheKind
        BY NotZone
      <4>5. QED
        BY <4>2, <4>3, <4>4, StaysRegistered
    <3>3. QED
      BY <3>1, <3>2
  <2>9. QED
    BY <2>3, <2>5, <2>6, <2>7, <2>8 DEF c
<1> HIDE DEF Good
<1>7. \A m \in 0 .. n : m \in Good
  BY <1>1, <1>5, <1>6, UpTo
<1>8. n \in Good
  BY <1>1, <1>7
<1>9. \A j \in DOMAIN entries : j <= n
  BY <1>1
<1>10. QED
  BY <1>1, <1>2, <1>4, <1>8, <1>9 DEF Good

\* What is asked for are all the entries, unless there is a loop.
LEMMA AskedForAll ==
    ASSUME NEW entries, NoLoop(entries), DOMAIN entries = 1 .. Len(entries)
    PROVE  AskedFor(entries) = entries
<1> DEFINE Loops == {i \in 1 .. Len(entries) : entries[i].type = "loop"}
<1>1. Loops = {}
  BY DEF NoLoop, In
<1>2. AskedFor(entries) = LET loop == IF Loops # {} THEN Min(Loops) ELSE 0 IN
                          IF loop = 0 THEN entries ELSE SubSeq(entries, 1, loop - 1)
  BY DEF AskedFor, SelectInSeq
<1> HIDE DEF Loops
<1>3. QED
  BY <1>1, <1>2

\* The traversal of a pool is not changed by what is learnt of its hosts.
LEMMA PoolListed ==
    ASSUME Fair, NEW kind \in DictionaryKind, NEW p \in DOMAIN PoolsOf(kind), NEW answers,
           NEW first, NEW b, Sound(first, b), ~b.failing => IsResolved(b, kind, p), ~IsFound(b, kind, p),
           NEW entries, entries = Traversal(FoundObjects(b, kind, answers), PoolsOf(kind))[p], NoLoop(entries),
           NEW c, Asked(b, c, answers),
           ~c.failing => \A i \in DOMAIN entries : IsResolved(c, kind, entries[i].name)
    PROVE  Listed(b, c, kind, p, entries)
<1> SUFFICES ASSUME Truthful(b), ~c.failing
             PROVE  \A known : Agrees(known, c) =>
                       ~HasObject(known, kind, p) /\ entries = PoolEntries(known, kind, p)
  BY DEF Listed
<1> SUFFICES ASSUME NEW known, Agrees(known, c)
             PROVE  ~HasObject(known, kind, p) /\ entries = PoolEntries(known, kind, p)
  OBVIOUS
<1>1. ~HasObject(known, kind, p)
  <2>1. Agrees(known, b) /\ ~b.failing
    BY AgreesBefore DEF Asked, Builds, Grows
  <2>2. FilteredTrue(b.resolver)
    BY DEF Truthful
  <2>3. QED
    BY <2>1, <2>2, ObjectGivenIs
<1>2. entries = PoolEntries(known, kind, p)
  <2> DEFINE found == FoundObjects(b, kind, answers)
             pools == PoolsOf(kind)
             objects == KnownObjects(known, kind)
  <2>1. \A e : In(e, entries) => (e.name \in found <=> e.name \in objects)
    <3> SUFFICES ASSUME NEW e, In(e, entries)
                 PROVE  e.name \in found <=> e.name \in objects
      OBVIOUS
    <3>1. IsResolved(c, kind, e.name)
      BY DEF In
    <3> DEFINE name == e.name
    <3> HIDE DEF name
    <3>2. name \in FoundObjects(b, kind, answers) <=> HasObject(known, kind, name)
      BY <3>1, FoundIsKnown DEF name
    <3>3. QED
      BY <3>2, KnownIs DEF name
  <2>2. PoolsOK(pools) /\ p \in DOMAIN pools /\ entries = Traversal(found, pools)[p]
    BY PoolsAreOK
  <2>3. PoolEntries(known, kind, p) = Traversal(objects, pools)[p]
    BY DEF PoolEntries
  <2> HIDE DEF found, pools, objects
  <2>4. \A e : In(e, Traversal(found, pools)[p]) => (e.name \in found <=> e.name \in objects)
    BY <2>1, <2>2
  <2>5. Traversal(objects, pools)[p] = Traversal(found, pools)[p]
    BY <2>2, <2>4, TraversalCongruent
  <2>6. QED
    BY <2>2, <2>3, <2>5
<1>3. QED
  BY <1>1, <1>2

\* A pool with a loop stops the load.
LEMMA AddLoopIs ==
    ASSUME Fair, NEW kind \in DictionaryKind, NEW p, NEW answers,
           NEW entries \in Seq(EntryRecord), HasLoop(entries), NEW first, NEW b, Sound(first, b), NEW word
    PROVE  Built(b, AddPool(b, kind, p, entries, answers), kind, {word})
<1> DEFINE asked == AskAll(b, kind, AskedFor(entries), answers)
           c == AddPool(b, kind, p, entries, answers)
<1>1. c = [asked EXCEPT !.thrown = TRUE]
  BY DEF AddPool
<1>2. Asked(b, asked, answers)
  BY AskedForIsSequence, AskAllIs
<1>3. Sound(first, asked)
  BY AskedForIsSequence, AskAllKeeps DEF Fair
<1> HIDE DEF asked, c
<1>4. c.resolver = asked.resolver /\ c.network = asked.network /\ c.failing = asked.failing /\ c.thrown = TRUE
  BY <1>1, <1>3 DEF Sound
<1>5. Builds(asked, c)
  BY <1>4, SameCaches
<1>6. Builds(b, c)
  BY <1>2, <1>5, BuildsAgain DEF Asked
<1>7. QED
  BY <1>4, <1>6 DEF Built, c

LEMMA AddUnresolvedGives ==
    ASSUME NEW first, NEW b, Sound(first, b), NEW kind, NEW names
    PROVE  LET c == AddUnresolved(b, kind, names) IN
           /\ c.network = b.network /\ c.resolver = b.resolver /\ c.failing = b.failing
           /\ c.groups = b.groups /\ c.thrown = b.thrown
           /\ c.unresolved = b.unresolved \cup ({DictionaryOf(kind)} \X names)
<1> DEFINE more == b.unresolved \cup ({DictionaryOf(kind)} \X names)
           c == AddUnresolved(b, kind, names)
<1>1. c = [b EXCEPT !.unresolved = more]
  BY DEF AddUnresolved
<1> HIDE DEF more, c
<1>2. /\ c.network = b.network /\ c.resolver = b.resolver /\ c.failing = b.failing
      /\ c.groups = b.groups /\ c.thrown = b.thrown /\ c.unresolved = more
  BY <1>1, SoundParts
<1>3. QED
  BY <1>2 DEF c, more

\* The objects a pool is made of are no literals.
LEMMA ObjectsAreNoLiterals ==
    ASSUME Fair, NEW kind \in DictionaryKind, kind # "url", NEW p \in DOMAIN PoolsOf(kind), NEW objects,
           NEW entries, entries = Traversal(objects, PoolsOf(kind))[p], NoLoop(entries)
    PROVE  \A j \in DOMAIN entries : entries[j].type = "object" => ~IsLiteral(kind, entries[j].name)
<1> SUFFICES ASSUME NEW j \in DOMAIN entries, entries[j].type = "object"
             PROVE  ~IsLiteral(kind, entries[j].name)
  OBVIOUS
<1> DEFINE pools == PoolsOf(kind)
           entry == entries[j]
<1>1. PoolsOK(pools) /\ p \in DOMAIN pools /\ entries = Traversal(objects, pools)[p]
  BY PoolsAreOK
<1>2. In(entry, entries) /\ entry.type = "object"
  BY DEF In
<1> HIDE DEF pools, entry
<1>3. Typed(entry, objects, pools, p)
  BY <1>1, <1>2, TraversalOK
<1>4. MemberOf(entry.name, pools)
  BY <1>2, <1>3 DEF Typed
<1>5. ~IsLiteral(kind, entry.name)
  BY <1>4, MembersAreNoLiterals DEF MemberOf, pools
<1>6. QED
  BY <1>5 DEF entry

LEMMA AddPoolIs ==
    ASSUME Fair, NEW kind \in DictionaryKind, NEW p \in DOMAIN PoolsOf(kind), ~IsLiteral(kind, p), NEW answers,
           NEW first, NEW b, Sound(first, b), ~b.failing => IsResolved(b, kind, p), ~IsFound(b, kind, p)
    PROVE  LET entries == Traversal(FoundObjects(b, kind, answers), PoolsOf(kind))[p] IN
           Built(b, AddPool(b, kind, p, entries, answers), kind, {p})
<1> DEFINE objects == FoundObjects(b, kind, answers)
           pools == PoolsOf(kind)
           T == Traversal(objects, pools)
           entries == T[p]
<1>0. kind # "url" /\ kind \in CacheKind
  BY NotZone DEF IsLiteral
<1>1. PoolsOK(pools) /\ p \in DOMAIN pools /\ T = Traversal(objects, pools)
  BY PoolsAreOK
<1>2. entries \in Seq(EntryRecord)
  <2> HIDE DEF objects, pools
  <2>1. QED
    BY <1>1, TraversalIsSequence DEF PoolsOK
<1>3. CASE HasLoop(entries)
  <2> HIDE DEF entries
  <2>1. Built(b, AddPool(b, kind, p, entries, answers), kind, {p})
    BY <1>2, <1>3, AddLoopIs
  <2>2. QED
    BY <2>1 DEF entries
<1>4. CASE ~HasLoop(entries)
  <2> DEFINE asked == AskAll(b, kind, AskedFor(entries), answers)
             names == NamesOf(entries, "unresolved")
             reported == AddUnresolved(asked, kind, names)
             m == RegisterAll(reported, kind, entries)
             c == AddPool(b, kind, p, entries, answers)
  <2>1. NoLoop(entries) /\ entries = Traversal(FoundObjects(b, kind, answers), PoolsOf(kind))[p]
    BY <1>4, LoopIs
  <2>2. In(Entry("pool", p), entries)
    <3> HIDE DEF objects, pools
    <3>1. \A e : In(e, T[p]) <=>
                        \/ e = Entry("pool", p)
                        \/ \E i \in DOMAIN pools[p] : In(e, EntriesOf(objects, pools, pools[p][i], T))
      BY <1>1, <2>1, TraversalOK
    <3>2. QED
      BY <3>1
  <2>3. c = AddCached(m, kind, "groups", p)
    BY <1>4 DEF AddPool
  <2> HIDE DEF entries, c
  <2>4. DOMAIN entries = 1 .. Len(entries)
    BY <1>2, LenProperties
  <2>5. AskedFor(entries) = entries
    BY <2>1, <2>4, AskedForAll
  <2>6. /\ Asked(b, asked, answers)
        /\ ~asked.failing => \A i \in DOMAIN entries : IsResolved(asked, kind, entries[i].name)
    BY <1>2, <2>5, AskAllIs
  <2>7. Sound(first, asked)
    BY <1>2, <2>5, AskAllKeeps DEF Fair
  <2> HIDE DEF asked
  <2>8. Listed(b, asked, kind, p, entries)
    BY <2>1, <2>6, <2>7, PoolListed
  <2>9. \A j \in DOMAIN entries : entries[j].type = "object" => ~IsLiteral(kind, entries[j].name)
    BY <1>0, <2>1, ObjectsAreNoLiterals
  <2>10. /\ reported.network = asked.network /\ reported.resolver = asked.resolver
         /\ reported.failing = asked.failing /\ reported.groups = asked.groups
         /\ reported.thrown = asked.thrown
         /\ reported.unresolved = asked.unresolved \cup ({DictionaryOf(kind)} \X names)
    BY <2>7, AddUnresolvedGives
  <2>11. Sound(first, reported)
    BY <2>7, AddUnresolvedKeeps
  <2> HIDE DEF names, reported
  <2>12. Builds(b, reported)
    BY <2>6, <2>10, SameCaches, BuildsAgain DEF Asked
  <2>13. Listed(b, reported, kind, p, entries)
    BY <2>8, <2>10 DEF Listed, Agrees, IsResolved
  <2>14. /\ Builds(b, m) /\ Grows(reported, m) /\ Beside(reported, m)
         /\ Truthful(b) /\ ~m.failing /\ ~m.thrown =>
                 \A j \in DOMAIN entries : IsRegistered(m, kind, entries[j])
    BY <1>0, <1>2, <2>9, <2>11, <2>12, <2>13, RegisterAllIs
  <2>15. Sound(first, m)
    BY <1>2, <2>11, RegisterAllKeeps
  <2> HIDE DEF m
  <2>16. CASE m.thrown
    <3>1. c = m
      BY <2>3, <2>16 DEF AddCached
    <3>2. QED
      BY <2>14, <2>16, <3>1 DEF Built, c, entries
  <2>17. CASE ~m.thrown
    <3> DEFINE values == m.network.cache[kind]["groups"][p]
    <3>1. c = AddMembers(m, kind, values)
      BY <2>3, <2>17 DEF AddCached
    <3> HIDE DEF values
    <3>2. /\ c.network = m.network /\ c.resolver = m.resolver /\ c.failing = m.failing
          /\ c.unresolved = m.unresolved /\ c.thrown = m.thrown
          /\ DOMAIN c.groups = DOMAIN m.groups
          /\ \A k \in DOMAIN m.groups : c.groups[k] = IF k = kind THEN m.groups[k] \cup values ELSE m.groups[k]
      BY <2>15, <3>1, AddMembersGives
    <3>3. Builds(b, c)
      BY <2>14, <3>2, SameCaches, BuildsAgain
    <3>4. ASSUME Truthful(b), ~c.failing, ~c.thrown, NEW known, Agrees(known, c)
          PROVE  Gains(b, c, kind, Meanings(known, kind, {p}), Reports(known, kind, {p}))
      <4>1. Agrees(known, m) /\ ~m.failing /\ Truthful(m)
        BY <2>14, <3>2, <3>4 DEF Agrees, Builds
      <4>2. Agrees(known, reported) /\ ~reported.failing
        BY <2>14, <4>1, AgreesBefore DEF Beside
      <4>3. NoLoop(entries) /\ ~HasObject(known, kind, p) /\ entries = PoolEntries(known, kind, p)
        BY <2>13, <3>4, <4>2 DEF Listed
      <4>4. p \in DOMAIN m.network.cache[kind].groups
        <5>1. PICK j \in DOMAIN entries : entries[j] = Entry("pool", p)
          BY <2>2 DEF In
        <5>2. IsRegistered(m, kind, entries[j])
          BY <2>14, <2>17, <3>4, <4>1
        <5>3. QED
          BY <5>1, <5>2 DEF IsRegistered, Entry
      <4>5. values = LeafMeaning(known, kind, p)
        BY <1>0, <4>1, <4>4 DEF Truthful, CachesTrue, values
      <4>6. UnresolvedOf(known, kind, p) = names
        <5>1. PoolsOK(PoolsOf(kind)) /\ NoLoop(PoolEntries(known, kind, p))
          BY <1>1, <4>3
        <5>2. UnresolvedOf(known, kind, p) = NamesOf(PoolEntries(known, kind, p), "unresolved")
          BY <4>3, <5>1, PoolMeans
        <5>3. QED
          BY <4>3, <5>2 DEF names
      <4>7. Meanings(known, kind, {p}) = values /\ Reports(known, kind, {p}) = names
        BY <4>5, <4>6, MeaningOne, WordMeans
      <4>8. m.groups = b.groups /\ m.unresolved = b.unresolved \cup ({DictionaryOf(kind)} \X names)
        BY <2>6, <2>10, <2>14 DEF Asked, Beside
      <4>9. QED
        BY <3>2, <4>7, <4>8 DEF Gains
    <3>5. QED
      BY <3>3, <3>4 DEF Built, c, entries
  <2>18. QED
    BY <2>16, <2>17
<1>5. QED
  BY <1>3, <1>4

(***************************************************************************)
(* A name, and the names of a row.                                         *)
(***************************************************************************)
\* What a build knows agrees with it.
LEMMA SomethingAgrees ==
    ASSUME NEW b
    PROVE  \E known : Agrees(known, b)
<1> DEFINE known == [hosts |-> b.resolver.memory, ids |-> [gen \in Generator |-> b.network.gen[gen].ids]]
<1>1. Agrees(known, b)
  BY DEF Agrees
<1>2. QED
  BY <1>1

LEMMA AddLookedUpIs ==
    ASSUME Fair, NEW kind \in DictionaryKind, NEW name, ~IsLiteral(kind, name), NEW answers,
           NEW first, NEW b, Sound(first, b), ~b.thrown, ~b.failing => IsResolved(b, kind, name)
    PROVE  Built(b, AddLookedUp(b, kind, name, answers), kind, {name})
<1>1. CASE IsFound(b, kind, name)
  <2> DEFINE object == ObjectGiven(b, kind, name)
  <2>1. AddLookedUp(b, kind, name, answers) = AddObject(b, kind, object)
    BY <1>1 DEF AddLookedUp
  <2>2. ASSUME Truthful(b), ~b.failing, NEW known, Agrees(known, b)
        PROVE  /\ object.name = name /\ HasObject(known, kind, name)
               /\ kind \in {"src", "dst", "svc"} => object.addresses = ObjectMeaning(known, kind, name)
    <3>1. FilteredTrue(b.resolver) /\ IsResolved(b, kind, name)
      BY <2>2 DEF Truthful
    <3>2. QED
      BY <1>1, <2>2, <3>1, ObjectGivenIs
  <2>3. Truthful(b) /\ ~b.failing => object.name = name
    BY <2>2, SomethingAgrees
  <2> HIDE DEF object
  <2>4. Stands(b, b, kind, object, name)
    BY <2>2, <2>3 DEF Stands
  <2>5. QED
    BY <2>1, <2>4, AddObjectIs
<1>2. CASE ~IsFound(b, kind, name) /\ name \in DOMAIN PoolsOf(kind)
  <2>1. AddLookedUp(b, kind, name, answers)
           = AddPool(b, kind, name, Traversal(FoundObjects(b, kind, answers), PoolsOf(kind))[name], answers)
    BY <1>2 DEF AddLookedUp
  <2>2. QED
    BY <1>2, <2>1, AddPoolIs
<1>3. CASE ~IsFound(b, kind, name) /\ name \notin DOMAIN PoolsOf(kind)
  <2>1. AddLookedUp(b, kind, name, answers) = AddUnresolved(b, kind, {name})
    BY <1>3 DEF AddLookedUp
  <2>2. Truthful(b) /\ ~b.failing => \A known : Agrees(known, b) => ~HasObject(known, kind, name)
    <3> SUFFICES ASSUME Truthful(b), ~b.failing, NEW known, Agrees(known, b)
                 PROVE  ~HasObject(known, kind, name)
      OBVIOUS
    <3>1. FilteredTrue(b.resolver) /\ IsResolved(b, kind, name)
      BY DEF Truthful
    <3>2. QED
      BY <1>3, <3>1, ObjectGivenIs
  <2>3. Built(b, AddUnresolved(b, kind, {name}), kind, {name})
    BY <1>3, <2>2, AddUnresolvedIs
  <2>4. QED
    BY <2>1, <2>3
<1>4. QED
  BY <1>1, <1>2, <1>3

LEMMA AddNameIs ==
    ASSUME Fair, NEW kind \in DictionaryKind, NEW name, NEW answers, NEW first, NEW b, Sound(first, b)
    PROVE  Built(b, AddName(b, kind, name, answers), kind, {name})
<1>1. CASE b.thrown
  <2>1. AddName(b, kind, name, answers) = b
    BY <1>1 DEF AddName
  <2>2. QED
    BY <1>1, <2>1, BuildsSelf DEF Built
<1>2. CASE ~b.thrown /\ IsLiteral(kind, name)
  <2>1. AddName(b, kind, name, answers) = AddLiteral(b, kind, name)
    BY <1>2 DEF AddName
  <2>2. QED
    BY <1>2, <2>1, AddLiteralIs
<1>3. CASE ~b.thrown /\ ~IsLiteral(kind, name)
  <2> DEFINE d == GetObject(b, kind, name, answers)
             c == AddLookedUp(d, kind, name, answers)
  <2>1. AddName(b, kind, name, answers) = c
    BY <1>3 DEF AddName
  <2>2. Sound(first, d)
    BY GetObjectKeeps DEF Fair
  <2>3. /\ d.network = b.network /\ d.groups = b.groups /\ d.unresolved = b.unresolved
        /\ d.thrown = b.thrown
        /\ Builds(b, d) /\ (~d.failing => IsResolved(d, kind, name))
    <3> DEFINE get == GetObject(b, kind, name, answers)
    <3>1. get = GetObject(b, kind, name, answers)
      OBVIOUS
    <3> HIDE DEF get
    <3>2. /\ get.network = b.network /\ get.groups = b.groups /\ get.unresolved = b.unresolved
          /\ get.thrown = b.thrown
          /\ Builds(b, get) /\ (~get.failing => IsResolved(get, kind, name))
      BY <3>1, GetObjectGives
    <3>3. QED
      BY <3>2 DEF get
  <2> HIDE DEF d
  <2>4. Built(b, d, kind, {})
    <3>1. \A known : Meanings(known, kind, {}) = {} /\ Reports(known, kind, {}) = {}
      BY DEF Meanings, Reports
    <3>2. {DictionaryOf(kind)} \X {} = {}
      OBVIOUS
    <3>3. QED
      BY <2>3, <3>1, <3>2 DEF Built, Gains
  <2>5. Built(d, c, kind, {name})
    BY <1>3, <2>2, <2>3, AddLookedUpIs
  <2> HIDE DEF c
  <2>6. Built(b, c, kind, {} \cup {name})
    BY <2>4, <2>5, BuiltMore
  <2>7. {} \cup {name} = {name}
    OBVIOUS
  <2>8. QED
    BY <2>1, <2>6, <2>7
<1>4. QED
  BY <1>1, <1>2, <1>3

\* The names of a sequence, up to a position.
UpToNames(names, m) == {names[i] : i \in 1 .. m}

LEMMA OneMoreName ==
    ASSUME NEW names, NEW m \in Nat \ {0}
    PROVE  UpToNames(names, m) = UpToNames(names, m - 1) \cup {names[m]}
<1>1. 1 .. m = 1 .. (m - 1) \cup {m}
  OBVIOUS
<1>2. QED
  BY <1>1 DEF UpToNames

\* One step after the other.
LEMMA RunsBuild ==
    ASSUME NEW job, NEW kind, NEW names, NEW n \in Nat, NEW g, NEW first, NEW b, Sound(first, b),
           Runs(g, n, job, b, names),
           \A acc : Sound(first, acc) => \A i \in 1 .. n :
              /\ Sound(first, Step(job, acc, names[i]))
              /\ Built(acc, Step(job, acc, names[i]), kind, {names[i]})
    PROVE  Built(b, g[n], kind, UpToNames(names, n))
<1> DEFINE Good == {m \in 0 .. n : Sound(first, g[m]) /\ Built(b, g[m], kind, UpToNames(names, m))}
<1>1. 0 \in Good
  <2>1. g[0] = b
    BY DEF Runs
  <2>2. UpToNames(names, 0) = {}
    BY DEF UpToNames
  <2>3. QED
    BY <2>1, <2>2, BuiltNothing
<1>2. ASSUME NEW m \in 1 .. n, m - 1 \in Good
      PROVE  m \in Good
  <2> DEFINE c == g[m - 1]
             d == g[m]
  <2>1. Sound(first, c) /\ Built(b, c, kind, UpToNames(names, m - 1))
    BY <1>2
  <2>2. d = Step(job, c, names[m])
    BY DEF Runs
  <2> HIDE DEF c, d
  <2>3. Sound(first, d) /\ Built(c, d, kind, {names[m]})
    BY <2>1, <2>2
  <2>4. Built(b, d, kind, UpToNames(names, m - 1) \cup {names[m]})
    BY <2>1, <2>3, BuiltMore
  <2>5. m \in Nat \ {0} /\ m \in 0 .. n
    OBVIOUS
  <2>6. UpToNames(names, m - 1) \cup {names[m]} = UpToNames(names, m)
    BY <2>5, OneMoreName
  <2>7. QED
    BY <2>3, <2>4, <2>5, <2>6 DEF d
<1> HIDE DEF Good
<1>3. \A m \in 0 .. n : m \in Good
  BY <1>1, <1>2, UpTo
<1>4. n \in Good
  BY <1>3
<1>5. QED
  BY <1>4 DEF Good

LEMMA BuildGroupIs ==
    ASSUME Fair, NEW kind \in DictionaryKind, NEW names \in Seq(STRING), NEW answers,
           NEW first, NEW b, Sound(first, b)
    PROVE  Built(b, BuildGroup(b, kind, names, answers), kind, Range(names))
<1> DEFINE job == Job("add", kind, answers)
           n == Len(names)
<1>1. n \in Nat /\ DOMAIN names = 1 .. n
  OBVIOUS
<1>2. Range(names) = UpToNames(names, n)
  BY <1>1 DEF Range, UpToNames
<1> HIDE DEF n
<1>3. PICK f : Folds(f, n, job, b, names) /\ BuildGroup(b, kind, names, answers) = f[1 .. n]
  <2>1. Outcome(BuildGroup(b, kind, names, answers), n, job, b, names)
    BY <1>1, AddIsFold
  <2>2. QED
    BY <2>1 DEF Outcome
<1>4. ASSUME NEW acc, Sound(first, acc), NEW i \in 1 .. n
      PROVE  /\ Sound(first, Step(job, acc, names[i]))
             /\ Built(acc, Step(job, acc, names[i]), kind, {names[i]})
  <2>1. Step(job, acc, names[i]) = AddName(acc, kind, names[i], answers)
    BY DEF Step, Job
  <2>2. QED
    BY <1>4, <2>1, AddNameKeeps, AddNameIs DEF Fair
<1> HIDE DEF job
<1>5. PICK g : Runs(g, n, job, b, names) /\ g[n] = f[1 .. n]
  BY <1>1, <1>3, FoldRuns
<1>6. Built(b, g[n], kind, UpToNames(names, n))
  BY <1>1, <1>4, <1>5, RunsBuild
<1>7. QED
  BY <1>2, <1>3, <1>5, <1>6

LEMMA BuildZoneGroupIs ==
    ASSUME NEW kind \in ZoneKind, NEW names \in Seq(STRING), NEW first, NEW b, Sound(first, b)
    PROVE  Built(b, BuildZoneGroup(b, kind, names), kind, Range(names))
<1> DEFINE job == Job("zone", kind, {})
           n == Len(names)
<1>1. n \in Nat /\ DOMAIN names = 1 .. n
  OBVIOUS
<1>2. Range(names) = UpToNames(names, n)
  BY <1>1 DEF Range, UpToNames
<1> HIDE DEF n
<1>3. PICK f : Folds(f, n, job, b, names) /\ BuildZoneGroup(b, kind, names) = f[1 .. n]
  <2>1. Outcome(BuildZoneGroup(b, kind, names), n, job, b, names)
    BY <1>1, ZoneIsFold
  <2>2. QED
    BY <2>1 DEF Outcome
<1>4. ASSUME NEW acc, Sound(first, acc), NEW i \in 1 .. n
      PROVE  /\ Sound(first, Step(job, acc, names[i]))
             /\ Built(acc, Step(job, acc, names[i]), kind, {names[i]})
  <2>1. Step(job, acc, names[i]) = AddZone(acc, kind, names[i])
    BY DEF Step, Job
  <2>2. kind \in {"src_zone", "dst_zone"}
    BY DEF ZoneKind
  <2>3. QED
    BY <1>4, <2>1, <2>2, AddZoneKeeps, AddZoneIs
<1> HIDE DEF job
<1>5. PICK g : Runs(g, n, job, b, names) /\ g[n] = f[1 .. n]
  BY <1>1, <1>3, FoldRuns
<1>6. Built(b, g[n], kind, UpToNames(names, n))
  BY <1>1, <1>4, <1>5, RunsBuild
<1>7. QED
  BY <1>2, <1>3, <1>5, <1>6

(***************************************************************************)
(* The groups of a row.                                                    *)
(***************************************************************************)
Pairs(kind, names) == {DictionaryOf(kind)} \X names

Adds(b, c, kind, V, N) ==
    /\ \A k \in CacheKind : k # kind => c.groups[k] = b.groups[k]
    /\ b.groups[kind] = {} => c.groups[kind] = V
    /\ c.unresolved = b.unresolved \cup Pairs(kind, N)

LEMMA GainsEach ==
    ASSUME NEW b, NEW c, DOMAIN b.groups = CacheKind, NEW kind \in CacheKind, NEW V, NEW N, Gains(b, c, kind, V, N)
    PROVE  Adds(b, c, kind, V, N)
<1>1. {} \cup V = V
  OBVIOUS
<1>2. QED
  BY <1>1 DEF Gains, Pairs, Adds

\* The same word is unresolved with and without the services of applications.
LEMMA SameReports ==
    ASSUME NEW known, NEW names
    PROVE  Reports(known, "app_svc", names) = Reports(known, "app", names)
<1>1. ObjectsOf("app_svc") = ObjectsOf("app") /\ PoolsOf("app_svc") = PoolsOf("app")
  BY DEF ObjectsOf, PoolsOf, DictionaryOf
<1>2. \A name : IsFqdn("app_svc", name) <=> IsFqdn("app", name)
  BY <1>1 DEF IsFqdn
<1>3. \A name : HostOf("app_svc", name) = HostOf("app", name)
  BY <1>1 DEF HostOf
<1>4. \A name : HasObject(known, "app_svc", name) <=> HasObject(known, "app", name)
  BY <1>1, <1>2, <1>3 DEF HasObject
<1>5. KnownObjects(known, "app_svc") = KnownObjects(known, "app")
  BY <1>1, <1>4 DEF KnownObjects
<1>6. \A name : Leaves(known, "app_svc", name) = Leaves(known, "app", name)
  BY <1>1, <1>4, <1>5, Zenon DEF Leaves
<1>7. \A name : IsLiteral("app_svc", name) <=> IsLiteral("app", name)
  BY DEF IsLiteral
<1>8. \A name : UnresolvedOf(known, "app_svc", name) = UnresolvedOf(known, "app", name)
  BY <1>4, <1>6, <1>7 DEF UnresolvedOf
<1>9. \A name : Reported(known, "app_svc", name) = Reported(known, "app", name)
  BY <1>8 DEF Reported, ZoneKind
<1>10. QED
  BY <1>9 DEF Reports

\* What is reported of a row, kind by kind.
LEMMA ReportIs ==
    ASSUME NEW known, NEW row
    PROVE  UnresolvedNames(known, row)
              = Pairs("src", Reports(known, "src", Range(row.src)))
                \cup Pairs("dst", Reports(known, "dst", Range(row.dst)))
                \cup Pairs(AppKind(row), Reports(known, AppKind(row), Range(row.app)))
                \cup Pairs("svc", IF DefaultAppServices(row) THEN {} ELSE Reports(known, "svc", Range(row.svc)))
                \cup Pairs("src_zone", Reports(known, "src_zone", Range(row.src_zone)))
                \cup Pairs("dst_zone", Reports(known, "dst_zone", Range(row.dst_zone)))
                \cup Pairs("user", Reports(known, "user", Range(row.user)))
                \cup Pairs("url", Reports(known, "url", Range(row.url)))
<1> DEFINE fields == {f \in RowField \ {"src_zone", "dst_zone"} : ~(f = "svc" /\ DefaultAppServices(row))}
           of(field) == Pairs(field, Reports(known, field, Range(row[field])))
<1>1. ASSUME NEW field \in RowField \ {"src_zone", "dst_zone"}
      PROVE  {DictionaryOf(field)} \X
                UNION {{leaf \in Leaves(known, field, name) :
                          ~IsLiteral(field, name) /\ ~HasObject(known, field, leaf)} : name \in Range(row[field])}
             = of(field)
  <2>1. field \notin ZoneKind
    BY DEF ZoneKind
  <2>2. \A name : {leaf \in Leaves(known, field, name) :
                     ~IsLiteral(field, name) /\ ~HasObject(known, field, leaf)} = Reported(known, field, name)
    BY <2>1 DEF Reported, UnresolvedOf
  <2>3. Reports(known, field, Range(row[field])) = UNION {Reported(known, field, name) : name \in Range(row[field])}
    BY DEF Reports
  <2>4. QED
    BY <2>2, <2>3 DEF Pairs
<1>2. UnresolvedNames(known, row) = UNION {of(field) : field \in fields}
  <2> HIDE DEF of
  <2>1. QED
    BY <1>1 DEF UnresolvedNames
<1>3. Pairs("src_zone", Reports(known, "src_zone", Range(row.src_zone))) = {}
  <2>1. \A name : Reported(known, "src_zone", name) = {}
    BY DEF Reported, ZoneKind
  <2>2. Reports(known, "src_zone", Range(row.src_zone)) = {}
    BY <2>1 DEF Reports
  <2>3. QED
    BY <2>2 DEF Pairs
<1>4. Pairs("dst_zone", Reports(known, "dst_zone", Range(row.dst_zone))) = {}
  <2>1. \A name : Reported(known, "dst_zone", name) = {}
    BY DEF Reported, ZoneKind
  <2>2. Reports(known, "dst_zone", Range(row.dst_zone)) = {}
    BY <2>1 DEF Reports
  <2>3. QED
    BY <2>2 DEF Pairs
<1>5. of("app") = Pairs(AppKind(row), Reports(known, AppKind(row), Range(row.app)))
  <2>1. DictionaryOf("app_svc") = DictionaryOf("app")
    BY DEF DictionaryOf
  <2>2. Pairs("app_svc", Reports(known, "app_svc", Range(row.app))) = of("app")
    BY <2>1, SameReports DEF Pairs
  <2>3. QED
    BY <2>2 DEF AppKind
<1>6. Pairs("svc", {}) = {}
  BY DEF Pairs
<1>7. CASE DefaultAppServices(row)
  <2>1. fields = {"src", "dst", "app", "user", "url"}
    BY <1>7 DEF RowField
  <2> HIDE DEF of, fields
  <2>2. UNION {of(field) : field \in fields} = of("src") \cup of("dst") \cup of("app") \cup of("user") \cup of("url")
    BY <2>1
  <2>3. QED
    BY <1>2, <1>3, <1>4, <1>5, <1>6, <1>7, <2>2 DEF of
<1>8. CASE ~DefaultAppServices(row)
  <2>1. fields = {"src", "dst", "svc", "app", "user", "url"}
    BY <1>8 DEF RowField
  <2> HIDE DEF of, fields
  <2>2. UNION {of(field) : field \in fields}
           = of("src") \cup of("dst") \cup of("svc") \cup of("app") \cup of("user") \cup of("url")
    BY <2>1
  <2>3. QED
    BY <1>2, <1>3, <1>4, <1>5, <1>8, <2>2 DEF of
<1>9. QED
  BY <1>7, <1>8

\* The services of a row, or those of its applications.
ServiceValues(known, b, row) ==
    IF DefaultAppServices(row) THEN UNION {app.services : app \in b.groups["app_svc"]}
    ELSE Meanings(known, "svc", Range(row.svc))
ServiceReports(known, row) ==
    IF DefaultAppServices(row) THEN {} ELSE Reports(known, "svc", Range(row.svc))

LEMMA AddMembersGains ==
    ASSUME NEW first, NEW b, Sound(first, b), NEW kind, NEW values
    PROVE  /\ Builds(b, AddMembers(b, kind, values))
           /\ Gains(b, AddMembers(b, kind, values), kind, values, {})
<1> DEFINE c == AddMembers(b, kind, values)
<1>1. /\ c.network = b.network /\ c.resolver = b.resolver /\ c.failing = b.failing
      /\ c.unresolved = b.unresolved /\ c.thrown = b.thrown
      /\ DOMAIN c.groups = DOMAIN b.groups
      /\ \A k \in DOMAIN b.groups : c.groups[k] = IF k = kind THEN b.groups[k] \cup values ELSE b.groups[k]
  BY AddMembersGives
<1> HIDE DEF c
<1>2. Builds(b, c)
  BY <1>1, SameCaches
<1>3. {DictionaryOf(kind)} \X {} = {}
  OBVIOUS
<1>4. Gains(b, c, kind, values, {})
  BY <1>1, <1>3 DEF Gains
<1>5. QED
  BY <1>2, <1>4 DEF c

LEMMA ServiceIs ==
    ASSUME Fair, NEW row, row.svc \in Seq(STRING), NEW answers, NEW first, NEW b, Sound(first, b)
    PROVE  LET c == BuildServiceGroup(b, row, answers) IN
           /\ Builds(b, c)
           /\ Truthful(b) /\ ~c.failing /\ ~c.thrown =>
                 \A known : Agrees(known, c) =>
                    Gains(b, c, "svc", ServiceValues(known, b, row), ServiceReports(known, row))
<1> DEFINE c == BuildServiceGroup(b, row, answers)
<1>1. CASE DefaultAppServices(row)
  <2> DEFINE values == UNION {app.services : app \in b.groups["app_svc"]}
  <2>1. c = AddMembers(b, "svc", values)
    BY <1>1 DEF BuildServiceGroup
  <2>2. \A known : ServiceValues(known, b, row) = values /\ ServiceReports(known, row) = {}
    BY <1>1 DEF ServiceValues, ServiceReports
  <2> HIDE DEF c, values
  <2>3. Builds(b, c) /\ Gains(b, c, "svc", values, {})
    BY <2>1, AddMembersGains
  <2>4. QED
    BY <2>2, <2>3 DEF c
<1>2. CASE ~DefaultAppServices(row)
  <2>1. c = BuildGroup(b, "svc", row.svc, answers)
    BY <1>2 DEF BuildServiceGroup
  <2>2. \A known : /\ ServiceValues(known, b, row) = Meanings(known, "svc", Range(row.svc))
                   /\ ServiceReports(known, row) = Reports(known, "svc", Range(row.svc))
    BY <1>2 DEF ServiceValues, ServiceReports
  <2>3. "svc" \in DictionaryKind
    BY DEF DictionaryKind, CacheKind
  <2> HIDE DEF c
  <2>4. Built(b, c, "svc", Range(row.svc))
    BY <2>1, <2>3, BuildGroupIs
  <2>5. QED
    BY <2>2, <2>4 DEF Built, c
<1>3. QED
  BY <1>1, <1>2

\* A field means what its names mean.
LEMMA FieldsMean ==
    ASSUME NEW known, NEW row
    PROVE  /\ FieldMeaning(known, row, "src") = Meanings(known, "src", Range(row.src))
           /\ FieldMeaning(known, row, "dst") = Meanings(known, "dst", Range(row.dst))
           /\ FieldMeaning(known, row, "user") = Meanings(known, "user", Range(row.user))
           /\ FieldMeaning(known, row, "url") = Meanings(known, "url", Range(row.url))
           /\ FieldMeaning(known, row, "src_zone") = Meanings(known, "src_zone", Range(row.src_zone))
           /\ FieldMeaning(known, row, "dst_zone") = Meanings(known, "dst_zone", Range(row.dst_zone))
           /\ FieldMeaning(known, row, "app") = Meanings(known, AppKind(row), Range(row.app))
           /\ ~DefaultAppServices(row) => FieldMeaning(known, row, "svc") = Meanings(known, "svc", Range(row.svc))
           /\ DefaultAppServices(row) =>
                 FieldMeaning(known, row, "svc")
                    = UNION {app.services : app \in Meanings(known, "app_svc", Range(row.app))}
<1>1. \A kind \in {"src", "dst", "svc", "app", "app_svc", "user", "url"} : \A name :
         Meaning(known, kind, name) = NameMeaning(known, kind, name)
  BY DEF Meaning, ZoneKind
<1>2. \A kind \in {"src_zone", "dst_zone"} : \A name : Meaning(known, kind, name) = IdMeaning(known, kind, name)
  BY DEF Meaning, ZoneKind
<1>3. ASSUME NEW kind \in {"src", "dst", "svc", "app", "app_svc", "user", "url"}, NEW names
      PROVE  NamesMeaning(known, kind, names) = Meanings(known, kind, Range(names))
  BY <1>1 DEF NamesMeaning, Meanings
<1>4. /\ FieldMeaning(known, row, "src") = Meanings(known, "src", Range(row.src))
      /\ FieldMeaning(known, row, "dst") = Meanings(known, "dst", Range(row.dst))
      /\ FieldMeaning(known, row, "user") = Meanings(known, "user", Range(row.user))
      /\ FieldMeaning(known, row, "url") = Meanings(known, "url", Range(row.url))
  BY <1>3 DEF FieldMeaning
<1>5. /\ FieldMeaning(known, row, "src_zone") = Meanings(known, "src_zone", Range(row.src_zone))
      /\ FieldMeaning(known, row, "dst_zone") = Meanings(known, "dst_zone", Range(row.dst_zone))
  BY <1>2 DEF FieldMeaning, Meanings
<1>6. FieldMeaning(known, row, "app") = Meanings(known, AppKind(row), Range(row.app))
  BY <1>3 DEF FieldMeaning, AppKind
<1>7. ~DefaultAppServices(row) => FieldMeaning(known, row, "svc") = Meanings(known, "svc", Range(row.svc))
  BY <1>3 DEF FieldMeaning
<1>8. DefaultAppServices(row) =>
        FieldMeaning(known, row, "svc") = UNION {app.services : app \in NamesMeaning(known, "app_svc", row.app)}
  BY DEF FieldMeaning
<1>9. NamesMeaning(known, "app_svc", row.app) = Meanings(known, "app_svc", Range(row.app))
  BY <1>3
<1>10. QED
  BY <1>4, <1>5, <1>6, <1>7, <1>8, <1>9

\* The groups of a row that is read are what the row says.
RowTrue(known, row, c) ==
    /\ RuleOf(row, c.groups) = RowMeaning(known, row)
    /\ c.unresolved = UnresolvedNames(known, row)

LEMMA RowIs ==
    ASSUME Fair, ResolverOK(resolver), NetworkOK(network),
           NEW row, \A field \in RowField : row[field] \in Seq(STRING), NEW answers
    PROVE  LET c == BuildGroups(row, answers) IN
           /\ Builds(NewBuild, c)
           /\ Truthful(NewBuild) /\ ~c.failing /\ ~c.thrown =>
                 \A known : Agrees(known, c) => RowTrue(known, row, c)
<1> DEFINE b0 == NewBuild
           a == AppKind(row)
           b1 == BuildSrcAddressGroup(b0, row, answers)
           b2 == BuildDstAddressGroup(b1, row, answers)
           b3 == BuildApplicationGroup(b2, row, answers)
           b4 == BuildServiceGroup(b3, row, answers)
           b5 == BuildSrcZoneGroup(b4, row)
           b6 == BuildDstZoneGroup(b5, row)
           b7 == BuildUserGroup(b6, row, answers)
           b8 == BuildUrlGroup(b7, row, answers)
<1>1. /\ "src" \in DictionaryKind /\ "dst" \in DictionaryKind /\ "user" \in DictionaryKind
      /\ "url" \in DictionaryKind /\ a \in DictionaryKind /\ a \in {"app", "app_svc"}
      /\ "src_zone" \in ZoneKind /\ "dst_zone" \in ZoneKind
      /\ "src_zone" \in {"src_zone", "dst_zone"} /\ "dst_zone" \in {"src_zone", "dst_zone"}
  BY DEF DictionaryKind, CacheKind, AppKind, ZoneKind
<1>2. /\ row.src \in Seq(STRING) /\ row.dst \in Seq(STRING) /\ row.svc \in Seq(STRING)
      /\ row.app \in Seq(STRING) /\ row.user \in Seq(STRING) /\ row.url \in Seq(STRING)
      /\ row.src_zone \in Seq(STRING) /\ row.dst_zone \in Seq(STRING)
  BY DEF RowField
<1>3. /\ Sound(resolver, b0) /\ DOMAIN b0.groups = CacheKind /\ b0.unresolved = {}
      /\ \A k \in CacheKind : b0.groups[k] = {}
  BY DEF NewBuild, Sound, KnownTo
<1>4. BuildGroups(row, answers) = b8 /\ StoreOK(store)
  BY DEF BuildGroups, Fair
<1> HIDE DEF b0, a
<1>5. Sound(resolver, b1) /\ Built(b0, b1, "src", Range(row.src))
  BY <1>1, <1>2, <1>3, <1>4, BuildGroupKeeps, BuildGroupIs DEF BuildSrcAddressGroup
<1> HIDE DEF b1
<1>6. Sound(resolver, b2) /\ Built(b1, b2, "dst", Range(row.dst))
  BY <1>1, <1>2, <1>4, <1>5, BuildGroupKeeps, BuildGroupIs DEF BuildDstAddressGroup
<1> HIDE DEF b2
<1>7. Sound(resolver, b3) /\ Built(b2, b3, a, Range(row.app))
  BY <1>1, <1>2, <1>4, <1>6, BuildGroupKeeps, BuildGroupIs DEF BuildApplicationGroup, a
<1> HIDE DEF b3
<1>8. /\ Sound(resolver, b4) /\ Builds(b3, b4)
      /\ Truthful(b3) /\ ~b4.failing /\ ~b4.thrown =>
            \A known : Agrees(known, b4) =>
               Gains(b3, b4, "svc", ServiceValues(known, b3, row), ServiceReports(known, row))
  <2>1. "svc" \in DictionaryKind
    BY DEF DictionaryKind, CacheKind
  <2>2. Sound(resolver, b4)
    BY <1>2, <1>4, <1>7, <2>1, AddMembersKeeps, BuildGroupKeeps DEF BuildServiceGroup
  <2>3. QED
    BY <1>2, <1>7, <2>2, ServiceIs
<1> HIDE DEF b4
<1>9. Sound(resolver, b5) /\ Built(b4, b5, "src_zone", Range(row.src_zone))
  BY <1>1, <1>2, <1>8, BuildZoneGroupKeeps, BuildZoneGroupIs DEF BuildSrcZoneGroup
<1> HIDE DEF b5
<1>10. Sound(resolver, b6) /\ Built(b5, b6, "dst_zone", Range(row.dst_zone))
  BY <1>1, <1>2, <1>9, BuildZoneGroupKeeps, BuildZoneGroupIs DEF BuildDstZoneGroup
<1> HIDE DEF b6
<1>11. Sound(resolver, b7) /\ Built(b6, b7, "user", Range(row.user))
  BY <1>1, <1>2, <1>4, <1>10, BuildGroupKeeps, BuildGroupIs DEF BuildUserGroup
<1> HIDE DEF b7
<1>12. Sound(resolver, b8) /\ Built(b7, b8, "url", Range(row.url))
  BY <1>1, <1>2, <1>4, <1>11, BuildGroupKeeps, BuildGroupIs DEF BuildUrlGroup
<1> HIDE DEF b8
<1>13. /\ Builds(b0, b1) /\ Builds(b1, b2) /\ Builds(b2, b3) /\ Builds(b3, b4) /\ Builds(b4, b5)
       /\ Builds(b5, b6) /\ Builds(b6, b7) /\ Builds(b7, b8)
  BY <1>5, <1>6, <1>7, <1>8, <1>9, <1>10, <1>11, <1>12 DEF Built
<1>14. /\ Builds(b6, b8) /\ Builds(b5, b8) /\ Builds(b4, b8) /\ Builds(b3, b8)
       /\ Builds(b2, b8) /\ Builds(b1, b8) /\ Builds(b0, b8)
  <2>1. Builds(b6, b8)
    BY <1>13, BuildsAgain
  <2>2. Builds(b5, b8)
    BY <1>13, <2>1, BuildsAgain
  <2>3. Builds(b4, b8)
    BY <1>13, <2>2, BuildsAgain
  <2>4. Builds(b3, b8)
    BY <1>13, <2>3, BuildsAgain
  <2>5. Builds(b2, b8)
    BY <1>13, <2>4, BuildsAgain
  <2>6. Builds(b1, b8)
    BY <1>13, <2>5, BuildsAgain
  <2>7. Builds(b0, b8)
    BY <1>13, <2>6, BuildsAgain
  <2>8. QED
    BY <2>1, <2>2, <2>3, <2>4, <2>5, <2>6, <2>7
<1>15. ASSUME Truthful(b0), ~b8.failing, ~b8.thrown, NEW known, Agrees(known, b8)
       PROVE  RowTrue(known, row, b8)
  <2>1. /\ ~b1.failing /\ ~b2.failing /\ ~b3.failing /\ ~b4.failing /\ ~b5.failing /\ ~b6.failing /\ ~b7.failing
        /\ ~b1.thrown /\ ~b2.thrown /\ ~b3.thrown /\ ~b4.thrown /\ ~b5.thrown /\ ~b6.thrown /\ ~b7.thrown
    BY <1>13, <1>14, <1>15 DEF Builds, Grows
  <2>2. /\ Agrees(known, b1) /\ Agrees(known, b2) /\ Agrees(known, b3) /\ Agrees(known, b4)
        /\ Agrees(known, b5) /\ Agrees(known, b6) /\ Agrees(known, b7)
    BY <1>13, <1>14, <1>15, AgreesBefore DEF Builds
  <2>3. /\ Truthful(b1) /\ Truthful(b2) /\ Truthful(b3) /\ Truthful(b4)
        /\ Truthful(b5) /\ Truthful(b6) /\ Truthful(b7)
    BY <1>13, <1>15, <2>1 DEF Builds
  <2> DEFINE V(kind, names) == Meanings(known, kind, Range(names))
             N(kind, names) == Reports(known, kind, Range(names))
  <2>4. /\ Gains(b0, b1, "src", V("src", row.src), N("src", row.src))
        /\ Gains(b1, b2, "dst", V("dst", row.dst), N("dst", row.dst))
        /\ Gains(b2, b3, a, V(a, row.app), N(a, row.app))
    BY <1>5, <1>6, <1>7, <1>15, <2>1, <2>2, <2>3 DEF Built
  <2>5. Gains(b3, b4, "svc", ServiceValues(known, b3, row), ServiceReports(known, row))
    BY <1>8, <2>1, <2>2, <2>3
  <2>6. /\ Gains(b4, b5, "src_zone", V("src_zone", row.src_zone), N("src_zone", row.src_zone))
        /\ Gains(b5, b6, "dst_zone", V("dst_zone", row.dst_zone), N("dst_zone", row.dst_zone))
    BY <1>9, <1>10, <2>1, <2>2, <2>3 DEF Built
  <2>7. /\ Gains(b6, b7, "user", V("user", row.user), N("user", row.user))
        /\ Gains(b7, b8, "url", V("url", row.url), N("url", row.url))
    BY <1>11, <1>12, <1>15, <2>1, <2>2, <2>3 DEF Built
  <2> DEFINE S == ServiceValues(known, b3, row)
             R == ServiceReports(known, row)
  <2>8. /\ "src" \in CacheKind /\ "dst" \in CacheKind /\ a \in CacheKind /\ "svc" \in CacheKind
        /\ "src_zone" \in CacheKind /\ "dst_zone" \in CacheKind /\ "user" \in CacheKind /\ "url" \in CacheKind
        /\ a \notin {"src", "dst", "svc", "src_zone", "dst_zone", "user", "url"}
    BY <1>1 DEF CacheKind
  <2>9. /\ DOMAIN b1.groups = CacheKind /\ DOMAIN b2.groups = CacheKind /\ DOMAIN b3.groups = CacheKind
        /\ DOMAIN b4.groups = CacheKind /\ DOMAIN b5.groups = CacheKind /\ DOMAIN b6.groups = CacheKind
        /\ DOMAIN b7.groups = CacheKind
    BY <1>3, <2>4, <2>5, <2>6, <2>7 DEF Gains
  <2> HIDE DEF V, N, S, R
  <2>10. /\ Adds(b0, b1, "src", V("src", row.src), N("src", row.src))
         /\ Adds(b1, b2, "dst", V("dst", row.dst), N("dst", row.dst))
         /\ Adds(b2, b3, a, V(a, row.app), N(a, row.app))
    BY <1>3, <2>4, <2>8, <2>9, GainsEach
  <2>11. Adds(b3, b4, "svc", S, R)
    BY <2>5, <2>8, <2>9, GainsEach DEF S, R
  <2>12. /\ Adds(b4, b5, "src_zone", V("src_zone", row.src_zone), N("src_zone", row.src_zone))
         /\ Adds(b5, b6, "dst_zone", V("dst_zone", row.dst_zone), N("dst_zone", row.dst_zone))
    BY <2>6, <2>8, <2>9, GainsEach
  <2>13. /\ Adds(b6, b7, "user", V("user", row.user), N("user", row.user))
         /\ Adds(b7, b8, "url", V("url", row.url), N("url", row.url))
    BY <2>7, <2>8, <2>9, GainsEach
  <2>14. b3.groups[a] = V(a, row.app) /\ b8.groups[a] = V(a, row.app)
    BY <1>3, <2>8, <2>10, <2>11, <2>12, <2>13 DEF Adds
  <2>15. b8.groups["src"] = V("src", row.src) /\ b8.groups["dst"] = V("dst", row.dst)
    BY <1>3, <2>8, <2>10, <2>11, <2>12, <2>13 DEF Adds
  <2>16. b8.groups["svc"] = S
    BY <1>3, <2>8, <2>10, <2>11, <2>12, <2>13 DEF Adds
  <2>17. b8.groups["src_zone"] = V("src_zone", row.src_zone) /\ b8.groups["dst_zone"] = V("dst_zone", row.dst_zone)
    BY <1>3, <2>8, <2>10, <2>11, <2>12, <2>13 DEF Adds
  <2>18. b8.groups["user"] = V("user", row.user) /\ b8.groups["url"] = V("url", row.url)
    BY <1>3, <2>8, <2>10, <2>11, <2>12, <2>13 DEF Adds
  <2>19. b8.unresolved = UnresolvedNames(known, row)
    <3>1. {} \cup Pairs("src", N("src", row.src)) = Pairs("src", N("src", row.src))
      OBVIOUS
    <3>2. b8.unresolved = Pairs("src", N("src", row.src)) \cup Pairs("dst", N("dst", row.dst))
                            \cup Pairs(a, N(a, row.app)) \cup Pairs("svc", R)
                            \cup Pairs("src_zone", N("src_zone", row.src_zone))
                            \cup Pairs("dst_zone", N("dst_zone", row.dst_zone))
                            \cup Pairs("user", N("user", row.user)) \cup Pairs("url", N("url", row.url))
      BY <1>3, <2>10, <2>11, <2>12, <2>13, <3>1 DEF Adds
    <3>3. QED
      BY <3>2, ReportIs, Zenon DEF ServiceReports, a, N, R
  <2>20. S = FieldMeaning(known, row, "svc")
    <3>1. DefaultAppServices(row) => a = "app_svc"
      BY DEF a, AppKind
    <3>2. QED
      BY <2>14, <3>1, FieldsMean DEF ServiceValues, S, V
  <2>21. /\ FieldMeaning(known, row, "src") = b8.groups["src"]
         /\ FieldMeaning(known, row, "dst") = b8.groups["dst"]
         /\ FieldMeaning(known, row, "user") = b8.groups["user"]
         /\ FieldMeaning(known, row, "url") = b8.groups["url"]
         /\ FieldMeaning(known, row, "src_zone") = b8.groups["src_zone"]
         /\ FieldMeaning(known, row, "dst_zone") = b8.groups["dst_zone"]
         /\ FieldMeaning(known, row, "svc") = b8.groups["svc"]
         /\ FieldMeaning(known, row, "app") = b8.groups[AppKind(row)]
    BY <2>14, <2>15, <2>16, <2>17, <2>18, <2>20, FieldsMean DEF a, V
  <2>22. \A field \in RowField :
            (IF field = "app" THEN b8.groups[AppKind(row)] ELSE b8.groups[field]) = FieldMeaning(known, row, field)
    BY <2>21 DEF RowField
  <2>23. RuleOf(row, b8.groups) = RowMeaning(known, row)
    BY <2>22 DEF RuleOf, RowMeaning
  <2>24. QED
    BY <2>19, <2>23 DEF RowTrue
<1>16. QED
  BY <1>4, <1>14, <1>15 DEF b0

(***************************************************************************)
(* Names mean the same as long as the store is the same.                   *)
(***************************************************************************)
LEMMA SameObjects ==
    ASSUME store' = store
    PROVE  /\ \A kind : ObjectsOf(kind)' = ObjectsOf(kind) /\ PoolsOf(kind)' = PoolsOf(kind)
           /\ \A kind, name : (IsFqdn(kind, name)' <=> IsFqdn(kind, name)) /\ HostOf(kind, name)' = HostOf(kind, name)
           /\ \A name : ResolveAppServices(name)' = ResolveAppServices(name)
<1>1. \A kind : ObjectsOf(kind)' = ObjectsOf(kind) /\ PoolsOf(kind)' = PoolsOf(kind)
  BY DEF ObjectsOf, PoolsOf
<1>2. \A kind, name : (IsFqdn(kind, name)' <=> IsFqdn(kind, name)) /\ HostOf(kind, name)' = HostOf(kind, name)
  BY <1>1 DEF IsFqdn, HostOf
<1>3. \A name : ResolveAppServices(name)' = ResolveAppServices(name)
  BY DEF ResolveAppServices
<1>4. QED
  BY <1>1, <1>2, <1>3

LEMMA SameMeaning ==
    ASSUME store' = store
    PROVE  /\ \A known, kind, name :
                 /\ HasObject(known, kind, name)' <=> HasObject(known, kind, name)
                 /\ ObjectMeaning(known, kind, name)' = ObjectMeaning(known, kind, name)
                 /\ Leaves(known, kind, name)' = Leaves(known, kind, name)
                 /\ LeafMeaning(known, kind, name)' = LeafMeaning(known, kind, name)
                 /\ NameMeaning(known, kind, name)' = NameMeaning(known, kind, name)
                 /\ Many(known, kind, name)' <=> Many(known, kind, name)
<1>1. \A known, kind, name : HasObject(known, kind, name)' <=> HasObject(known, kind, name)
  BY SameObjects DEF HasObject
<1>2. \A known, kind : KnownObjects(known, kind)' = KnownObjects(known, kind)
  BY <1>1, SameObjects DEF KnownObjects
<1>3. \A known, kind, name : ObjectMeaning(known, kind, name)' = ObjectMeaning(known, kind, name)
  BY SameObjects DEF ObjectMeaning
<1>4. \A known, kind, name : Leaves(known, kind, name)' = Leaves(known, kind, name)
  BY <1>1, <1>2, SameObjects DEF Leaves
<1>5. \A known, kind, name : LeafMeaning(known, kind, name)' = LeafMeaning(known, kind, name)
  BY <1>2, <1>3, <1>4 DEF LeafMeaning
<1>6. \A known, kind, name : NameMeaning(known, kind, name)' = NameMeaning(known, kind, name)
  BY <1>2, <1>3, <1>4 DEF NameMeaning
<1>7. \A known, kind, name : Many(known, kind, name)' <=> Many(known, kind, name)
  BY <1>3 DEF Many
<1>8. QED
  BY <1>1, <1>3, <1>4, <1>5, <1>6, <1>7

LEMMA SameRows ==
    ASSUME store' = store
    PROVE  /\ \A known, row : RowMeaning(known, row)' = RowMeaning(known, row)
           /\ \A known, row : Acceptable(known, row)' <=> Acceptable(known, row)
           /\ \A known, row : UnresolvedNames(known, row)' = UnresolvedNames(known, row)
<1>1. \A known, kind, names : NamesMeaning(known, kind, names)' = NamesMeaning(known, kind, names)
  BY SameMeaning DEF NamesMeaning
<1>2. \A known, row, field : FieldMeaning(known, row, field)' = FieldMeaning(known, row, field)
  BY <1>1 DEF FieldMeaning
<1>3. \A known, row : RowMeaning(known, row)' = RowMeaning(known, row)
  BY <1>2 DEF RowMeaning
<1>4. \A known, row : Acceptable(known, row)' <=> Acceptable(known, row)
  BY <1>2 DEF Acceptable
<1>5. \A known, row : UnresolvedNames(known, row)' = UnresolvedNames(known, row)
  BY SameMeaning DEF UnresolvedNames
<1>6. QED
  BY <1>3, <1>4, <1>5

\* What the caches hold stays true.
LEMMA SameTruth ==
    ASSUME store' = store
    PROVE  /\ \A known, kind, name, values :
                 ObjectTrue(known, kind, name, values)' <=> ObjectTrue(known, kind, name, values)
           /\ \A known, nw : CachesTrue(known, nw)' <=> CachesTrue(known, nw)
           /\ \A r : FilteredTrue(r)' <=> FilteredTrue(r)
           /\ \A b : Truthful(b)' <=> Truthful(b)
           /\ Fair' <=> Fair
           /\ CachesCanDiffer' <=> CachesCanDiffer
<1>1. \A known, kind, name, values :
         ObjectTrue(known, kind, name, values)' <=> ObjectTrue(known, kind, name, values)
  BY SameMeaning DEF ObjectTrue
<1>2. \A known, nw : CachesTrue(known, nw)' <=> CachesTrue(known, nw)
  BY <1>1, SameMeaning DEF CachesTrue
<1>3. \A r : FilteredTrue(r)' <=> FilteredTrue(r)
  BY SameObjects DEF FilteredTrue
<1>4. \A b : Truthful(b)' <=> Truthful(b)
  BY <1>2, <1>3 DEF Truthful
<1>5. CachesCanDiffer' <=> CachesCanDiffer
  BY SameObjects DEF CachesCanDiffer, HasAliases, HasLiteralMembers, RedefinesAny, Addresses
<1>6. Fair' <=> Fair
  BY <1>5 DEF Fair
<1>7. QED
  BY <1>1, <1>2, <1>3, <1>4, <1>5, <1>6

(***************************************************************************)
(* The start of a session.                                                 *)
(***************************************************************************)
Fresh == network = NewNetwork /\ resolver.filtered = EmptyFunction

TruthfulNow == Truthful(NewBuild)

LEMMA NewCacheIs ==
    ASSUME NEW kind \in CacheKind
    PROVE  /\ DOMAIN NewNetwork.cache[kind].objects = {"any"}
           /\ NewNetwork.cache[kind].objects["any"] = {AnyValue(kind)}
           /\ DOMAIN NewNetwork.cache[kind].groups = {}
<1>1. NewNetwork.cache[kind] = NewCache(kind)
  BY DEF NewNetwork
<1>2. QED
  BY <1>1 DEF NewCache, Put, EmptyFunction

\* What "any" is in each kind.
LEMMA AnyIs ==
    ASSUME Fair, NEW kind \in DictionaryKind
    PROVE  /\ "any" \in DOMAIN ObjectsOf(kind) /\ ObjectsOf(kind)["any"] = Object(<<"any">>)
           /\ ~IsFqdn(kind, "any") /\ Range(ObjectsOf(kind)["any"].values) = {"any"}
<1>1. DictionaryOf(kind) \in ObjectKind
  BY DictionaryKinds
<1>2. "any" \in DOMAIN ObjectsOf(kind)
  BY <1>1 DEF Fair, StoreOK, ObjectsOf
<1>3. ObjectsOf(kind)["any"] = Object(<<"any">>)
  BY <1>1 DEF Fair, StoreTrue, ObjectsOf, CachesCanDiffer, RedefinesAny, Addresses
<1>4. QED
  BY <1>2, <1>3 DEF IsFqdn, Object, Range

LEMMA AnyIsTrue ==
    ASSUME Fair, NEW kind \in CacheKind, NEW known
    PROVE  ObjectTrue(known, kind, "any", {AnyValue(kind)})
<1>1. IdMeaning(known, kind, "any") = {AnyId}
  BY DEF IdMeaning
<1>2. CASE kind \in ZoneKind
  BY <1>1, <1>2 DEF ObjectTrue, ZoneKind, AnyValue
<1>3. CASE kind \notin ZoneKind /\ IsLiteral(kind, "any")
  BY <1>1, <1>3 DEF ObjectTrue, LiteralMeaning, IsLiteral, AnyValue
<1>4. CASE kind \notin ZoneKind /\ ~IsLiteral(kind, "any")
  <2>1. kind \in DictionaryKind
    BY <1>4 DEF ZoneKind, DictionaryKind
  <2>2. /\ "any" \in DOMAIN ObjectsOf(kind) /\ ~IsFqdn(kind, "any")
        /\ Range(ObjectsOf(kind)["any"].values) = {"any"}
    BY <2>1, AnyIs
  <2>3. HasObject(known, kind, "any")
    BY <2>2 DEF HasObject
  <2>4. ResolveAppServices("any") = {"any"}
    <3>1. "service" \in ObjectKind /\ "application" \in ObjectKind
      BY DEF ObjectKind
    <3>2. /\ store["application"].objects["any"] = Object(<<"any">>)
          /\ store["service"].objects["any"] = Object(<<"any">>)
          /\ "any" \in DOMAIN store["service"].objects
      BY <3>1 DEF Fair, StoreTrue, StoreOK
    <3>3. Range(Object(<<"any">>).values) = {"any"}
      BY DEF Object, Range
    <3>4. QED
      BY <3>2, <3>3 DEF ResolveAppServices
  <2>5. ObjectMeaning(known, kind, "any") = {AnyValue(kind)}
    <3>1. CASE kind \in {"src", "dst", "svc"}
      BY <2>2, <3>1 DEF ObjectMeaning, AnyValue
    <3>2. CASE kind \in {"app", "app_svc"}
      BY <1>1, <2>4, <3>2 DEF ObjectMeaning, AnyValue
    <3>3. CASE kind \notin {"src", "dst", "svc", "app", "app_svc"}
      BY <1>1, <3>3 DEF ObjectMeaning, AnyValue
    <3>4. QED
      BY <3>1, <3>2, <3>3
  <2>6. ~Many(known, kind, "any")
    <3> DEFINE value == AnyValue(kind)
    <3>1. ObjectMeaning(known, kind, "any") = {value}
      BY <2>5
    <3> HIDE DEF value
    <3>2. Cardinality({value}) = 1
      BY FS_Singleton
    <3>3. ~(Cardinality(ObjectMeaning(known, kind, "any")) > 1)
      BY <3>1, <3>2
    <3>4. QED
      BY <3>3 DEF Many
  <2>7. QED
    BY <1>4, <2>3, <2>5, <2>6 DEF ObjectTrue
<1>5. QED
  BY <1>2, <1>3, <1>4

LEMMA FreshIsTruthful == Fair /\ Fresh => TruthfulNow
<1> SUFFICES ASSUME Fair, Fresh
             PROVE  Truthful(NewBuild)
  BY DEF TruthfulNow
<1>1. NewBuild.network = NewNetwork /\ NewBuild.resolver.filtered = EmptyFunction
  BY DEF Fresh, NewBuild
<1>2. FilteredTrue(NewBuild.resolver)
  BY <1>1 DEF FilteredTrue, EmptyFunction
<1>3. \A known : CachesTrue(known, NewNetwork)
  BY NewCacheIs, AnyIsTrue DEF CachesTrue
<1>4. \A kind \in CacheKind : "any" \in DOMAIN NewNetwork.cache[kind].objects
  BY NewCacheIs
<1>5. QED
  BY <1>1, <1>2, <1>3, <1>4 DEF Truthful

LEMMA FreshIsTruthfulNext == (Fair /\ Fresh => TruthfulNow)'
BY FreshIsTruthful, PTL

(***************************************************************************)
(* The store.                                                              *)
(***************************************************************************)
LEMMA ClearedIsTrue == StoreTrue(ClearedStore)
<1> SUFFICES ASSUME NEW kind \in ObjectKind
             PROVE  /\ \A name \in DOMAIN ClearedStore[kind].objects :
                          LET object == ClearedStore[kind].objects[name] IN
                          /\ Range(object.values) # {}
                          /\ object.fqdn => kind = "address" /\ object.values[1] \in Hosts
                    /\ kind # "address" => ClearedStore[kind].objects["any"] = Object(<<"any">>)
  BY DEF StoreTrue
<1>1. ClearedStore[kind].objects = Dictionary(Predefined(kind), <<>>)
  BY DEF ClearedStore
<1>2. Dictionary(Predefined(kind), <<>>) = [name \in Predefined(kind) |-> Object(<<name>>)]
  BY DEF Dictionary
<1>3. "any" \in Predefined(kind)
  BY DEF Predefined
<1>4. \A name : Range(Object(<<name>>).values) = {name} /\ ~Object(<<name>>).fqdn
  BY DEF Object, Range
<1> DEFINE objects == ClearedStore[kind].objects
<1>5. DOMAIN objects = Predefined(kind) /\ \A name \in Predefined(kind) : objects[name] = Object(<<name>>)
  BY <1>1, <1>2
<1> HIDE DEF objects
<1>6. ASSUME NEW name \in DOMAIN objects
      PROVE  Range(objects[name].values) # {} /\ ~objects[name].fqdn
  <2>1. objects[name] = Object(<<name>>)
    BY <1>5
  <2>2. Range(Object(<<name>>).values) # {}
    <3>1. Range(Object(<<name>>).values) = {name}
      BY <1>4
    <3>2. QED
      BY <3>1
  <2>3. ~Object(<<name>>).fqdn
    BY <1>4
  <2>4. QED
    BY <2>1, <2>2, <2>3
<1>7. objects["any"] = Object(<<"any">>)
  BY <1>3, <1>5
<1>8. QED
  BY <1>6, <1>7 DEF objects

LEMMA LoadKindIsTrue ==
    ASSUME StoreOK(store), StoreTrue(store), NEW files \in StoreFiles, NEW kind \in DOMAIN files
    PROVE  LET st == LoadKind(kind, files[kind]) IN
           /\ \A name \in DOMAIN st.objects :
                 LET object == st.objects[name] IN
                 /\ Range(object.values) # {}
                 /\ object.fqdn => kind = "address" /\ object.values[1] \in Hosts
           /\ kind # "address" => st.objects["any"] = Object(<<"any">>)
<1> DEFINE old == store[kind].objects
           read == files[kind].objects
           taken == Accepted(kind, read)
           st == LoadKind(kind, files[kind])
<1>1. kind \in ObjectKind
  BY FilesAssumption
<1>2. \A name \in DOMAIN read : /\ Range(read[name].values) # {}
                                /\ read[name].fqdn => kind = "address" /\ read[name].values[1] \in Hosts
  BY FilesAssumption
<1>3. /\ DOMAIN taken \subseteq DOMAIN read /\ \A name \in DOMAIN taken : taken[name] = read[name]
      /\ kind # "address" => "any" \notin DOMAIN taken
  BY DEF Accepted, Restrict, Predefined
<1>4. \A name \in DOMAIN old : /\ Range(old[name].values) # {}
                               /\ old[name].fqdn => kind = "address" /\ old[name].values[1] \in Hosts
  BY <1>1 DEF StoreTrue
<1>5. "any" \in DOMAIN old /\ (kind # "address" => old["any"] = Object(<<"any">>))
  BY <1>1 DEF StoreTrue, StoreOK
<1>6. st.objects = PutAll(old, taken)
  <2> DEFINE more == PutAll(old, taken)
             mid == LoadObjects(store, kind, read)
  <2>1. store[kind] = [objects |-> old, pools |-> store[kind].pools] /\ kind \in DOMAIN store
    BY <1>1 DEF StoreOK
  <2>2. mid = [store EXCEPT ![kind].objects = more]
    BY DEF LoadObjects
  <2> HIDE DEF old, more
  <2>3. kind \in DOMAIN mid /\ mid[kind] = [objects |-> more, pools |-> store[kind].pools]
    BY <2>1, <2>2
  <2>4. st = [mid EXCEPT ![kind].pools = PutAll(@, files[kind].pools)][kind]
    BY DEF LoadKind, LoadPools
  <2> HIDE DEF mid, st
  <2>5. st = [mid[kind] EXCEPT !.pools = PutAll(mid[kind].pools, files[kind].pools)]
    BY <2>3, <2>4
  <2>6. QED
    BY <2>3, <2>5 DEF more
<1> HIDE DEF old, read, taken, st
<1>7. /\ DOMAIN st.objects = DOMAIN taken \cup DOMAIN old
      /\ \A name \in DOMAIN st.objects :
            st.objects[name] = IF name \in DOMAIN taken THEN taken[name] ELSE old[name]
  BY <1>6 DEF PutAll
<1>8. QED
  BY <1>2, <1>3, <1>4, <1>5, <1>7 DEF st

\* The store, when files are loaded.
LEMMA LoadStoreIsTrue ==
    ASSUME StoreOK(store), StoreTrue(store), NEW files \in StoreFiles
    PROVE  StoreTrue([kind \in ObjectKind |->
                        IF kind \in DOMAIN files THEN LoadKind(kind, files[kind]) ELSE store[kind]])
<1> DEFINE st == [kind \in ObjectKind |->
                    IF kind \in DOMAIN files THEN LoadKind(kind, files[kind]) ELSE store[kind]]
<1>1. ASSUME NEW kind \in ObjectKind
      PROVE  /\ \A name \in DOMAIN st[kind].objects :
                   LET object == st[kind].objects[name] IN
                   /\ Range(object.values) # {}
                   /\ object.fqdn => kind = "address" /\ object.values[1] \in Hosts
             /\ kind # "address" => st[kind].objects["any"] = Object(<<"any">>)
  <2>1. CASE kind \in DOMAIN files
    <3>1. st[kind] = LoadKind(kind, files[kind])
      BY <2>1
    <3> HIDE DEF st
    <3>2. QED
      BY <2>1, <3>1, LoadKindIsTrue
  <2>2. CASE kind \notin DOMAIN files
    <3>1. st[kind] = store[kind]
      BY <2>2
    <3> HIDE DEF st
    <3>2. QED
      BY <3>1 DEF StoreTrue
  <2>3. QED
    BY <2>1, <2>2
<1> HIDE DEF st
<1>2. StoreTrue(st)
  BY <1>1 DEF StoreTrue
<1>3. QED
  BY <1>2 DEF st

(***************************************************************************)
(* The first n rows of a file.                                             *)
(***************************************************************************)
PartLoaded(known, i) == IF IsLoaded(known, i) THEN <<RowMeaning(known, file[i])>> ELSE <<>>
LoadedTo(known, n) == FlattenSeq([i \in 1 .. n |-> PartLoaded(known, i)])

IsLookedAt(row) == HasAction(row) /\ HasStatus(row)
ReportedTo(known, n) ==
    UNION {UnresolvedNames(known, file[i]) : i \in {j \in 1 .. n : IsLookedAt(file[j])}}

LEMMA RowsRead ==
    ASSUME NEW known
    PROVE  /\ LoadedRules(known) = LoadedTo(known, position)
           /\ ReportedNames(known) = ReportedTo(known, position)
BY DEF LoadedRules, ReportedNames, LoadedTo, ReportedTo, PartLoaded, IsLookedAt

LEMMA NothingRead ==
    ASSUME NEW known
    PROVE  LoadedTo(known, 0) = <<>> /\ ReportedTo(known, 0) = {}
<1> DEFINE parts == [i \in 1 .. 0 |-> PartLoaded(known, i)]
<1>1. parts \in Seq(Seq({1})) /\ DOMAIN parts = {}
  <2>1. parts = <<>>
    OBVIOUS
  <2>2. QED
    BY <2>1
<1>2. LoadedTo(known, 0) = FlattenSeq(parts)
  BY DEF LoadedTo
<1> HIDE DEF parts
<1>3. FlattenSeq(parts) \in Seq({1})
  <2>1. <<>> \in Seq({1}) /\ \A a, b \in Seq({1}) : a \o b \in Seq({1})
    OBVIOUS
  <2>2. \A i \in DOMAIN parts : parts[i] \in Seq({1})
    BY <1>1
  <2>3. QED
    BY <1>1, <2>1, <2>2, FlattenClosed
<1>4. \A e : ~In(e, FlattenSeq(parts))
  BY <1>1, FlattenHas
<1>5. FlattenSeq(parts) = <<>>
  <2> DEFINE flat == FlattenSeq(parts)
  <2>1. DOMAIN flat = {}
    BY <1>4 DEF In
  <2>2. flat \in Seq({1})
    BY <1>3
  <2> HIDE DEF flat
  <2>3. flat = <<>>
    BY <2>1, <2>2
  <2>4. QED
    BY <2>3 DEF flat
<1>6. ReportedTo(known, 0) = {}
  BY DEF ReportedTo
<1>7. QED
  BY <1>2, <1>5, <1>6

\* A sequence of the parts of rows.
LEMMA PartsAre ==
    ASSUME NEW known, NEW n \in Nat
    PROVE  \E S : /\ [i \in 1 .. n |-> PartLoaded(known, i)] \in Seq(Seq(S))
                  /\ PartLoaded(known, n + 1) \in Seq(S)
                  /\ RowMeaning(known, file[n + 1]) \in S
                  /\ LoadedTo(known, n) \in Seq(S)
<1> DEFINE S == {RowMeaning(known, file[i]) : i \in Nat}
           parts == [i \in 1 .. n |-> PartLoaded(known, i)]
<1>1. \A i \in Nat : RowMeaning(known, file[i]) \in S
  OBVIOUS
<1> HIDE DEF S
<1>2. \A i \in Nat : PartLoaded(known, i) \in Seq(S)
  BY <1>1 DEF PartLoaded
<1>3. parts \in Seq(Seq(S))
  BY <1>2
<1>4. LoadedTo(known, n) = FlattenSeq(parts)
  BY DEF LoadedTo
<1>5. \A i \in DOMAIN parts : parts[i] \in Seq(S)
  BY <1>2
<1> HIDE DEF parts
<1>6. FlattenSeq(parts) \in Seq(S)
  <2>1. <<>> \in Seq(S) /\ \A a, b \in Seq(S) : a \o b \in Seq(S)
    OBVIOUS
  <2>2. QED
    BY <1>3, <1>5, <2>1, FlattenClosed
<1>7. n + 1 \in Nat
  OBVIOUS
<1>8. QED
  BY <1>1, <1>2, <1>3, <1>4, <1>6, <1>7 DEF parts

LEMMA OneMoreLoaded ==
    ASSUME NEW known, NEW n \in Nat
    PROVE  LoadedTo(known, n + 1)
              = IF IsLoaded(known, n + 1) THEN Append(LoadedTo(known, n), RowMeaning(known, file[n + 1]))
                ELSE LoadedTo(known, n)
<1> DEFINE parts == [i \in 1 .. n |-> PartLoaded(known, i)]
           more == [i \in 1 .. (n + 1) |-> PartLoaded(known, i)]
           last == PartLoaded(known, n + 1)
           rule == RowMeaning(known, file[n + 1])
<1>1. PICK S : parts \in Seq(Seq(S)) /\ last \in Seq(S) /\ rule \in S /\ LoadedTo(known, n) \in Seq(S)
  BY PartsAre
<1>2. more = Append(parts, last)
  <2>1. Len(parts) = n /\ DOMAIN parts = 1 .. n
    OBVIOUS
  <2>2. DOMAIN Append(parts, last) = 1 .. (n + 1)
    BY <1>1, <2>1
  <2>3. \A i \in 1 .. (n + 1) : Append(parts, last)[i] = more[i]
    BY <1>1, <2>1
  <2>4. QED
    BY <1>1, <2>2, <2>3
<1>3. LoadedTo(known, n) = FlattenSeq(parts) /\ LoadedTo(known, n + 1) = FlattenSeq(more)
  BY DEF LoadedTo
<1> HIDE DEF parts, more
<1>4. LoadedTo(known, n + 1) = LoadedTo(known, n) \o last
  BY <1>1, <1>2, <1>3, FlattenOneMore
<1> HIDE DEF rule
<1>5. last = IF IsLoaded(known, n + 1) THEN <<rule>> ELSE <<>>
  BY DEF PartLoaded, rule
<1> DEFINE before == LoadedTo(known, n)
<1> HIDE DEF last, before
<1>6. before \in Seq(S)
  BY <1>1 DEF before
<1>7. before \o <<rule>> = Append(before, rule) /\ before \o <<>> = before
  BY <1>1, <1>6
<1>8. QED
  BY <1>4, <1>5, <1>7 DEF before, rule

LEMMA OneMoreReported ==
    ASSUME NEW known, NEW n \in Nat
    PROVE  ReportedTo(known, n + 1)
              = IF IsLookedAt(file[n + 1]) THEN ReportedTo(known, n) \cup UnresolvedNames(known, file[n + 1])
                ELSE ReportedTo(known, n)
<1>1. 1 .. (n + 1) = (1 .. n) \cup {n + 1}
  OBVIOUS
<1>2. QED
  BY <1>1 DEF ReportedTo

\* A rule is a duplicate if an earlier row was acceptable and had its id.
LEMMA LoadedIds ==
    ASSUME NEW known, NEW n \in Nat, NEW id
    PROVE  (\E i \in DOMAIN LoadedTo(known, n) : LoadedTo(known, n)[i].id = id)
              <=> \E j \in 1 .. n : Acceptable(known, file[j]) /\ file[j].id = id
<1> DEFINE Has(m) == \E i \in DOMAIN LoadedTo(known, m) : LoadedTo(known, m)[i].id = id
           Earlier(m) == \E j \in 1 .. m : Acceptable(known, file[j]) /\ file[j].id = id
           Good == {m \in 0 .. n : Has(m) <=> Earlier(m)}
<1>1. 0 \in Good
  BY NothingRead
<1>2. ASSUME NEW m \in 1 .. n, m - 1 \in Good
      PROVE  m \in Good
  <2> DEFINE rule == RowMeaning(known, file[m])
             before == LoadedTo(known, m - 1)
  <2>1. m - 1 \in Nat /\ (m - 1) + 1 = m /\ 1 .. m = (1 .. (m - 1)) \cup {m} /\ m \in 0 .. n
    OBVIOUS
  <2>2. LoadedTo(known, m) = IF IsLoaded(known, m) THEN Append(before, rule) ELSE before
    BY <2>1, OneMoreLoaded
  <2>3. Has(m - 1) <=> Earlier(m - 1)
    BY <1>2
  <2>4. Earlier(m) <=> Earlier(m - 1) \/ (Acceptable(known, file[m]) /\ file[m].id = id)
    BY <2>1
  <2>5. rule.id = file[m].id
    BY DEF RowMeaning
  <2>6. PICK S : before \in Seq(S)
    BY <2>1, PartsAre
  <2>7. CASE IsLoaded(known, m)
    <3>1. LoadedTo(known, m) = Append(before, rule)
      BY <2>2, <2>7
    <3>2. Has(m) <=> Has(m - 1) \/ rule.id = id
      <4> HIDE DEF rule
      <4>1. LET longer == Append(before, rule) end == Len(before) + 1 IN
            /\ DOMAIN longer = DOMAIN before \cup {end}
            /\ longer[end] = rule /\ \A i \in DOMAIN before : longer[i] = before[i]
        BY <2>6, AppendIs
      <4>2. QED
        BY <3>1, <4>1
    <3>3. Acceptable(known, file[m])
      BY <2>7 DEF IsLoaded
    <3> HIDE DEF Has, Earlier, rule
    <3>4. Has(m) <=> Earlier(m)
      BY <2>3, <2>4, <2>5, <3>2, <3>3
    <3>5. QED
      BY <2>1, <3>4
  <2>8. CASE ~IsLoaded(known, m)
    <3>1. LoadedTo(known, m) = before
      BY <2>2, <2>8
    <3>2. Has(m) <=> Has(m - 1)
      BY <3>1
    <3>3. Acceptable(known, file[m]) /\ file[m].id = id => Earlier(m - 1)
      BY <2>8 DEF IsLoaded
    <3> HIDE DEF Has, Earlier
    <3>4. Has(m) <=> Earlier(m)
      BY <2>3, <2>4, <3>2, <3>3
    <3>5. QED
      BY <2>1, <3>4
  <2>9. QED
    BY <2>7, <2>8
<1> HIDE DEF Good
<1>3. n \in Good
  BY <1>1, <1>2, UpTo
<1>4. QED
  BY <1>3 DEF Good

\* The rows read are those of the file, and the names mean what they meant.
LEMMA SameLoaded ==
    ASSUME store' = store, file' = file
    PROVE  \A known, n : /\ LoadedTo(known, n)' = LoadedTo(known, n)
                         /\ ReportedTo(known, n)' = ReportedTo(known, n)
<1>1. /\ \A known, i : RowMeaning(known, file[i])' = RowMeaning(known, file[i])
      /\ \A known, i : Acceptable(known, file[i])' <=> Acceptable(known, file[i])
      /\ \A known, i : UnresolvedNames(known, file[i])' = UnresolvedNames(known, file[i])
  BY SameRows
<1>2. \A known, i : IsLoaded(known, i)' <=> IsLoaded(known, i)
  BY <1>1 DEF IsLoaded
<1>3. \A known, i : PartLoaded(known, i)' = PartLoaded(known, i)
  BY <1>1, <1>2 DEF PartLoaded
<1>4. \A known, n : LoadedTo(known, n)' = LoadedTo(known, n)
  BY <1>3 DEF LoadedTo
<1>5. \A i : IsLookedAt(file[i])' <=> IsLookedAt(file[i])
  BY DEF IsLookedAt, HasAction, HasStatus
<1>6. \A known, n : ReportedTo(known, n)' = ReportedTo(known, n)
  BY <1>1, <1>5 DEF ReportedTo
<1>7. QED
  BY <1>4, <1>6

(***************************************************************************)
(* The rules are those of the rows read, in every state.                   *)
(***************************************************************************)
\* What a load has done so far, given what is known.
LoadIs(known) ==
    /\ rules = IF phase = "loaded" /\ implicit THEN Append(LoadedTo(known, position), DenyAllRule)
               ELSE LoadedTo(known, position)
    /\ status.unresolved = ReportedTo(known, position)

LoadIsRight == \A known : Agrees(known, NewBuild) => LoadIs(known)

NothingLoaded == rules = <<>> /\ position = 0 /\ phase # "loaded" /\ status.unresolved = {}

MeaningInv ==
    /\ loads \in Nat /\ StoreTrue(store)
    /\ loads = 0 => Fresh /\ NothingLoaded /\ phase = "idle"
    /\ Undisturbed => TruthfulNow /\ LoadIsRight

LEMMA NothingIsRight == NothingLoaded => LoadIsRight
BY NothingRead DEF NothingLoaded, LoadIsRight, LoadIs

LEMMA NothingIsRightNext == (NothingLoaded => LoadIsRight)'
BY NothingIsRight, PTL

\* A session that has loaded nothing yet.
LEMMA FirstLoadNext ==
    ASSUME LoaderInv', StoreTrue(store)', loads' = 0, phase' = "idle", Fresh', NothingLoaded'
    PROVE  MeaningInv'
<1>1. Undisturbed' => Fair'
  BY DEF Undisturbed, Fair, LoaderInv
<1>2. LoadIsRight'
  BY NothingIsRightNext
<1>3. Undisturbed' => TruthfulNow'
  BY <1>1, FreshIsTruthfulNext
<1>4. QED
  BY <1>2, <1>3 DEF MeaningInv

LEMMA InitMeaning == Init => MeaningInv
<1> SUFFICES ASSUME Init PROVE MeaningInv
  OBVIOUS
<1>1. /\ store = ClearedStore /\ resolver = StartedResolver(EmptyFunction) /\ network = NewNetwork
      /\ rules = <<>> /\ position = 0 /\ phase = "idle" /\ status = NoStatus /\ loads = 0
  BY DEF Init
<1>2. StoreTrue(store)
  BY <1>1, ClearedIsTrue
<1>3. resolver.filtered = EmptyFunction
  BY <1>1 DEF StartedResolver
<1>4. Fresh /\ NothingLoaded
  BY <1>1, <1>3 DEF Fresh, NothingLoaded, NoStatus
<1>5. StoreOK(store)
  BY <1>1, ClearedIsOK
<1>6. Undisturbed => TruthfulNow
  BY <1>2, <1>4, <1>5, FreshIsTruthful DEF Undisturbed, Fair
<1>7. QED
  BY <1>1, <1>2, <1>4, <1>6, NothingIsRight DEF MeaningInv

LEMMA RestartMeaning ==
    ASSUME LoaderInv', Restart
    PROVE  MeaningInv'
<1>1. /\ store' = ClearedStore /\ resolver' = StartedResolver(resolver.file) /\ network' = NewNetwork
      /\ rules' = <<>> /\ position' = 0 /\ phase' = "idle" /\ status' = NoStatus /\ loads' = 0
  BY DEF Restart
<1>2. StoreTrue(store)'
  BY <1>1, ClearedIsTrue
<1>3. resolver'.filtered = EmptyFunction
  BY <1>1 DEF StartedResolver
<1>4. Fresh' /\ NothingLoaded'
  BY <1>1, <1>3 DEF Fresh, NothingLoaded, NoStatus
<1>5. QED
  BY <1>1, <1>2, <1>4, FirstLoadNext

\* After a change of the store nothing is said but in a new session.
LEMMA ChangeStoreMeaning ==
    ASSUME MeaningInv, LoaderInv', NEW st, StoreTrue(st), ChangeStore(st)
    PROVE  MeaningInv'
<1>1. /\ store' = st /\ reloaded' = (reloaded \/ loads > 0)
      /\ UNCHANGED <<resolver, network, rules, position, phase, status, loads>>
  BY DEF ChangeStore
<1>2. StoreTrue(store)'
  BY <1>1
<1>3. CASE loads = 0
  <2>1. Fresh' /\ NothingLoaded' /\ phase' = "idle"
    BY <1>1, <1>3 DEF MeaningInv, Fresh, NothingLoaded
  <2>2. QED
    BY <1>1, <1>2, <1>3, <2>1, FirstLoadNext
<1>4. CASE loads # 0
  <2>1. loads > 0
    BY <1>4 DEF MeaningInv
  <2>2. ~Undisturbed'
    BY <1>1, <2>1 DEF Undisturbed
  <2>3. QED
    BY <1>1, <1>2, <1>4, <2>2 DEF MeaningInv
<1>5. QED
  BY <1>3, <1>4

\* As long as the store is the same, what disturbs a load stays.
LEMMA DisturbedBefore ==
    ASSUME store' = store, reloaded' = reloaded, failing => failing'
    PROVE  Undisturbed' => Undisturbed
BY SameTruth DEF Undisturbed

\* The caches and the store are the same.
LEMMA TruthfulStill ==
    ASSUME UNCHANGED <<store, resolver, network>>
    PROVE  /\ TruthfulNow' <=> TruthfulNow
           /\ \A known : Agrees(known, NewBuild)' <=> Agrees(known, NewBuild)
<1>1. NewBuild'.resolver = NewBuild.resolver /\ NewBuild'.network = NewBuild.network
  BY DEF NewBuild
<1>2. \A known : Agrees(known, NewBuild)' <=> Agrees(known, NewBuild)
  BY <1>1 DEF Agrees
<1>3. FilteredTrue(NewBuild.resolver)' <=> FilteredTrue(NewBuild.resolver)
  BY <1>1, SameTruth
<1>4. \A known : CachesTrue(known, NewBuild.network)' <=> CachesTrue(known, NewBuild.network)
  BY <1>1, SameTruth
<1>5. TruthfulNow' <=> TruthfulNow
  BY <1>1, <1>2, <1>3, <1>4 DEF TruthfulNow, Truthful
<1>6. QED
  BY <1>2, <1>5

LEMMA StartLoadMeaning ==
    ASSUME MeaningInv, StartLoad
    PROVE  MeaningInv'
<1>1. /\ rules' = <<>> /\ position' = 0 /\ phase' = "loading" /\ status' = NoStatus /\ loads' = loads + 1
      /\ UNCHANGED <<store, resolver, network, reloaded, failing>>
  BY DEF StartLoad
<1>2. loads' \in Nat /\ loads' # 0
  BY <1>1 DEF MeaningInv
<1>3. NothingLoaded'
  BY <1>1 DEF NothingLoaded, NoStatus
<1>4. LoadIsRight'
  BY <1>3, NothingIsRightNext
<1>5. Undisturbed' => TruthfulNow'
  BY <1>1, DisturbedBefore, TruthfulStill DEF MeaningInv
<1>6. StoreTrue(store)'
  BY <1>1 DEF MeaningInv
<1>7. QED
  BY <1>2, <1>4, <1>5, <1>6 DEF MeaningInv

\* A step of the loop that leaves the caches alone.
LEMMA QuietMeaning ==
    ASSUME MeaningInv, phase = "loading", UNCHANGED <<store, resolver, network, reloaded, loads>>,
           failing => failing',
           \A known : Agrees(known, NewBuild) /\ LoadIs(known) => LoadIs(known)'
    PROVE  MeaningInv'
<1>1. StoreTrue(store)' /\ loads' \in Nat
  BY DEF MeaningInv
<1>2. loads' # 0
  BY DEF MeaningInv
<1>3. Undisturbed' => TruthfulNow' /\ LoadIsRight'
  <2> SUFFICES ASSUME Undisturbed' PROVE TruthfulNow' /\ LoadIsRight'
    OBVIOUS
  <2>1. TruthfulNow /\ LoadIsRight
    BY DisturbedBefore DEF MeaningInv
  <2>2. TruthfulNow'
    BY <2>1, TruthfulStill
  <2>3. \A known : Agrees(known, NewBuild)' => Agrees(known, NewBuild)
    BY TruthfulStill
  <2>4. LoadIsRight'
    BY <2>1, <2>3 DEF LoadIsRight
  <2>5. QED
    BY <2>2, <2>4
<1>4. QED
  BY <1>1, <1>2, <1>3 DEF MeaningInv

LEMMA InterruptMeaning ==
    ASSUME MeaningInv, Interrupt
    PROVE  MeaningInv'
<1>1. /\ phase = "loading" /\ phase' = "stopped"
      /\ UNCHANGED <<store, file, resolver, network, rules, position, status, loads, reloaded, failing>>
  BY DEF Interrupt, InLoop, Rest
<1>2. \A known, n : LoadedTo(known, n)' = LoadedTo(known, n) /\ ReportedTo(known, n)' = ReportedTo(known, n)
  BY <1>1, SameLoaded
<1>3. \A known : LoadIs(known) => LoadIs(known)'
  BY <1>1, <1>2 DEF LoadIs
<1>4. QED
  BY <1>1, <1>3, QuietMeaning

LEMMA EndLoadMeaning ==
    ASSUME LoaderInv, MeaningInv, EndLoad
    PROVE  MeaningInv'
<1>1. /\ phase = "loading" /\ phase' = "loaded" /\ implicit' = implicit
      /\ rules' = IF implicit THEN Append(rules, DenyAllRule) ELSE rules
      /\ status' = [status EXCEPT !.disabled = (status.loaded - Cardinality(Enabled(rules'))) % SizeMax]
      /\ UNCHANGED <<store, file, resolver, network, position, loads, reloaded, failing>>
  BY DEF EndLoad, InLoop, Rest
<1>2. \A known, n : LoadedTo(known, n)' = LoadedTo(known, n) /\ ReportedTo(known, n)' = ReportedTo(known, n)
  BY <1>1, SameLoaded
<1>3. DenyAllRule' = DenyAllRule
  BY DEF DenyAllRule
<1>4. status'.unresolved = status.unresolved
  BY <1>1 DEF LoaderInv, StatusOK
<1>5. \A known : LoadIs(known) => LoadIs(known)'
  BY <1>1, <1>2, <1>3, <1>4 DEF LoadIs
<1>6. QED
  BY <1>1, <1>5, QuietMeaning

\* A row that is refused at once is not acceptable.
LEMMA RefuseRowMeaning ==
    ASSUME LoaderInv, MeaningInv, RefuseRow
    PROVE  MeaningInv'
<1>1. /\ phase = "loading" /\ ~IsLookedAt(file[position + 1]) /\ position' = position + 1
      /\ status' = [status EXCEPT !.errors = @ + 1]
      /\ UNCHANGED <<store, file, resolver, network, rules, phase, loads, reloaded, failing>>
  BY DEF RefuseRow, InLoop, Rest, IsLookedAt, Row
<1>2. \A known, n : LoadedTo(known, n)' = LoadedTo(known, n) /\ ReportedTo(known, n)' = ReportedTo(known, n)
  BY <1>1, SameLoaded
<1>3. position \in Nat
  BY DEF LoaderInv, PlaceOK
<1>4. status'.unresolved = status.unresolved
  BY <1>1 DEF LoaderInv, StatusOK
<1>5. ASSUME NEW known
      PROVE  /\ LoadedTo(known, position + 1) = LoadedTo(known, position)
             /\ ReportedTo(known, position + 1) = ReportedTo(known, position)
  <2>1. ~IsLoaded(known, position + 1)
    BY <1>1 DEF IsLoaded, Acceptable, IsLookedAt
  <2>2. QED
    BY <1>1, <1>3, <2>1, OneMoreLoaded, OneMoreReported
<1>6. \A known : LoadIs(known) => LoadIs(known)'
  BY <1>1, <1>2, <1>4, <1>5 DEF LoadIs
<1>7. QED
  BY <1>1, <1>6, QuietMeaning

(***************************************************************************)
(* A row that is added.                                                    *)
(***************************************************************************)
\* The caches after a row are those of its build.
LEMMA TruthfulAfter ==
    ASSUME store' = store, NEW c, network' = c.network, resolver' = c.resolver
    PROVE  /\ Truthful(c) => TruthfulNow'
           /\ \A known : Agrees(known, NewBuild)' <=> Agrees(known, c)
<1>1. NewBuild'.resolver = c.resolver /\ NewBuild'.network = c.network
  BY DEF NewBuild
<1>2. \A known : Agrees(known, NewBuild)' <=> Agrees(known, c)
  BY <1>1 DEF Agrees
<1>3. FilteredTrue(NewBuild.resolver)' <=> FilteredTrue(c.resolver)
  <2>1. FilteredTrue(NewBuild.resolver)' <=> \A host \in DOMAIN c.resolver.filtered :
           LET object == c.resolver.filtered[host] IN
           /\ host \in DOMAIN c.resolver.memory /\ object.addresses = c.resolver.memory[host] \cap UsableAddress
           /\ IsFqdn("src", object.name)' /\ HostOf("src", object.name)' = host
    BY <1>1 DEF FilteredTrue
  <2>2. QED
    BY <2>1, SameObjects DEF FilteredTrue
<1>4. \A known : CachesTrue(known, NewBuild.network)' <=> CachesTrue(known, c.network)
  BY <1>1, SameTruth
<1>5. Truthful(c) => TruthfulNow'
  BY <1>1, <1>2, <1>3, <1>4 DEF TruthfulNow, Truthful
<1>6. QED
  BY <1>2, <1>5

\* The rule of a row is added if and only if the row is one of those to be loaded.
LEMMA ValidIsLoaded ==
    ASSUME NEW known, position \in Nat, rules = LoadedTo(known, position), IsLookedAt(Row),
           NEW rule, rule = RowMeaning(known, Row)
    PROVE  IsValid(rule) <=> IsLoaded(known, position + 1)
<1>1. Row = file[position + 1]
  BY DEF Row
<1>2. rule.id = Row.id /\ \A field \in RowField : rule.fields[field] = FieldMeaning(known, Row, field)
  BY DEF RowMeaning
<1>3. IsDuplicate(rule) <=> \E j \in 1 .. position : Acceptable(known, file[j]) /\ file[j].id = rule.id
  BY LoadedIds DEF IsDuplicate
<1>4. Acceptable(known, Row) <=> \A field \in RowField : rule.fields[field] # {}
  BY <1>2 DEF Acceptable, IsLookedAt
<1>5. 1 .. ((position + 1) - 1) = 1 .. position
  OBVIOUS
<1>6. IsLoaded(known, position + 1)
         <=> Acceptable(known, Row) /\ \A j \in 1 .. position : Acceptable(known, file[j]) => file[j].id # Row.id
  BY <1>1, <1>5 DEF IsLoaded
<1>7. QED
  BY <1>2, <1>3, <1>4, <1>6 DEF IsValid

LEMMA AddRuleIsRight ==
    ASSUME NEW known, LoaderInv, phase = "loading", UNCHANGED <<store, file>>, IsLookedAt(Row),
           LoadIs(known), NEW c, RowTrue(known, Row, c), AddRule(RuleOf(Row, c.groups), c.unresolved)
    PROVE  LoadIs(known)'
<1> DEFINE rule == RowMeaning(known, Row)
<1>1. /\ rules' = IF IsValid(rule) THEN Append(rules, rule) ELSE rules
      /\ status' = [status EXCEPT !.loaded = IF IsValid(rule) THEN @ + 1 ELSE @,
                                  !.errors = IF IsValid(rule) THEN @ ELSE @ + 1,
                                  !.unresolved = @ \cup UnresolvedNames(known, Row)]
      /\ position' = position + 1 /\ phase' = phase
  BY DEF AddRule, RowTrue
<1>2. position \in Nat
  BY DEF LoaderInv, PlaceOK
<1>3. rules = LoadedTo(known, position) /\ status.unresolved = ReportedTo(known, position)
  BY DEF LoadIs
<1>4. IsValid(rule) <=> IsLoaded(known, position + 1)
  BY <1>2, <1>3, ValidIsLoaded
<1>5. rules' = LoadedTo(known, position + 1)
  <2>1. LoadedTo(known, position + 1)
              = IF IsLoaded(known, position + 1) THEN Append(LoadedTo(known, position), rule)
                ELSE LoadedTo(known, position)
    BY <1>2, OneMoreLoaded DEF Row
  <2>2. QED
    BY <1>1, <1>3, <1>4, <2>1
<1>6. status'.unresolved = ReportedTo(known, position + 1)
  <2>1. status'.unresolved = status.unresolved \cup UnresolvedNames(known, Row)
    BY <1>1 DEF LoaderInv, StatusOK
  <2>2. ReportedTo(known, position + 1) = ReportedTo(known, position) \cup UnresolvedNames(known, Row)
    BY <1>2, OneMoreReported DEF Row
  <2>3. QED
    BY <1>3, <2>1, <2>2
<1>7. \A n : LoadedTo(known, n)' = LoadedTo(known, n) /\ ReportedTo(known, n)' = ReportedTo(known, n)
  BY SameLoaded
<1> HIDE DEF rule
<1>8. QED
  BY <1>1, <1>5, <1>6, <1>7 DEF LoadIs

LEMMA AddRowMeaning ==
    ASSUME LoaderInv, MeaningInv, AddRow
    PROVE  MeaningInv'
<1>1. /\ phase = "loading" /\ AnotherRow /\ IsLookedAt(Row)
      /\ UNCHANGED <<implicit, store, file, loads, reloaded>>
  BY DEF AddRow, InLoop, Rest, IsLookedAt
<1>2. PICK answers : /\ network' = BuildGroups(Row, answers).network
                     /\ resolver' = BuildGroups(Row, answers).resolver
                     /\ failing' = BuildGroups(Row, answers).failing
                     /\ IF BuildGroups(Row, answers).thrown
                        THEN phase' = "stopped" /\ UNCHANGED <<rules, position, status>>
                        ELSE AddRule(RuleOf(Row, BuildGroups(Row, answers).groups),
                                     BuildGroups(Row, answers).unresolved)
  BY DEF AddRow
<1> DEFINE c == BuildGroups(Row, answers)
<1>3. /\ network' = c.network /\ resolver' = c.resolver /\ failing' = c.failing
      /\ c.thrown => phase' = "stopped" /\ UNCHANGED <<rules, position, status>>
      /\ ~c.thrown => AddRule(RuleOf(Row, c.groups), c.unresolved)
  BY <1>2
<1>4. \A field \in RowField : Row[field] \in Seq(STRING)
  BY <1>1, RowIsTyped DEF LoaderInv
<1>5. Fair => /\ Builds(NewBuild, c)
              /\ Truthful(NewBuild) /\ ~c.failing /\ ~c.thrown =>
                    \A known : Agrees(known, c) => RowTrue(known, Row, c)
  BY <1>4, RowIs DEF LoaderInv
<1> HIDE DEF c
<1>6. StoreTrue(store)' /\ loads' \in Nat /\ loads' # 0
  BY <1>1 DEF MeaningInv
<1>7. ASSUME Undisturbed'
      PROVE  TruthfulNow' /\ LoadIsRight'
  <2>1. ~failing' /\ ~CachesCanDiffer
    BY <1>1, <1>7, SameTruth DEF Undisturbed
  <2>2. Fair
    BY <2>1 DEF Fair, LoaderInv, MeaningInv
  <2>3. Grows(NewBuild, c) /\ (Truthful(NewBuild) => Truthful(c))
    BY <1>3, <1>5, <2>1, <2>2 DEF Builds
  <2>4. ~failing
    <3>1. NewBuild.failing = failing
      BY DEF NewBuild
    <3>2. QED
      BY <1>3, <2>1, <2>3, <3>1 DEF Grows
  <2>5. TruthfulNow /\ LoadIsRight
    BY <1>1, <1>7, <2>1, <2>4 DEF Undisturbed, MeaningInv
  <2>6. Truthful(NewBuild) /\ Truthful(c)
    BY <2>3, <2>5 DEF TruthfulNow
  <2>7. TruthfulNow' /\ \A known : Agrees(known, NewBuild)' <=> Agrees(known, c)
    BY <1>1, <1>3, <2>6, TruthfulAfter
  <2>8. ASSUME NEW known, Agrees(known, c)
        PROVE  LoadIs(known)'
    <3>1. Agrees(known, NewBuild)
      BY <2>3, <2>8, AgreesBefore
    <3>2. LoadIs(known)
      BY <2>5, <3>1 DEF LoadIsRight
    <3>3. CASE c.thrown
      <4>1. phase' = "stopped" /\ UNCHANGED <<rules, position, status>>
        BY <1>3, <3>3
      <4>2. \A n : LoadedTo(known, n)' = LoadedTo(known, n) /\ ReportedTo(known, n)' = ReportedTo(known, n)
        BY <1>1, SameLoaded
      <4>3. QED
        BY <1>1, <3>2, <4>1, <4>2 DEF LoadIs
    <3>4. CASE ~c.thrown
      <4>1. RowTrue(known, Row, c) /\ AddRule(RuleOf(Row, c.groups), c.unresolved)
        BY <1>3, <1>5, <2>1, <2>2, <2>6, <2>8, <3>4
      <4>2. QED
        BY <1>1, <3>2, <4>1, AddRuleIsRight
    <3>5. QED
      BY <3>3, <3>4
  <2>9. LoadIsRight'
    BY <2>7, <2>8 DEF LoadIsRight
  <2>10. QED
    BY <2>7, <2>9
<1>8. QED
  BY <1>6, <1>7 DEF MeaningInv

LEMMA NextMeaning ==
    ASSUME LoaderInv, LoaderInv', MeaningInv, [Next]_vars
    PROVE  MeaningInv'
<1>1. CASE LoadStore
  <2>1. PICK files \in StoreFiles :
            ChangeStore([kind \in ObjectKind |->
                           IF kind \in DOMAIN files THEN LoadKind(kind, files[kind]) ELSE store[kind]])
    BY <1>1 DEF LoadStore
  <2>2. QED
    BY <2>1, LoadStoreIsTrue, ChangeStoreMeaning DEF LoaderInv, MeaningInv
<1>2. CASE ClearStore
  BY <1>2, ClearedIsTrue, ChangeStoreMeaning DEF ClearStore
<1>3. CASE StartLoad
  BY <1>3, StartLoadMeaning
<1>4. CASE RefuseRow
  BY <1>4, RefuseRowMeaning
<1>5. CASE AddRow
  BY <1>5, AddRowMeaning
<1>6. CASE EndLoad
  BY <1>6, EndLoadMeaning
<1>7. CASE Interrupt
  BY <1>7, InterruptMeaning
<1>8. CASE Restart
  BY <1>8, RestartMeaning
<1>9. CASE UNCHANGED vars
  <2>1. UNCHANGED <<implicit, store, file, resolver, network, rules, position, phase, status,
                    loads, reloaded, failing>>
    BY <1>9 DEF vars
  <2>2. /\ TruthfulNow' <=> TruthfulNow
        /\ \A known : Agrees(known, NewBuild)' <=> Agrees(known, NewBuild)
    BY <2>1, TruthfulStill
  <2>3. \A known : LoadIs(known) => LoadIs(known)'
    BY <2>1, SameLoaded DEF LoadIs
  <2>4. Undisturbed' => Undisturbed
    BY <2>1, DisturbedBefore
  <2>5. LoadIsRight => LoadIsRight'
    BY <2>2, <2>3 DEF LoadIsRight
  <2>6. QED
    BY <2>1, <2>2, <2>4, <2>5 DEF MeaningInv, Fresh, NothingLoaded
<1>10. QED
  BY <1>1, <1>2, <1>3, <1>4, <1>5, <1>6, <1>7, <1>8, <1>9 DEF Next

LEMMA AlwaysMeaning == Spec => []MeaningInv
<1>1. Init => MeaningInv
  BY InitMeaning
<1>2. LoaderInv /\ LoaderInv' /\ MeaningInv /\ [Next]_vars => MeaningInv'
  BY NextMeaning
<1>3. QED
  BY <1>1, <1>2, AlwaysLoaderInv, PTL DEF Spec

\* What the resolver and the network know now.
LEMMA KnownNow == MeaningInv /\ Undisturbed => LoadIs(Known)
<1>1. Agrees(Known, NewBuild)
  BY DEF Agrees, Known, NewBuild
<1>2. QED
  BY <1>1 DEF MeaningInv, LoadIsRight

(***************************************************************************)
(* The theorems.                                                           *)
(***************************************************************************)
\* The state has its types in every reachable state: positions lie in the
\* file, the filtered cache of the resolver holds usable addresses of hosts
\* that are known, rules have ids, and the size_t that counts disabled rules
\* stays below its limit.
THEOREM TypeCorrect == Spec => []TypeOK
<1>1. LoaderInv => TypeOK
  BY DEF LoaderInv, TypeOK, StoreOK, ResolverOK, NetworkOK, GeneratorOK, RulesOK, PlaceOK, StatusOK
<1>2. QED
  BY <1>1, AlwaysLoaderInv, PTL

\* A number stands for one name, in all loads of a session and up to the end
\* of the range of the generator: two zones, applications, users or URLs never
\* share an id, and an object of a cache bears the id of its name.
THEOREM IdsCorrect == Spec => []IdsDistinct
<1>1. LoaderInv => IdsDistinct
  <2> SUFFICES ASSUME NetworkOK(network) PROVE IdsDistinct
    BY DEF LoaderInv
  <2>1. ASSUME NEW gen \in Generator
        PROVE  IsInjective(network.gen[gen].ids) /\ Range(network.gen[gen].ids) \subseteq 1 .. (MaxId - 1)
    <3> DEFINE ids == network.gen[gen].ids
    <3>1. GeneratorOK(network.gen[gen])
      BY DEF NetworkOK
    <3>2. /\ \A name \in DOMAIN ids : ids[name] \in 1 .. (MaxId - 1)
          /\ \A a, b \in DOMAIN ids : ids[a] = ids[b] => a = b
      BY <3>1 DEF GeneratorOK
    <3> HIDE DEF ids
    <3>3. IsInjective(ids) /\ Range(ids) \subseteq 1 .. (MaxId - 1)
      BY <3>2 DEF IsInjective, Range
    <3>4. QED
      BY <3>3 DEF ids
  <2>2. \A kind \in CacheKind \ {"src", "dst", "svc"} :
           \A name \in DOMAIN network.cache[kind].objects \ {"any"} :
              {IdOf(kind, value) : value \in network.cache[kind].objects[name]}
                 = {network.gen[GeneratorOf(kind)].ids[name]}
    BY DEF NetworkOK, NumbersOK, NumberedKind
  <2>3. QED
    BY <2>1, <2>2 DEF IdsDistinct
<1>2. QED
  BY <1>1, AlwaysLoaderInv, PTL

\* Once a host name has been resolved it keeps its addresses, also after the
\* process is stopped at any moment and started again: a positive answer is
\* never in memory without being in the cache file.
THEOREM HostsStable == Spec => HostAnswersStable
<1> DEFINE Kept == \A host \in DOMAIN resolver.memory :
                      resolver.memory[host] # {} =>
                         /\ host \in DOMAIN resolver'.memory
                         /\ resolver'.memory[host] = resolver.memory[host]
<1>1. ASSUME LoaderInv, [Next]_vars
      PROVE  Kept
  <2>1. CASE AddRow
    BY <1>1, <2>1, AddRowKeeps DEF KnownTo
  <2>2. CASE Restart
    <3>1. resolver'.memory = resolver.file
      BY <2>2, StartedIsOK DEF Restart
    <3>2. QED
      BY <1>1, <3>1 DEF LoaderInv, ResolverOK
  <2>3. ASSUME UNCHANGED resolver
        PROVE  Kept
    BY <2>3
  <2>4. LoadStore \/ ClearStore \/ StartLoad \/ RefuseRow \/ EndLoad \/ Interrupt \/ UNCHANGED vars
           => UNCHANGED resolver
    BY DEF LoadStore, ClearStore, ChangeStore, StartLoad, RefuseRow, EndLoad, Interrupt, vars
  <2>5. QED
    BY <1>1, <2>1, <2>2, <2>3, <2>4 DEF Next
<1>2. LoaderInv /\ [Next]_vars => [Kept]_vars
  BY <1>1
<1>3. Spec => [][Kept]_vars
  BY <1>2, AlwaysLoaderInv, PTL DEF Spec
<1>4. QED
  BY <1>3 DEF HostAnswersStable

\* Every row that is read is counted once, as loaded or as an error; the rules
\* of the firewall but the implicit one are those that are counted as loaded;
\* and the number of disabled rules is short by one if there is an implicit
\* rule, modulo the range of a size_t.
THEOREM CountsCorrect == Spec => []StatusCounts
<1>1. LoaderInv => StatusCounts
  BY DEF LoaderInv
<1>2. QED
  BY <1>1, AlwaysLoaderInv, PTL

\* The firewall holds one rule for the first acceptable row of each id, in the
\* order of the file, and the rule matches exactly the addresses, services,
\* applications, users, URLs and zones that the names of its row stand for:
\* nested pools, the caches filled by other rows and by earlier loads, refused
\* rows and interruptions change nothing of it, for every file and every store,
\* as long as the load is Undisturbed.
THEOREM RulesCorrect == Spec => []RulesAreTheRows
<1>1. MeaningInv => RulesAreTheRows
  BY KnownNow, RowsRead DEF RulesAreTheRows, LoadIs
<1>2. QED
  BY <1>1, AlwaysMeaning, PTL

\* The report of a load is exact: each row read is counted once, and the names
\* that are reported are all those that the store, the pools and the hosts do
\* not resolve, and no others.
THEOREM StatusCorrect == Spec => []StatusExact
<1>1. MeaningInv => StatusNames
  BY KnownNow, RowsRead DEF StatusNames, LoadIs
<1>2. LoaderInv => StatusCounts
  BY DEF LoaderInv
<1>3. QED
  BY <1>1, <1>2, AlwaysMeaning, AlwaysLoaderInv, PTL DEF StatusExact
=============================================================================
