---------------------------- MODULE ObjectStore ----------------------------
(***************************************************************************)
(* The object store: one dictionary of objects and one of pools for each   *)
(* kind of name a policy may use.  A dictionary is a function on the names *)
(* it defines; a pool is the sequence of the names of its members.         *)
(*                                                                         *)
(* This module is constant level: what loading a file does to a            *)
(* dictionary, and the traversal of nested pools as one function.  The     *)
(* loop of the traversal is the state machine PoolResolver.                *)
(***************************************************************************)
EXTENDS Naturals, FiniteSets, SequencesExt

ObjectKind == {"address", "service", "application", "user", "url"}

EmptyFunction == [name \in {} |-> <<>>]

\* A map with one more entry, and a map with the entries of another put into it.
Put(map, name, value) == [n \in {name} \cup DOMAIN map |-> IF n = name THEN value ELSE map[n]]
PutAll(map, entries) ==
    [n \in DOMAIN entries \cup DOMAIN map |-> IF n \in DOMAIN entries THEN entries[n] ELSE map[n]]

(***************************************************************************)
(* Dictionaries.  An object has the values of its definition (addresses,   *)
(* protocols and ports); those of an fqdn object are a single host name.   *)
(***************************************************************************)
Object(values) == [fqdn |-> FALSE, values |-> values]
FqdnObject(host) == [fqdn |-> TRUE, values |-> <<host>>]

Dictionary(names, values) == [name \in names |-> Object(IF values = <<>> THEN <<name>> ELSE values)]

\* The names that mean everything are put back by ObjectStore::clear.
Predefined(kind) ==
    CASE kind \in {"service", "application"} -> {"any", "tcp", "udp", "icmp"}
      [] OTHER -> {"any"}

ClearedStore == [kind \in ObjectKind |->
    [objects |-> Dictionary(Predefined(kind), <<>>), pools |-> EmptyFunction]]

\* make_object refuses to redefine a predefined name, but an address object
\* can be named "any".
Accepted(kind, objects) ==
    IF kind = "address" THEN objects ELSE Restrict(objects, DOMAIN objects \ Predefined(kind))

\* ObjectDictionary::load: a name defined again takes its new definition.
LoadObjects(store, kind, objects) ==
    [store EXCEPT ![kind].objects = PutAll(@, Accepted(kind, objects))]
LoadPools(store, kind, pools) ==
    [store EXCEPT ![kind].pools = PutAll(@, pools)]

(***************************************************************************)
(* GenericResolver::resolve.  `objects' are the names that are found in    *)
(* the dictionary of objects: an object hides a pool of the same name.     *)
(***************************************************************************)
Entry(type, name) == [type |-> type, name |-> name]

\* Variant with a mistake: names of pools are looked up before those of objects.
BugEntriesOf(objects, pools, name, below) ==
    CASE name \in DOMAIN pools -> below[name]
      [] name \in objects \ DOMAIN pools -> <<Entry("object", name)>>
      [] OTHER -> <<Entry("unresolved", name)>>

\* What the traversal appends for one name, given what it appends for pools.
EntriesOf(objects, pools, name, below) ==
    CASE name \in objects -> <<Entry("object", name)>>
      [] name \notin objects /\ name \in DOMAIN pools -> below[name]
      [] OTHER -> <<Entry("unresolved", name)>>

\* All the entries the traversal of each pool meets, in order; a pool comes
\* after its members.  No chain of different pools is longer than their
\* number: a traversal that goes deeper is in a loop.
Traversal(objects, pools) ==
    LET depths == 0..Cardinality(DOMAIN pools)
        walk[d \in depths] ==
            [pool \in DOMAIN pools |->
               IF d = 0 THEN <<Entry("loop", pool)>>
               ELSE Append(FlattenSeq([i \in DOMAIN pools[pool] |->
                               EntriesOf(objects, pools, pools[pool][i], walk[d - 1])]),
                           Entry("pool", pool))]
    IN  walk[Cardinality(DOMAIN pools)]

HasLoop(entries) == \E i \in DOMAIN entries : entries[i].type = "loop"
NamesOf(entries, type) == {entries[i].name : i \in {j \in DOMAIN entries : entries[j].type = type}}
IsMember(entry) == entry.type \in {"object", "pool"}
Expanded(entries) ==
    FlattenSeq([i \in DOMAIN entries |-> IF IsMember(entries[i]) THEN <<entries[i]>> ELSE <<>>])
=============================================================================
