-------------------------- MODULE LoaderCorrectness --------------------------
(***************************************************************************)
(* What a loaded policy must be, in terms of the file, the store and what  *)
(* the host names stand for, without the caches.                           *)
(***************************************************************************)
EXTENDS PolicyLoader

(***************************************************************************)
(* The meaning of a name, given what is known: the addresses of hosts, and *)
(* the numbers of zones, applications, users and URLs.                     *)
(***************************************************************************)
Known == [hosts |-> resolver.memory, ids |-> [gen \in Generator |-> network.gen[gen].ids]]

HostMeaning(known, host) ==
    IF host \in DOMAIN known.hosts THEN known.hosts[host] \cap UsableAddress ELSE {}

HasObject(known, kind, name) ==
    /\ name \in DOMAIN ObjectsOf(kind)
    /\ IsFqdn(kind, name) => HostMeaning(known, HostOf(kind, name)) # {}

KnownObjects(known, kind) == {name \in DOMAIN ObjectsOf(kind) : HasObject(known, kind, name)}

IdMeaning(known, kind, name) ==
    LET ids == known.ids[GeneratorOf(kind)] IN
    IF name = "any" THEN {AnyId} ELSE IF name \in DOMAIN ids THEN {ids[name]} ELSE {}

ObjectMeaning(known, kind, name) ==
    CASE kind \in {"src", "dst", "svc"} ->
            IF IsFqdn(kind, name) THEN HostMeaning(known, HostOf(kind, name))
            ELSE Range(ObjectsOf(kind)[name].values)
      [] kind \in {"app", "app_svc"} ->
            {ApplicationValue(id, ResolveAppServices(name)) : id \in IdMeaning(known, kind, name)}
      [] OTHER -> IdMeaning(known, kind, name)

LiteralMeaning(known, kind, name) == IF kind = "url" THEN IdMeaning(known, kind, name) ELSE {name}

\* All the names a name of a row stands for: objects, or unresolved names.
Leaves(known, kind, name) ==
    LET entries == Traversal(KnownObjects(known, kind), PoolsOf(kind))[name] IN
    IF HasObject(known, kind, name) \/ name \notin DOMAIN PoolsOf(kind) THEN {name}
    ELSE NamesOf(entries, "object") \cup NamesOf(entries, "unresolved")

NameMeaning(known, kind, name) ==
    IF IsLiteral(kind, name) THEN LiteralMeaning(known, kind, name)
    ELSE UNION {ObjectMeaning(known, kind, leaf) :
                   leaf \in Leaves(known, kind, name) \cap KnownObjects(known, kind)}

NamesMeaning(known, kind, names) == UNION {NameMeaning(known, kind, name) : name \in Range(names)}

(***************************************************************************)
(* The meaning of a row, and the rules of a file.                          *)
(***************************************************************************)
FieldMeaning(known, row, field) ==
    CASE field = "app" -> NamesMeaning(known, AppKind(row), row.app)
      [] field = "svc" /\ DefaultAppServices(row) ->
            UNION {app.services : app \in NamesMeaning(known, "app_svc", row.app)}
      [] field \in {"src_zone", "dst_zone"} ->
            UNION {IdMeaning(known, field, name) : name \in Range(row[field])}
      [] OTHER -> NamesMeaning(known, field, row[field])

RowMeaning(known, row) ==
    [id |-> row.id, enabled |-> row.status = "enabled", action |-> row.action,
     fields |-> [field \in RowField |-> FieldMeaning(known, row, field)]]

Acceptable(known, row) ==
    HasAction(row) /\ HasStatus(row) /\ \A field \in RowField : FieldMeaning(known, row, field) # {}

\* The first acceptable row of each id is loaded.
IsLoaded(known, i) ==
    /\ Acceptable(known, file[i])
    /\ \A j \in 1..(i - 1) : Acceptable(known, file[j]) => file[j].id # file[i].id

LoadedRules(known) ==
    FlattenSeq([i \in 1..position |->
                  IF IsLoaded(known, i) THEN <<RowMeaning(known, file[i])>> ELSE <<>>])

UnresolvedNames(known, row) ==
    UNION {{DictionaryOf(field)} \X
           UNION {{leaf \in Leaves(known, field, name) :
                      ~IsLiteral(field, name) /\ ~HasObject(known, field, leaf)} :
                     name \in Range(row[field])} :
              field \in {f \in RowField \ {"src_zone", "dst_zone"} :
                            ~(f = "svc" /\ DefaultAppServices(row))}}

(***************************************************************************)
(* Five circumstances in which the caches of the network are known to      *)
(* differ from the store; each of them is reached by the runs.             *)
(***************************************************************************)
Addresses == store["address"]

\* Two fqdn objects of one host: both are registered under one name.
HasAliases ==
    \E a, b \in DOMAIN Addresses.objects :
       a # b /\ IsFqdn("src", a) /\ IsFqdn("src", b) /\ HostOf("src", a) = HostOf("src", b)

\* A literal in a pool is a member only if an earlier row registered it.
HasLiteralMembers ==
    \E kind \in ObjectKind : \E pool \in DOMAIN store[kind].pools :
       Range(store[kind].pools[pool]) \cap Literals # {}

\* The network has an object "any" of its own.
RedefinesAny == Addresses.objects["any"] # Object(<<"any">>)

CachesCanDiffer == HasAliases \/ HasLiteralMembers \/ RedefinesAny
Undisturbed == ~reloaded /\ ~failing /\ ~CachesCanDiffer

(***************************************************************************)
(* The firewall holds the rules of the rows read, in the order of the      *)
(* file, each meaning what its row says.  Rows that are refused, shared    *)
(* objects registered by other rows and earlier loads, nested pools, the   *)
(* resolver and an interruption change nothing of it; the implicit         *)
(* deny-all rule closes it only if the load ends (firewallfactory.cpp,     *)
(* load_rules, add_rule and the build_* functions).                        *)
(*                                                                         *)
(* This is what the code does with names that are not in the store, and    *)
(* not what README.md:809 says of them ("Rules that make reference to      *)
(* objects (address, service, ...) that are not available in the object    *)
(* store are skipped"): an unknown name means nothing (NameMeaning), the   *)
(* row keeps what its other names mean, and only a row with a field that   *)
(* is left without any is refused (Acceptable).                            *)
(***************************************************************************)
RulesAreTheRows ==
    Undisturbed =>
        rules = IF phase = "loaded" /\ implicit THEN Append(LoadedRules(Known), DenyAllRule)
                ELSE LoadedRules(Known)

\* The report of a load: each row read is counted once, every name that could
\* not be resolved is reported and no other, and the disabled rules are
\* counted, one short when there is an implicit rule (LoaderStatus).
StatusCounts ==
    /\ status.loaded + status.errors = position
    /\ status.loaded = Cardinality({i \in DOMAIN rules : rules[i].id # 0})
    /\ phase = "loaded" =>
          status.disabled = (Cardinality({i \in DOMAIN rules : ~rules[i].enabled})
                             - (IF implicit THEN 1 ELSE 0)) % SizeMax

ReportedNames(known) ==
    UNION {UnresolvedNames(known, file[i]) :
              i \in {j \in 1..position : HasAction(file[j]) /\ HasStatus(file[j])}}

StatusNames == Undisturbed => status.unresolved = ReportedNames(Known)

StatusExact == StatusCounts /\ StatusNames

(***************************************************************************)
(* A number stands for one name: two zones (or applications, users, URLs)  *)
(* never share an id, in all loads of a session and up to the end of the   *)
(* range, and an object has the id of its name (idgen.cpp, get_id).        *)
(***************************************************************************)
IdOf(kind, value) == IF kind \in {"app", "app_svc"} THEN value.id ELSE value

IdsDistinct ==
    /\ \A gen \in Generator :
          LET ids == network.gen[gen].ids IN IsInjective(ids) /\ Range(ids) \subseteq 1..(MaxId - 1)
    /\ \A kind \in CacheKind \ {"src", "dst", "svc"} :
          \A name \in DOMAIN network.cache[kind].objects \ {"any"} :
             {IdOf(kind, value) : value \in network.cache[kind].objects[name]}
                = {network.gen[GeneratorOf(kind)].ids[name]}

\* Once a host name has been resolved it keeps its addresses, also after a
\* crash: what is in memory is on the disk (fqdnresolver.cpp, resolve and
\* load_cache).
HostAnswersStable ==
    [][\A host \in DOMAIN resolver.memory :
          resolver.memory[host] # {} =>
             /\ host \in DOMAIN resolver'.memory
             /\ resolver'.memory[host] = resolver.memory[host]]_vars

(***************************************************************************)
(* Sentences of the documentation.                                         *)
(***************************************************************************)
\* "If there is a failure while importing a rule, the reason will be given and
\* the rule will be skipped" (README): the other rows are imported.
OnlyFailingRowsSkipped ==
    phase = "loaded" /\ Undisturbed =>
        \A i \in DOMAIN file :
           file[i].readable /\ Acceptable(Known, file[i]) => \E k \in DOMAIN rules : rules[k].id = file[i].id

\* "The objects are copied from the object store when a rule is loaded"
\* (README): a rule just loaded means what the store says.
CopiedFromStore ==
    (phase = "loading" /\ ~failing /\ ~CachesCanDiffer) =>
        \A k \in DOMAIN rules : \E i \in 1..position : rules[k] = RowMeaning(Known, file[i])
=============================================================================
