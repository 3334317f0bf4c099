---------------------------- MODULE PolicyLoader ----------------------------
(***************************************************************************)
(* FirewallFactory and PolicyReader: the rows of a policy file become the  *)
(* rules of a firewall, with the object store, the resolver of host names  *)
(* and the caches of the network.  One step is one iteration of the loop   *)
(* of load_rules, that is one whole row.                                   *)
(*                                                                         *)
(* The process can be stopped and started again at any moment: everything  *)
(* is lost then but the cache file of the resolver.                        *)
(***************************************************************************)
EXTENDS NetworkRegistry

CONSTANTS
    Policies,       \* the policy files: sequences of rows
    StoreFiles,     \* what the scripts that load the store load: for some
                    \* kinds, a file of objects and a file of pools
    Literals,       \* names that are an address or a protocol and port
    SizeMax,        \* size_t counts modulo SizeMax
    MaxLoads,       \* bound: loads of a policy in one session
    MaxStoreLoads   \* bound: changes of the store in one session

ASSUME SizeMaxAssumption == SizeMax \in Nat \ {0}

\* A row of a policy file.  `readable' is what PolicyReader::next_row checks
\* of a row: an id that is a positive number, lists that are not empty.
RowField == {"src", "dst", "svc", "app", "user", "url", "src_zone", "dst_zone"}
AppDefault == <<"app-default">>

\* A file is finite, and names are strings; an object has at least one value,
\* and only an address can be a host name.  The readers of the files check the
\* rest.
ASSUME FilesAssumption ==
    /\ \A policy \in Policies :
          /\ policy \in Seq(Range(policy))
          /\ \A i \in DOMAIN policy : policy[i].readable =>
                policy[i].id \in Nat \ {0} /\ \A field \in RowField : policy[i][field] \in Seq(STRING)
    /\ \A files \in StoreFiles : \A kind \in DOMAIN files :
          /\ kind \in ObjectKind
          /\ DOMAIN files[kind].objects \subseteq STRING
          /\ \A name \in DOMAIN files[kind].objects :
                LET object == files[kind].objects[name] IN
                /\ object.fqdn \in BOOLEAN /\ Range(object.values) # {}
                /\ object.fqdn => kind = "address" /\ object.values[1] \in Hosts
          /\ DOMAIN files[kind].pools \subseteq STRING /\ IsFiniteSet(DOMAIN files[kind].pools)
          /\ \A pool \in DOMAIN files[kind].pools : files[kind].pools[pool] \in Seq(STRING)

VARIABLES
    implicit,   \* LoaderConfig::add_implicit_deny_all
    store,      \* ObjectStore
    resolver,   \* FqdnResolver, with its cache file
    network,    \* Network
    rules,      \* the current firewall
    file,       \* the policy file of the last load
    position,   \* the rows of it that have been read
    phase,      \* "idle", "loading", "loaded"; "stopped": by an exception
    status,     \* LoaderStatus
    loads, store_loads,     \* what the bounds count
    reloaded,   \* history: the store has changed since a policy was loaded
    failing     \* history: a host name could not be looked up in this session

vars == <<implicit, store, resolver, network, rules, file, position, phase, status,
          loads, store_loads, reloaded, failing>>

NoStatus == [loaded |-> 0, errors |-> 0, disabled |-> 0, unresolved |-> {}]

TypeOK ==
    /\ implicit \in BOOLEAN
    /\ \A kind \in ObjectKind :
          /\ \A name \in DOMAIN store[kind].objects : store[kind].objects[name].fqdn \in BOOLEAN
          /\ "any" \in DOMAIN store[kind].objects
    /\ \A host \in DOMAIN resolver.filtered : resolver.filtered[host] \in FilteredEntry
    /\ DOMAIN resolver.filtered \subseteq DOMAIN resolver.memory
    /\ \A gen \in Generator : network.gen[gen].next \in Nat \ {0}
    /\ \A i \in DOMAIN rules : rules[i].id \in Nat /\ rules[i].enabled \in BOOLEAN
    /\ position \in 0..Len(file)
    /\ phase \in {"idle", "loading", "loaded", "stopped"}
    /\ status.disabled \in 0..(SizeMax - 1)

Init ==
    /\ implicit \in BOOLEAN
    /\ store = ClearedStore
    /\ resolver = StartedResolver(EmptyFunction)
    /\ network = NewNetwork
    /\ rules = <<>>
    /\ file = <<>> /\ position = 0
    /\ phase = "idle"
    /\ status = NoStatus
    /\ loads = 0 /\ store_loads = 0
    /\ reloaded = FALSE /\ failing = FALSE

(***************************************************************************)
(* add_rule builds the groups of a row one after the other.  A record      *)
(* holds all it may change; once an exception is thrown, nothing changes.  *)
(***************************************************************************)
NewBuild ==
    [network |-> network, resolver |-> resolver, failing |-> failing,
     groups |-> [kind \in CacheKind |-> {}], unresolved |-> {}, thrown |-> FALSE]

DictionaryOf(kind) ==
    CASE kind \in {"src", "dst"} -> "address"
      [] kind = "svc" -> "service"
      [] kind \in {"app", "app_svc"} -> "application"
      [] OTHER -> kind

GeneratorOf(kind) ==
    CASE kind \in {"src_zone", "dst_zone"} -> "zone"
      [] kind \in {"app", "app_svc"} -> "application"
      [] OTHER -> kind

ObjectsOf(kind) == store[DictionaryOf(kind)].objects
PoolsOf(kind) == store[DictionaryOf(kind)].pools

\* is_ip_address, is_protocol_port, is_url: such a name is never looked up.
\* Every name is a URL: the URLs and groups of URLs of the store are never used.
IsLiteral(kind, name) ==
    kind = "url" \/ (kind \in {"src", "dst", "svc"} /\ name \in Literals)

IsFqdn(kind, name) == name \in DOMAIN ObjectsOf(kind) /\ ObjectsOf(kind)[name].fqdn
HostOf(kind, name) == ObjectsOf(kind)[name].values[1]

\* AddressObjects::get: an fqdn object is resolved, `answers' being what the
\* system resolver says of each host.  `failing' only records a failure.
GetObject(b, kind, name, answers) ==
    IF ~IsFqdn(kind, name) THEN b
    ELSE LET host == HostOf(kind, name)
             asked == host \notin DOMAIN b.resolver.memory
         IN  [b EXCEPT !.resolver = Resolve(@, name, host, answers[host]),
                       !.failing = @ \/ (asked /\ IsFailure(answers[host]))]

\* The object get returns: it bears the name under which it is registered.
ObjectGiven(b, kind, name) ==
    IF IsFqdn(kind, name) THEN ResolvedObject(b.resolver, HostOf(kind, name))
    ELSE [name |-> name, addresses |-> Range(ObjectsOf(kind)[name].values)]

IsFound(b, kind, name) ==
    name \in DOMAIN ObjectsOf(kind) /\ ObjectGiven(b, kind, name).addresses # {}

\* The names for which get returns an object.
FoundObjects(b, kind, answers) ==
    {name \in DOMAIN ObjectsOf(kind) : IsFound(GetObject(b, kind, name, answers), kind, name)}

\* What is made of a name with an id; only an application has services.
NumberedValue(kind, id, services) ==
    IF kind \in {"app", "app_svc"} THEN ApplicationValue(id, services) ELSE id

\* register_application, register_user, register_url, register_*_zone: the id
\* is taken before the object is made.
RegisterNumbered(b, kind, name, services, gen, next) ==
    IF Overflows(gen, name)
    THEN [b EXCEPT !.network.gen[GeneratorOf(kind)] = next, !.thrown = TRUE]
    ELSE [b EXCEPT !.network = CacheObject([@ EXCEPT !.gen[GeneratorOf(kind)] = next], kind, name,
                                           {NumberedValue(kind, next.ids[name], services)})]

RegisterWithId(b, kind, name, services) ==
    LET gen == b.network.gen[GeneratorOf(kind)] IN
    IF name \in DOMAIN b.network.cache[kind].objects THEN b
    ELSE RegisterNumbered(b, kind, name, services, gen, GetId(gen, name))

\* resolve_app_services: a service that is no longer in the store is dropped.
ResolveAppServices(name) ==
    LET services == store["service"].objects IN
    UNION {IF service \in Literals THEN {service}
           ELSE IF service \in DOMAIN services THEN Range(services[service].values)
           ELSE {} : service \in Range(store["application"].objects[name].values)}

\* An object with several values is registered as a group.
IsMulti(kind, object) == kind \in {"src", "dst", "svc"} /\ Cardinality(object.addresses) > 1

RegisterObject(b, kind, object) ==
    CASE IsMulti(kind, object) ->
            [b EXCEPT !.network = CacheMulti(@, kind, object.name, object.addresses)]
      [] ~IsMulti(kind, object) /\ kind \in {"src", "dst", "svc"} ->
            [b EXCEPT !.network = CacheObject(@, kind, object.name, object.addresses)]
      [] kind \in {"app", "app_svc"} ->
            RegisterWithId(b, kind, object.name, ResolveAppServices(object.name))
      [] OTHER -> RegisterWithId(b, kind, object.name, {})

AddMembers(b, kind, values) == [b EXCEPT !.groups[kind] = @ \cup values]

\* The group gets what register_* returns, which may be older than what was
\* given to it.
AddCached(b, kind, part, name) ==
    IF b.thrown THEN b ELSE AddMembers(b, kind, b.network.cache[kind][part][name])

AddObject(b, kind, object) ==
    AddCached(RegisterObject(b, kind, object), kind,
              IF IsMulti(kind, object) THEN "groups" ELSE "objects", object.name)

AddLiteral(b, kind, name) ==
    AddCached(IF kind = "url" THEN RegisterWithId(b, kind, name, {})
              ELSE [b EXCEPT !.network = CacheObject(@, kind, name, {name})],
              kind, "objects", name)

AddUnresolved(b, kind, names) ==
    [b EXCEPT !.unresolved = @ \cup ({DictionaryOf(kind)} \X names)]

\* An unresolved name is only reported.
RegisterMember(b, kind, member) ==
    IF b.thrown \/ ~IsMember(member) THEN b
    ELSE IF member.type = "object" THEN RegisterObject(b, kind, ObjectGiven(b, kind, member.name))
    ELSE [b EXCEPT !.network = CacheGroup(@, kind, member.name, PoolsOf(kind)[member.name])]

\* What the resolver of pools asks for, until it notices a loop.
AskedFor(entries) ==
    LET loop == SelectInSeq(entries, LAMBDA entry : entry.type = "loop")
    IN  IF loop = 0 THEN entries ELSE SubSeq(entries, 1, loop - 1)

AskAll(b, kind, entries, answers) ==
    FoldLeft(LAMBDA acc, entry : GetObject(acc, kind, entry.name, answers), b, entries)

RegisterAll(b, kind, entries) ==
    FoldLeft(LAMBDA acc, member : RegisterMember(acc, kind, member), b, entries)

\* A pool: resolve all its members, register them in that order, then look up
\* the group of the pool.
AddPool(b, kind, name, entries, answers) ==
    LET asked == AskAll(b, kind, AskedFor(entries), answers) IN
    IF HasLoop(entries) THEN [asked EXCEPT !.thrown = TRUE]
    ELSE AddCached(RegisterAll(AddUnresolved(asked, kind, NamesOf(entries, "unresolved")),
                               kind, entries), kind, "groups", name)

\* A name that is not a literal, once the dictionary of objects has been asked.
AddLookedUp(b, kind, name, answers) ==
    CASE IsFound(b, kind, name) -> AddObject(b, kind, ObjectGiven(b, kind, name))
      [] ~IsFound(b, kind, name) /\ name \in DOMAIN PoolsOf(kind) ->
            AddPool(b, kind, name, Traversal(FoundObjects(b, kind, answers), PoolsOf(kind))[name], answers)
      [] OTHER -> AddUnresolved(b, kind, {name})

AddName(b, kind, name, answers) ==
    IF b.thrown THEN b
    ELSE IF IsLiteral(kind, name) THEN AddLiteral(b, kind, name)
    ELSE AddLookedUp(GetObject(b, kind, name, answers), kind, name, answers)

BuildGroup(b, kind, names, answers) ==
    FoldLeft(LAMBDA acc, name : AddName(acc, kind, name, answers), b, names)

(***************************************************************************)
(* The groups of a row.                                                    *)
(***************************************************************************)
DefaultAppServices(row) == row.svc = AppDefault
AppKind(row) == IF DefaultAppServices(row) THEN "app_svc" ELSE "app"

BuildSrcAddressGroup(b, row, answers) == BuildGroup(b, "src", row.src, answers)
BuildDstAddressGroup(b, row, answers) == BuildGroup(b, "dst", row.dst, answers)
BuildApplicationGroup(b, row, answers) == BuildGroup(b, AppKind(row), row.app, answers)

\* ApplicationGroup::default_services, or the services of the row.
BuildServiceGroup(b, row, answers) ==
    IF DefaultAppServices(row)
    THEN AddMembers(b, "svc", UNION {app.services : app \in b.groups["app_svc"]})
    ELSE BuildGroup(b, "svc", row.svc, answers)

\* A zone needs no object: the name is enough.
AddZone(b, kind, name) ==
    IF b.thrown THEN b
    ELSE AddCached(RegisterWithId(b, kind, name, {}), kind, "objects", name)

BuildZoneGroup(b, kind, names) ==
    FoldLeft(LAMBDA acc, name : AddZone(acc, kind, name), b, names)

BuildSrcZoneGroup(b, row) == BuildZoneGroup(b, "src_zone", row.src_zone)
BuildDstZoneGroup(b, row) == BuildZoneGroup(b, "dst_zone", row.dst_zone)
BuildUserGroup(b, row, answers) == BuildGroup(b, "user", row.user, answers)
BuildUrlGroup(b, row, answers) == BuildGroup(b, "url", row.url, answers)

\* The order of the calls in add_rule.
BuildGroups(row, answers) ==
    LET b1 == BuildSrcAddressGroup(NewBuild, row, answers)
        b2 == BuildDstAddressGroup(b1, row, answers)
        b3 == BuildApplicationGroup(b2, row, answers)
        b4 == BuildServiceGroup(b3, row, answers)
        b5 == BuildDstZoneGroup(BuildSrcZoneGroup(b4, row), row)
    IN  BuildUrlGroup(BuildUserGroup(b5, row, answers), row, answers)

RuleOf(row, groups) ==
    [id |-> row.id, enabled |-> row.status = "enabled", action |-> row.action,
     fields |-> [field \in RowField |-> IF field = "app" THEN groups[AppKind(row)] ELSE groups[field]]]

DenyAllRule ==
    [id |-> 0, enabled |-> TRUE, action |-> "deny",
     fields |-> [field \in RowField |-> {AnyValue(field)}]]

HasAction(row) == row.action \in {"allow", "deny"}
HasStatus(row) == row.status \in {"enabled", "disabled"}

\* Variant with a mistake: only the last rule is looked at.
BugIsDuplicate(row) == rules # <<>> /\ Last(rules).id = row.id

IsDuplicate(row) == \E i \in DOMAIN rules : rules[i].id = row.id

(***************************************************************************)
(* The store.                                                              *)
(***************************************************************************)
ChangeStore(changed) ==
    /\ phase # "loading" /\ store_loads < MaxStoreLoads
    /\ store' = changed
    /\ store_loads' = store_loads + 1
    /\ reloaded' = (reloaded \/ loads > 0)
    /\ UNCHANGED <<implicit, resolver, network, rules, file, position, phase, status, loads, failing>>

\* ObjectStore::load_addresses, load_address_pools, and so on, one after the other.
LoadKind(kind, read) ==
    LoadPools(LoadObjects(store, kind, read.objects), kind, read.pools)[kind]

LoadStore == \E files \in StoreFiles :
    ChangeStore([kind \in ObjectKind |->
                   IF kind \in DOMAIN files THEN LoadKind(kind, files[kind]) ELSE store[kind]])

ClearStore == ChangeStore(ClearedStore)

(***************************************************************************)
(* The loop over the rows.                                                 *)
(***************************************************************************)
InLoop == phase = "loading"
Rest == UNCHANGED <<implicit, store, store_loads, reloaded, file, loads>>

\* The firewall is emptied before the file is opened.
StartLoad ==
    /\ phase # "loading" /\ loads < MaxLoads
    /\ file' \in Policies
    /\ rules' = <<>>
    /\ position' = 0
    /\ phase' = "loading"
    /\ status' = NoStatus
    /\ loads' = loads + 1
    /\ UNCHANGED <<implicit, store, resolver, network, store_loads, reloaded, failing>>

AnotherRow == position < Len(file) /\ file[position + 1].readable
Row == file[position + 1]

\* Variant with a mistake: a row refused at once is not counted.
BugRefuseRow ==
    /\ InLoop /\ AnotherRow
    /\ ~HasAction(Row) \/ ~HasStatus(Row)
    /\ position' = position + 1
    /\ UNCHANGED <<status, resolver, network, rules, phase, failing>> /\ Rest

\* add_rule gives up before anything is registered.
RefuseRow ==
    /\ InLoop /\ AnotherRow
    /\ ~HasAction(Row) \/ ~HasStatus(Row)
    /\ position' = position + 1
    /\ status' = [status EXCEPT !.errors = @ + 1]
    /\ UNCHANGED <<resolver, network, rules, phase, failing>> /\ Rest

\* Every group must have a member.  A duplicated id refuses the row, but its
\* objects are registered all the same.
IsValid(rule) == ~IsDuplicate(rule) /\ \A field \in RowField : rule.fields[field] # {}

AddRule(rule, unresolved) ==
    /\ rules' = IF IsValid(rule) THEN Append(rules, rule) ELSE rules
    /\ status' = [status EXCEPT !.loaded = IF IsValid(rule) THEN @ + 1 ELSE @,
                                !.errors = IF IsValid(rule) THEN @ ELSE @ + 1,
                                !.unresolved = @ \cup unresolved]
    /\ position' = position + 1
    /\ UNCHANGED phase

AddRow ==
    /\ InLoop /\ AnotherRow
    /\ HasAction(Row) /\ HasStatus(Row)
    /\ \E answers \in [Hosts -> Answers] : \E built \in {BuildGroups(Row, answers)} :
          /\ network' = built.network
          /\ resolver' = built.resolver
          /\ failing' = built.failing
          /\ IF built.thrown
             THEN phase' = "stopped" /\ UNCHANGED <<rules, position, status>>
             ELSE AddRule(RuleOf(Row, built.groups), built.unresolved)
    /\ Rest

Enabled(list) == {i \in DOMAIN list : list[i].enabled}

\* The end of the file, or a row that is not readable: both end the loop.
EndLoad ==
    /\ InLoop /\ ~AnotherRow
    /\ rules' = IF implicit THEN Append(rules, DenyAllRule) ELSE rules
    /\ status' = [status EXCEPT !.disabled = (status.loaded - Cardinality(Enabled(rules'))) % SizeMax]
    /\ phase' = "loaded"
    /\ UNCHANGED <<resolver, network, position, failing>> /\ Rest

\* Ctrl+C is seen before a row is read, and throws.
Interrupt ==
    /\ InLoop
    /\ phase' = "stopped"
    /\ UNCHANGED <<resolver, network, rules, position, status, failing>> /\ Rest

\* The process ends, at any moment, and is started again.
Restart ==
    /\ store' = ClearedStore
    /\ resolver' = StartedResolver(resolver.file)
    /\ network' = NewNetwork
    /\ rules' = <<>>
    /\ file' = <<>> /\ position' = 0
    /\ phase' = "idle"
    /\ status' = NoStatus
    /\ loads' = 0 /\ store_loads' = 0
    /\ reloaded' = FALSE /\ failing' = FALSE
    /\ UNCHANGED implicit

Next ==
    \/ LoadStore
    \/ ClearStore
    \/ StartLoad
    \/ RefuseRow
    \/ AddRow
    \/ EndLoad
    \/ Interrupt
    \/ Restart

Spec == Init /\ [][Next]_vars
=============================================================================
