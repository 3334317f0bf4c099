--------------------------- MODULE NetworkRegistry ---------------------------
(***************************************************************************)
(* The caches of the network.  Every zone, address, service, application,  *)
(* user or URL of a rule is an object of a cache, created the first time   *)
(* its name is registered and shared by all rules of all firewalls from    *)
(* then on.  Nothing is ever removed from a cache or changed in it.        *)
(*                                                                         *)
(* Constant level: a network is a record.  An object or a group is the set *)
(* of the values it stands for; since members are added to a group only    *)
(* while it is registered, that set is fixed at that time.                 *)
(***************************************************************************)
EXTENDS FqdnResolver

CONSTANT MaxId      \* the upper bound of the id generators (Domain::max)

ASSUME MaxIdAssumption == MaxId \in Nat \ {0}

\* The caches.  There are two of applications: with "app-default" services
\* (use_app_svc) and without.
CacheKind == {"src", "dst", "svc", "app", "app_svc", "user", "url", "src_zone", "dst_zone"}
Generator == {"zone", "application", "user", "url"}

\* A zone, a user or a URL is its id; an application has default services too.
ApplicationValue(id, services) == [id |-> id, services |-> services]
AnyId == 0
AnyValue(kind) ==
    CASE kind \in {"src", "dst", "svc"} -> "any"
      [] kind \in {"app", "app_svc"} -> ApplicationValue(AnyId, {"any"})
      [] OTHER -> AnyId

NewCache(kind) == [objects |-> Put(EmptyFunction, "any", {AnyValue(kind)}), groups |-> EmptyFunction]
NewGenerator == [next |-> 1, ids |-> EmptyFunction]

\* Network::Network
NewNetwork ==
    [cache |-> [kind \in CacheKind |-> NewCache(kind)],
     gen |-> [kind \in Generator |-> NewGenerator]]

(***************************************************************************)
(* IdGenerator::get_id.  The last value is refused, and an id is used up   *)
(* even if it is refused.                                                  *)
(***************************************************************************)
HasId(gen, name) == name \in DOMAIN gen.ids
Overflows(gen, name) == ~HasId(gen, name) /\ gen.next >= MaxId

\* Variant with a mistake: the id is not used up.
BugGetId(gen, name) ==
    IF HasId(gen, name) THEN gen
    ELSE [next |-> gen.next, ids |-> Put(gen.ids, name, gen.next)]

GetId(gen, name) ==
    IF HasId(gen, name) THEN gen
    ELSE [next |-> gen.next + 1,
          ids |-> IF Overflows(gen, name) THEN gen.ids ELSE Put(gen.ids, name, gen.next)]

(***************************************************************************)
(* register_*: the cached object of that name, or a new one.               *)
(***************************************************************************)
CacheObject(nw, kind, name, values) ==
    IF name \in DOMAIN nw.cache[kind].objects THEN nw
    ELSE [nw EXCEPT !.cache[kind].objects = Put(@, name, values)]

\* A multi-address (or multi-service) object is a group of its values.
CacheMulti(nw, kind, name, values) ==
    IF name \in DOMAIN nw.cache[kind].groups THEN nw
    ELSE [nw EXCEPT !.cache[kind].groups = Put(@, name, values)]

\* Members are looked up among the objects, then among the groups; "ignore
\* missing member".
MemberValues(cache, member) ==
    CASE member \in DOMAIN cache.objects -> cache.objects[member]
      [] member \in DOMAIN cache.groups \ DOMAIN cache.objects -> cache.groups[member]
      [] OTHER -> {}

CacheGroup(nw, kind, name, members) ==
    IF name \in DOMAIN nw.cache[kind].groups THEN nw
    ELSE [nw EXCEPT !.cache[kind].groups =
            Put(@, name, UNION {MemberValues(nw.cache[kind], m) : m \in Range(members)})]
=============================================================================
