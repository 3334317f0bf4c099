----------------------------- MODULE Predicates -----------------------------
(***************************************************************************)
(* The predicate of a rule and the diagrams made from it: which packets a  *)
(* rule matches, its symmetrical predicate, its copies, and the diagram    *)
(* restricted to some header fields that the packet test works on.         *)
(*                                                                         *)
(* A group of zones, addresses, services or users is the set of values its *)
(* members and their subgroups stand for; "any" is the full set.  Users    *)
(* and urls are treated alike by every definition below, and one field     *)
(* stands for both.                                                        *)
(***************************************************************************)
EXTENDS Naturals, Sequences

CONSTANTS Zone, Address, Service, Application, User,
          AnyApplication,   \* the application node that matches everything
          DefaultServices   \* the services an application is known to use

ASSUME DefaultServicesAssumption ==
    /\ AnyApplication \notin Application
    /\ DefaultServices \in [Application -> SUBSET Service]

\* One value for every header field: the assignments of the domains.
Packet == [src_zone : Zone, src_address : Address, dst_zone : Zone, dst_address : Address,
           service : Service, application : Application, user : User]

INSTANCE PolicyModel

\* `app_services': the service group is the one built for "app-default".
\* `use_app_svc': the application nodes carry their default services.
Predicate == [src_zones : SUBSET Zone, src_addresses : SUBSET Address, negate_src : BOOLEAN,
              dst_zones : SUBSET Zone, dst_addresses : SUBSET Address, negate_dst : BOOLEAN,
              services : SUBSET Service, app_services : BOOLEAN,
              applications : SUBSET (Application \cup {AnyApplication}), use_app_svc : BOOLEAN,
              users : SUBSET User]

ApplicationMatches(node, use_app_svc, p) ==
    \/ node = AnyApplication
    \/ p.application = node /\ (use_app_svc => p.service \in DefaultServices[node])

\* ApplicationGroup::default_services.  The services of the "any" application
\* are any.
ServicesOf(applications) ==
    {s \in Service :
        AnyApplication \in applications \/ \E a \in applications \ {AnyApplication} : s \in DefaultServices[a]}

\* A rule loaded with "app-default" services has both flags and the services
\* of its applications; a copy of it keeps all but the type of the group.
WellFormed(pred) ==
    /\ pred.src_zones # {} /\ pred.dst_zones # {}
    /\ pred.src_addresses # {} /\ pred.dst_addresses # {}
    /\ pred.services # {} /\ pred.applications # {} /\ pred.users # {}
    /\ pred.app_services => pred.use_app_svc
    /\ pred.use_app_svc => pred.services = ServicesOf(pred.applications)

AddressesMatch(pred, p) ==
    /\ (p.src_address \in pred.src_addresses) # pred.negate_src
    /\ (p.dst_address \in pred.dst_addresses) # pred.negate_dst

\* Predicate::make_bdd().
MakeBdd(pred) ==
    {p \in Packet :
        /\ p.src_zone \in pred.src_zones /\ p.dst_zone \in pred.dst_zones
        /\ AddressesMatch(pred, p)
        /\ ~pred.app_services => p.service \in pred.services
        /\ \E node \in pred.applications : ApplicationMatches(node, pred.use_app_svc, p)
        /\ p.user \in pred.users}

BddOption == {"SourceZone", "DestinationZone", "Application", "User"}

BugMakeBddWithIgnoresDefaults(pred, options) ==
    {p \in Packet :
        /\ AddressesMatch(pred, p)
        /\ "SourceZone" \in options => p.src_zone \in pred.src_zones
        /\ "DestinationZone" \in options => p.dst_zone \in pred.dst_zones
        /\ ~pred.app_services => p.service \in pred.services
        /\ "Application" \in options =>
              \E node \in pred.applications : ApplicationMatches(node, pred.use_app_svc, p)
        /\ "User" \in options => p.user \in pred.users}

\* Predicate::make_bdd(options): the fields that are not asked for match
\* anything.  Without the applications, their default services remain.
MakeBddWith(pred, options) ==
    {p \in Packet :
        /\ AddressesMatch(pred, p)
        /\ "SourceZone" \in options => p.src_zone \in pred.src_zones
        /\ "DestinationZone" \in options => p.dst_zone \in pred.dst_zones
        /\ IF "Application" \in options
           THEN /\ ~pred.app_services => p.service \in pred.services
                /\ \E node \in pred.applications : ApplicationMatches(node, pred.use_app_svc, p)
           ELSE p.service \in IF pred.app_services THEN ServicesOf(pred.applications)
                                                   ELSE pred.services
        /\ "User" \in options => p.user \in pred.users}

\* The copy constructor: cloning a group of default services gives a plain
\* ServiceGroup with the same members.
Copy(pred) == [pred EXCEPT !.app_services = FALSE]

BugSymmetricalKeepsZones(pred) ==
    [Copy(pred) EXCEPT !.src_addresses = pred.dst_addresses, !.dst_addresses = pred.src_addresses]

\* Predicate::symmetrical: sources and destinations are exchanged, the negate
\* flags stay on their side, the other groups are clones.
Symmetrical(pred) ==
    [Copy(pred) EXCEPT !.src_zones = pred.dst_zones, !.dst_zones = pred.src_zones,
                       !.src_addresses = pred.dst_addresses,
                       !.dst_addresses = pred.src_addresses]

-----------------------------------------------------------------------------
\* Reference: the answer to a packet travels the other way, to the same service.
Reverse(p) ==
    [p EXCEPT !.src_zone = p.dst_zone, !.dst_zone = p.src_zone,
              !.src_address = p.dst_address, !.dst_address = p.src_address]

\* Reference: what is seen of a packet when only some fields are looked at,
\* and the packets that look like one of a diagram then.
View(p, fields) == [field \in fields |-> p[field]]

Blurred(bdd, fields) ==
    LET views == {View(q, fields) : q \in bdd}
    IN  {p \in Packet : View(p, fields) \in views}
=============================================================================
