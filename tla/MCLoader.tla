------------------------------ MODULE MCLoader ------------------------------
(***************************************************************************)
(* Policies of at most two rows (a third one after a row that repeats an   *)
(* id), loaded twice in a session with a store that may change in between, *)
(* a host that can be unknown, unreachable or of the wrong family, and     *)
(* restarts at any moment.                                                 *)
(***************************************************************************)
EXTENDS LoaderCorrectness

MCHosts == {"host"}
MCUsable == {"h1"}
MCHostAddress == {"h1", "v6"}
MCAnswers == {Found({"h1", "v6"}), Found({}), Failure}
MCLiterals == {"10.0.0.1", "tcp/80"}

\* A row that is about "any" everywhere, but for the fields given.
AnyRow(id) ==
    [id |-> id, readable |-> TRUE, status |-> "enabled", action |-> "allow",
     src |-> <<"any">>, dst |-> <<"any">>, svc |-> <<"any">>, app |-> <<"any">>,
     user |-> <<"any">>, url |-> <<"any">>, src_zone |-> <<"any">>, dst_zone |-> <<"any">>]

PoolRow == [AnyRow(1) EXCEPT !.src = <<"site", "net">>, !.dst = <<"pool">>]
ObjectRow == [AnyRow(2) EXCEPT !.src = <<"net", "nowhere">>, !.dst = <<"10.0.0.1">>,
                               !.status = "disabled"]
UnknownRow == [AnyRow(1) EXCEPT !.src = <<"nowhere">>]
AppRow == [AnyRow(3) EXCEPT !.svc = AppDefault, !.app = <<"apps">>, !.user = <<"staff">>,
                            !.url = <<"www.x.y">>]
ZoneRow == [AnyRow(1) EXCEPT !.src_zone = <<"lan", "wan">>, !.dst_zone = <<"wan">>,
                             !.svc = <<"web">>, !.app = <<"http">>]
ManyZonesRow == [AnyRow(2) EXCEPT !.src_zone = <<"wan", "dmz", "lan">>]
RingRow == [AnyRow(2) EXCEPT !.dst = <<"net", "ring">>]
WrongRow == [AnyRow(2) EXCEPT !.action = "permit"]
UnreadableRow == [AnyRow(1) EXCEPT !.readable = FALSE]

MCPolicies ==
    {<<PoolRow, AppRow, ZoneRow>>,          \* the last row repeats an id
     <<ZoneRow, ManyZonesRow>>,             \* more zones than ids
     <<ObjectRow, PoolRow>>,                \* one object of a row is unknown
     <<UnknownRow, PoolRow, UnreadableRow, ObjectRow>>,
     <<WrongRow, PoolRow, RingRow>>}        \* the exception of a loop

\* The files of a store.
NoPools == EmptyFunction
FirstStore ==
    "address" :>
       [objects |-> "net" :> Object(<<"a1">>) @@ "site" :> FqdnObject("host"),
        pools |-> "pool" :> <<"inner", "net", "inner">> @@ "inner" :> <<"site">> @@ "ring" :> <<"ring">>]
    @@ "service" :>
       [objects |-> "web" :> Object(<<"tcp/80", "tcp/443">>), pools |-> NoPools]
    @@ "application" :>
       [objects |-> "http" :> Object(<<"tcp/80">>) @@ "https" :> Object(<<"web">>),
        pools |-> "apps" :> <<"http", "https">>]
    @@ "user" :>
       [objects |-> Dictionary({"ann", "bob"}, <<>>), pools |-> "staff" :> <<"ann", "bob">>]

\* A second name for the host, an address in a pool, and an object "any".
AliasedAddresses ==
    "address" :> [objects |-> "alias" :> FqdnObject("host"), pools |-> "inner" :> <<"alias">>]
LiteralAddresses ==
    "address" :> [objects |-> EmptyFunction, pools |-> "inner" :> <<"site", "10.0.0.1">>]
RedefinedAddresses ==
    "address" :> [objects |-> "net" :> Object(<<"a2", "a1">>), pools |-> NoPools]
AnyAddresses ==
    "address" :> [objects |-> "any" :> Object(<<"a1">>), pools |-> NoPools]

MCStoreFiles == {FirstStore, AliasedAddresses, LiteralAddresses, RedefinedAddresses, AnyAddresses}
=============================================================================
