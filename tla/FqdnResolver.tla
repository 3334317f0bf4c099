---------------------------- MODULE FqdnResolver ----------------------------
(***************************************************************************)
(* FqdnResolver: host names of fqdn objects are looked up once and kept in *)
(* two caches.  _memory_cache holds what a lookup or the cache file gave,  *)
(* the empty set for a name that does not exist; _filtered_memory_cache    *)
(* holds the addresses of the right family, as an object that bears the    *)
(* name of the first fqdn object that asked.                               *)
(*                                                                         *)
(* Constant level: a resolver is a record, what the system resolver would  *)
(* answer is a parameter.  A host name that fails for another reason than  *)
(* "no such name" is in no cache.                                          *)
(***************************************************************************)
EXTENDS ObjectStore

CONSTANTS
    Hosts,          \* the host names of the fqdn objects
    HostAddress,    \* the addresses of the hosts
    UsableAddress,  \* those of the family of the model
    Answers         \* what the system resolver may answer

\* getaddrinfo: no address for EAI_NONAME; a failure is any other error.
Found(addresses) == [failed |-> FALSE, found |-> addresses]
Failure == [failed |-> TRUE, found |-> {}]
IsFailure(answer) == answer.failed

ASSUME AnswersAssumption ==
    /\ UsableAddress \subseteq HostAddress
    /\ Answers \subseteq {Found(addresses) : addresses \in SUBSET HostAddress} \cup {Failure}

FilteredEntry == [name : STRING, addresses : SUBSET UsableAddress]

\* initialize, with the cache file: the hosts written by earlier sessions.
StartedResolver(file) == [memory |-> file, filtered |-> EmptyFunction, file |-> file]

\* Variants with a mistake: a host that is known is looked up again; addresses
\* of all families are kept.
BugRecordAnswer(resolver, host, answer) ==
    IF IsFailure(answer) THEN resolver
    ELSE [resolver EXCEPT
            !.memory = Put(@, host, answer.found),
            !.file = IF answer.found = {} THEN @ ELSE Put(@, host, answer.found)]

BugFilterAnswer(resolver, name, host) ==
    IF host \in DOMAIN resolver.filtered \/ host \notin DOMAIN resolver.memory THEN resolver
    ELSE [resolver EXCEPT !.filtered =
            Put(@, host, [name |-> name, addresses |-> resolver.memory[host]])]

\* resolve_hostname and the two caches: a positive answer is also appended to
\* the file, and flushed.
RecordAnswer(resolver, host, answer) ==
    IF host \in DOMAIN resolver.memory \/ IsFailure(answer) THEN resolver
    ELSE [resolver EXCEPT
            !.memory = Put(@, host, answer.found),
            !.file = IF answer.found = {} THEN @ ELSE Put(@, host, answer.found)]

FilterAnswer(resolver, name, host) ==
    IF host \in DOMAIN resolver.filtered \/ host \notin DOMAIN resolver.memory THEN resolver
    ELSE [resolver EXCEPT !.filtered =
            Put(@, host, [name |-> name, addresses |-> resolver.memory[host] \cap UsableAddress])]

\* The resolver after FqdnResolver::resolve of the object `name' of `host'.
Resolve(resolver, name, host, answer) ==
    FilterAnswer(RecordAnswer(resolver, host, answer), name, host)

\* What it returns: nullptr, here no address, if the host is not resolved.
ResolvedObject(resolver, host) ==
    IF host \in DOMAIN resolver.filtered THEN resolver.filtered[host]
    ELSE [name |-> host, addresses |-> {}]
=============================================================================
