# Verification of RulesAnalyzer

RulesAnalyzer reads the access control lists of firewalls, represents the
meaning of every rule by a binary decision diagram (BDD), and answers questions
about the lists: which rules are shadowed, redundant or in conflict, which are
symmetrical, whether two lists are equivalent, and what happens to a packet.
This directory holds TLA+ modules that model these analyses, TLC configurations
that check them on small instances, and TLAPS proofs of the results that hold for
every set of packets and every list.

The first two sections are the inventory and the plan; the others say how
the modules correspond to the code, what the runs check, what is proved, and what
is left out.

## 1. Inventory

The program is a single-threaded command interpreter. The only concurrency is
the SIGINT handler, which sets a flag that long commands poll. State is kept in
objects that outlive a command (the network with its caches, the loaded firewalls, the
object store, the resolver cache), so that the order of commands matters.

| Component | State | Operations | Interacts with |
|---|---|---|---|
| Model nodes (`mnode.*`) | a diagram | comparisons, `negate_if` | BuDDy |
| Rules, rule lists (`rule.*`, `rulelist.*`) | id, action, status, predicate | `is_deny_all`, `filter_before`, display filters | predicates, analyses |
| Predicates, groups (`predicate.*`, `group.h`, `zone.*`, `address.*`, `service.*`, `application.*`, ...) | groups of nodes, negate flags | `make_bdd`, copy, `symmetrical` | domains |
| Anomaly analysis (`analyzer.*`, `state.*`, `anomaly.*`) | A, D, R, a diagram cache, the anomalies | `check_anomaly` | rule lists, interrupt callback |
| Symmetry analysis (`analyzer.*`) | two iterators, a diagram cache, pairs | `check_symmetry` | predicates, interrupt callback |
| Policy comparison (`comparator.*`) | two diagrams per list | `compute_bdd`, `compare` | rule lists |
| Packet test (`packettester.*`) | position in the list | `is_packet_allowed` | predicates |
| Domains, values, ranges (`domain*.cpp`, `mvalue.*`, `*range*`, `ports.*`, `protocol.*`) | BDD variables of the header fields | diagram of a range | BuDDy |
| Network registry (`network.*`, `cache.h`, `idgen.*`) | caches of objects by name, id generators | `register_*` | object store, loader |
| Firewalls (`firewall.*`) | rules, rules by id | `add_rule`, `clear`, `acl`, copy | network |
| Object store (`objectstore.*`, `objectdictionary.h`, `genericresolver.h`) | dictionaries of objects and pools | load, clear, resolve nested pools | parsers, resolver |
| FQDN resolver (`fqdnresolver.*`) | two caches by host name, cache file | `resolve`, load | the system resolver, the disk |
| Policy loader (`firewallfactory.*`, `policyreader.*`) | the status report of a load | `load_rules`, `add_rule` | object store, network, firewall |
| Session (`cli*.cpp`, `clicontext.*`, `clictrlchandler.*`) | firewalls by name, the current one, open scripts, interrupt flag | create, copy, delete, select, load, check, enable or disable a rule, scripts | everything |
| Value parsers, tables, CSV, logging, configuration | — | text conversions | — |
| Vendored code (`src/dep`, `cpptoml.h`) | — | BuDDy, fmt, linenoise, googletest, cpptoml | — |

What makes each of them correct, and what is hard about it:

* **Anomaly analysis.** A, D and R are updated incrementally over the whole
  list, and each rule is classified against them. A mistake in an update shows
  many rules later and only on packets that several rules fight for. Correct means:
  the state is first-match evaluation of the walked prefix; the rules called fully
  masked are exactly the rules that decide nothing; conflicts are never silent; the
  rules an anomaly names account for what its message says; the deny-all warning
  is exact; a Ctrl+C leaves no partial report.
* **Symmetry analysis.** Each unordered pair is compared in one direction only,
  with a cached diagram of a *derived* predicate (`symmetrical`), built by
  copying field by field. Correct means: exactly the pairs that match the two
  directions of the same connections, and the loops end.
* **Policy comparison.** `compute_bdd` keeps no set of remaining packets. It skips disabled rules, of which its
  callers give it none (`Firewall::acl`). Correct means: its two diagrams are first-match evaluation, and
  the relation shown is the true, directional, one.
* **Packet test.** A test can be about many packets and leave fields out; the
  diagrams then leave these fields out too. Correct means: for one packet the answer is
  first-match evaluation, and leaving a field out of the diagram is the same
  as not looking at it.
* **Domains and ranges.** Numbers of fixed width: a sum that wraps around, a full range
  whose size overflows, a size that is a power of two. Correct means: a text stands for the
  addresses it says or is refused, and what is displayed can be typed back.
* **Network registry.** Objects are shared by all rules of all firewalls, created by the first
  row that names them and never changed. Correct means: an id stands for one name, up to the end
  of the generator, and it does not matter to a rule which row registered its objects.
* **Object store.** Pools contain pools, possibly in a loop. Correct means: the traversal
  ends, finds what is reached and nothing else, members before their pool, and refuses
  loops and only loops.
* **Policy loader.** A row can be refused, be unreadable, throw, or lose some of its
  objects. Correct means: the firewall holds the acceptable rows, in order, with the meaning
  of their names, whatever other rows, earlier loads and interrupts leave behind; and the report
  counts them.
* **FQDN resolver.** Positive and negative answers are cached in memory, positive ones on disk,
  failures not at all. Correct means: a host keeps the addresses it was given first, across
  restarts too.
* **Session.** The current firewall is a pointer beside the network that owns it; a load
  empties the firewall first; a failure or Ctrl+C abandons all open scripts; the flag of Ctrl+C outlives
  the command it was meant for. Correct means: the pointer never dangles, a Ctrl+C is for the
  command it is typed in, only the active policy changes, and the prompt comes back.

`PROJECT.json` lists these hazards line by line, with the properties that cover
them or the reason why none does.

## 2. Plan

In order of importance; everything in the list exists but what is said to be next.

1. `PolicyModel` — packets, diagrams as sets of packets, rules, and first-match
   evaluation, the reference of everything else.
2. `AnomalyAnalyzer`, `PacketVerdicts` (abstract: the same walk one packet at a
   time), `AnomalyCorrectness` (properties, refinement), `AnomalyProofs`.
3. `PolicyComparator`, `ComparatorProofs`.
4. `Predicates` — predicates field by field; `SymmetryAnalyzer` and `PacketTest`
   are composed with it; `SymmetryProofs`, `PacketTestProofs`.
5. `ObjectStore`, `FqdnResolver`, `NetworkRegistry` — what the loader works with, as operators on
   records; `PolicyLoader` composes the three; `LoaderCorrectness` says what a loaded policy
   must be, without any cache; `LoaderProofs`. `PoolResolver` is the loop behind one of the operators of `ObjectStore`, and
   is proved to compute it; `PoolProofs`.
6. `CliSession` with `NamedPolicies` (abstract: policies under names), `CliProofs`.
7. `AddressRanges`, `RangeProofs`.

Every safety property a passing run checks is proved; what is left to the runs is liveness (section 6).

## 3. The modules and the code

| Module | Code | State and actions |
|---|---|---|
| `PolicyModel` | `mnode.h/.cpp`, `rule.cpp`, `rulelist.cpp` | constant level: node comparisons, `IsDenyAll`; the reference `FirstMatch`, `Decided`, `Unmatched`, `Effective` |
| `AnomalyAnalyzer` | `analyzer.cpp`, `state.cpp`, `anomaly.cpp` | `A`, `D`, `R`, `cache`, `anomalies`, `index`. `StepRule` is one whole iteration of `check_anomaly`: cache the diagram, classify, `State::update`. `Abort` is the iteration that sees the interrupt flag, `Finish` the end of the loop, `CtrlC` the signal handler |
| `PacketVerdicts` | — (abstract) | a verdict per packet, the set of useless rules: `Walk`, `Conclude`, `GiveUp` |
| `AnomalyCorrectness` | — (properties) | properties of `AnomalyAnalyzer`, its refinement mapping |
| `PolicyComparator` | `comparator.h/.cpp` | `allowed`, `denied` are the locals of `compute_bdd`. `StepRule` is one iteration, `Return` the return of a call, `CompareBdds` the construction of the result |
| `Predicates` | `predicate.cpp`, `group.h`, the node types | constant level: `MakeBdd`, `MakeBddWith` (with options), `Copy`, `Symmetrical` |
| `SymmetryAnalyzer` | `analyzer.cpp`, `check_symmetry` | `outer`, `inner`, `cache`, `symmetrical_rules`. `ComparePair` is one iteration of the inner loop, `NextRule` one of the outer loop |
| `PacketTest` | `packettester.cpp` | `index`, `answer`. `NextRule` passes over a rule, `ReturnRule` and `ReturnDenied` are the two returns |
| `ObjectStore` | `objectstore.cpp`, `objectdictionary.h`, `genericresolver.h` | constant level: a store is a record of dictionaries, to which entries are put; `LoadObjects`, `LoadPools`, `ClearedStore`, and `Traversal`, the resolver of pools as one recursive function |
| `PoolResolver` | `genericresolver.h`, `resolve` | `chain`, `visited`, `expanded`, `unresolved` are its locals; an action is one iteration of the `while` loop: `TakeObject`, `EnterPool`, `DetectLoop` (the exception), `SkipUnknown`, `LeavePool`, and `Return` |
| `FqdnResolver` | `fqdnresolver.cpp` | constant level: a resolver is a record of the two caches and the file; `Resolve` is one call, `StartedResolver` a new process |
| `NetworkRegistry` | `network.cpp`, `idgen.cpp` | constant level: a network is a record of caches and generators; `CacheObject`, `CacheMulti`, `CacheGroup`, `GetId` |
| `PolicyLoader` | `firewallfactory.cpp`, `policyreader.cpp`, `addressobjects.cpp` | `store`, `resolver`, `network`, `rules`, `status`. `AddRow` and `RefuseRow` are one whole iteration of `load_rules`: every group of the row, in the order of `add_rule`. `EndLoad` ends the loop, `Interrupt` is the poll before a row, `LoadStore` and `ClearStore` are the commands of the store, `Restart` is a process that dies and starts again |
| `LoaderCorrectness` | — (properties) | the meaning of a row in terms of the store and the known hosts |
| `NamedPolicies` | — (abstract) | policies under names, the active one: `Create`, `Copy`, `Delete`, `Select`, `Clear`, `Grow`, `SetStatus` |
| `CliSession` | `cli.cpp`, `clictrlchandler.cpp`, `clicontext.cpp`, `clifwload.cpp`, `clifwcheck.cpp`, `clifwoption.cpp` | `firewalls`, `rules` (by address), `current`, the stack `scripts`, the guard and the flag. `TypeLine`, `ReadScript`, `EndScript` read lines; `Enable` is the second half of the constructor of the guard, since Ctrl+C can arrive between its two assignments; then one action per command, a load and a check taking one step per poll of the flag |
| `AddressRanges` | `ipv4parser.cpp`, `ipv6parser.cpp`, `serviceparser.cpp`, `rangeimpl.h`, `mvalue.cpp`, `ipv4range.cpp` | a text, the range it is read as, the text displayed: `Read`, `Display` |

`MC*` modules give the constants for TLC. Definitions named `Bug...` are not part of
the model: each stands before the definition it is a wrong variant of and is used to
show that a property notices such a mistake.

What is abstracted:

* A diagram is the set of packets it accepts. BuDDy diagrams are canonical, so
  equality of diagrams is equality of these sets, and `& | - !` are the set
  operations. A packet is one assignment of the header variables of the
  domains.
* In `AnomalyAnalyzer` and `PolicyComparator` a rule's predicate is its
  diagram, an arbitrary set of packets: every predicate the program can build is
  covered, whatever the fields. `Predicates` opens the predicate for the two analyses
  that look inside.
* A group is the set of values its members stand for. Members are added to a group only while it is
  registered, so the set is fixed at that time. In `Predicates`, users and URLs are treated alike by the code and are one field.
* A pointer to a rule is its position in the list. Messages, tables and logging are left out;
  the class, scope and named rules of an anomaly are kept.
* The options that switch off applications, users or URLs for a whole session (`ModelOptions`) are taken as
  their default (everything on).
* In `PolicyLoader` a name is a string, an address or a port a value that is only compared. One family of
  addresses; the resolver and its cache enabled. Host names of one row get one answer each from the
  system. `readable` is the outcome of the checks of `PolicyReader::next_row`. Negate flags and rule names pass through
  untouched and are left out. The order and the repetition of unresolved names in the report are
  left out: they are a set.
* In `CliSession` a file of rules is a sequence of rows that are all accepted; what a row becomes is the
  business of `PolicyLoader`. A check looks at the rules one by one, then prints a result that is left out, but not the polls
  of Ctrl+C while it is printed (`PrintsTable`). A table has any number of lines, and there may be none: `EndCheck`
  and, if the flag is set, `Interrupt` are both possible then.

## 4. The runs

| Run | Question | Bounds |
|---|---|---|
| `anomaly` | Is the anomaly pass sound and complete against first-match evaluation, does it implement `PacketVerdicts`, does it obey Ctrl+C? | 3 packets, every list of at most 3 rules over all 8 predicates and both actions; Ctrl+C at any moment |
| `comparator` | Are the diagrams of `compute_bdd` first-match evaluation, and the relations exact? | 2 packets, every pair of lists of at most 2 rules, each enabled or disabled |
| `symmetry` | Are exactly the symmetrical pairs found, is the cache right, do the loops end, also after Ctrl+C? | lists of at most 3 rules: 2 zones, 2 addresses, negated groups, "app-default" services, loaded or copied |
| `packet_test` | Is the answer first-match evaluation, are partial diagrams right? | lists of at most 2 rules out of 32 (16 predicates, most of them about one field), tests of one or several packets, with and without zones and applications |
| `pool_resolver` | Does the traversal of nested pools find exactly what is reached, in a usable order, refuse exactly the loops, and end? Is it the function the loader uses? | every nesting of 3 pools with at most 2 members each, among the pools, an object and an unknown name |
| `loading` | Are the rules the rows, is the report right, do ids and hosts stay what they were? | 5 policy files, 2 loads and 2 changes of the store per process, 5 store files, one host with 3 possible answers, ids up to 2, counters modulo 16; interrupts and restarts at any moment |
| `session` | Is the current firewall alive, is Ctrl+C for the right command, are the firewalls named policies, does the prompt come back? | 3 names, 3 addresses, files that load, can not be opened or are missing, a script that fails half way, one that calls itself, 2 open scripts, one rule that is enabled and disabled |
| `ranges` | Are texts read as what they mean, and displayed so that they read back? | numbers of 5 bits, every address, prefix, mask and range; "shorter than 9" for the short form |
| `anomaly_redundant`, `symmetry_negated`, `loading_lost_rows`, `loading_stale` | Does the code do what a sentence of the documentation or a comment says? It does not: see section 7 | the instances of the passing runs |

Why the bounds are enough. The classification of a rule compares its packets with the ones
accepted, denied and left over, and with single earlier rules. Three packets let a
rule lose one packet to an allow rule, one to a deny rule, and keep one; three rules let
the third be hidden by two rules neither of which hides it alone, let a rule stand between
two others, and let a policy be exhausted before its last rule. All predicates on
these packets are taken, including the empty one and "any", so the boundary cases are not
chosen by hand. Beyond these bounds the theorems of section 6 speak of any set of
packets and lists of any length. For the comparison, two rules reach every branch
of `compute_bdd` and every pair of answers of `Compare`; that is proved in general too. The
symmetry cache is filled while the first rule is compared and first *read* while the
second is, so three rules are needed and enough. The ids of rules run against their
positions, so that a confusion of the two cannot go unnoticed.

Three pools are the fewest with a loop that the root is not part of, below another pool; two
members make a pool be used twice without a loop, and put a loop behind or before other members. Sharing,
loops at the root and below it, and unknown names at each depth all occur.

In `loading`, two loads with a change of the store in between are enough for one load to find what
another left: objects, groups and ids of the same names. The five files have between them a
duplicated id, a row that is refused at once, one refused because nothing of it is known, one of
which a part is unknown, an unreadable row with a good one behind it, more zones than ids, nested
and doubly used pools, a pool in a loop behind a good object, and "app-default" services. Two ids are enough to reach
the end of a generator with three zones; the code has 2^16. Addresses of a host are of the wrong family in one
answer. `SizeMax` stands for 2^64: a count that goes below zero is told apart from a small one.

In `session`, two names besides the default one let a firewall be deleted, created again at
another address, and copied onto a taken name, while a third is active; with the status of a rule set
in between, a copy and its original differ; three addresses are what three
names can use at once, so that an address freed is used again. `MaxStreams`
stands for the limit of open files, which is what ends a script that calls itself.

Five bits show every carry and wrap of the parser; nothing in it depends on the width but the
constants 32, 128 and 16 themselves.

Packets are interchangeable in `anomaly` and `comparator` (symmetry sets are used; these runs
check safety only). The others use no symmetry set. `CHECK_DEADLOCK FALSE`
is set where a module models one call, which returns, or a session, which the user quits: the system stops there.

## 5. Properties

*Anomaly analysis.* `StateIsFirstMatch`: A, D, R are what first-match evaluation of the
walked prefix accepts, denies, leaves. `MaskedIffDecidesNothing`: a rule is called fully masked
exactly if it matches a packet and decides none. `ShadowedGetsOpposite`: all packets of a
shadowed rule get the opposite action, from rules that are named. `MaskedRulesRemovable`:
deleting all fully masked rules at once changes no decision. `ConflictsReported`: a
rule that lost a packet to an opposite rule gets an anomaly. `NamedRulesExplain`: the
rules named cover the packets the message is about. `SilenceMeansObeyed`: a rule without
anomaly is obeyed on every packet it matches. `MissingDenyAllExact`: the warning is given exactly when
some packet matches no rule. `InterruptHonoured`: after Ctrl+C no further rule is looked at
and nothing is reported. `ImplementsVerdicts`: the pass implements `PacketVerdicts`.

*Comparison.* `ComputedIsFirstMatch`, `EquivalentExact`, `RelationsExact`.

*Symmetry.* `PairsExact`, `CacheIsSymmetrical`, `SymmetryEnds`, `SymmetryInterruptHonoured`.
The first two are restricted to rules that negate both address groups or none; without the
restriction they are violated (`symmetry_negated`).

*Packet test.* `DiagramsBlur`: the diagram without a field is the full diagram blurred in that
field, also when the services come from "app-default". `ExactForOnePacket`: for one packet the
rule named is the first that matches. `RuleAnswersForAll`: for many packets, an answer that names a
rule holds for each of them unless an opposite rule before it takes some.

*Nested pools.* `ResolutionExact`: what is listed is what is reached through any number of pools, and every
name that is neither an object nor a pool is reported. `LoopExact`: the exception is thrown exactly if a
reached pool contains itself. `MembersBeforePool`: the groups of the network look their members up
when they are made, so a pool stands behind all its members. `TraversalIsLoop`: the function of
`ObjectStore` is this loop. `ResolverEnds`.

*Loading.* `RulesAreTheRows`: the firewall holds the acceptable rows read so far, in order, each with the
meaning its names have in the store. A name the store does not have means nothing, and a row is acceptable as long as no
field is left empty, so a row that is known in part is loaded in part: the documentation says that it is skipped (section 7). It is claimed for as long as nothing known to mislead the caches
has happened (`Undisturbed`): the store changed after a load, a lookup failed and may later succeed, two
objects are about one host, a pool has a literal address as a member, or the address "any" is redefined, which
the store allows while the network has an "any" of its own. These cases are in the run, with the
restriction; the first is `loading_stale`. `StatusExact` is `StatusCounts`, rows are counted once and disabled rules
are counted, one short if there is an implicit deny-all rule, and `StatusNames`, every unresolved name is reported
and no other. `IdsDistinct`: an id stands for one name. `HostAnswersStable`: a host keeps its addresses, also
when the process dies.

*Session.* `CurrentIsLive`, `CtrlCIsForThisCommand`, `ImplementsPolicies` (refinement of
`NamedPolicies`), `PromptReturns`.

*Ranges.* `ReadsWhatIsMeant`: against a reference that counts addresses one by one without
wrapping. `DisplayReadsBack`: what is displayed is read as the same range by the parser that is not
strict; the form `lower+size` of short ranges is refused by the parser.

**Fairness.** `symmetry`: `check_symmetry` runs in one thread and blocks on
nothing, so a step of its loops that can be taken is taken: weak fairness of
`ComparePair \/ Abort \/ NextRule \/ Finish`. `pool_resolver`: the same for its `while` loop. `session`: weak fairness
of `Proceed`, everything the program does once a line is typed; reading the prompt
is where it waits for somebody, so `TypeLine` and `Quit` get none. `CtrlC` gets none anywhere,
since nobody has to press it. `loading` claims no liveness.

## 6. Proofs

All theorems hold for every value of the constants; the only assumptions are the named ones of the
modules, which say what the callers and the readers of files guarantee, and TLC evaluates them in the runs:

* lists are finite sequences of rules (`AclsAssumption`, `RuleListsAssumption`), and no two rules of a list have the
  same id (`UniqueIds`, ensured by `FirewallFactory::add_rule`);
* the predicates of rules and tests have the fields of their types (`SymmetryAclsAssumption`, `PacketTestAssumption`), and
  applications have a set of default services (`DefaultServicesAssumption`);
* pools are finite sequences of names, and there are finitely many (`DictionariesAssumption`);
* the names in commands are names, and files and scripts are finite (`SessionAssumption`);
* policy files are finite, a row that the reader accepts has a positive id and lists of strings, and what is loaded into the
  store are objects with at least one value, of which only addresses are host names, and finitely many pools under strings
  (`FilesAssumption`; a definition that is nothing but delimiters would give an object without values, whose first one the
  code reads all the same, so it is excluded); the system resolver answers in one of its
  three ways (`AnswersAssumption`); the limits are positive (`MaxIdAssumption`, `SizeMaxAssumption`).

`AnomalyProofs` — it starts with first-match evaluation: what extending
the walked rules by one adds to the decided and the unmatched packets (`DecidedStep`, `UnmatchedStep`), and that the decision of a
prefix does not depend on later rules (`PrefixFirstMatch`, `PrefixEffective`). Then two inductive invariants.

* `IInv` is the type invariant, `StateIsFirstMatch`, "the cache holds the diagrams of the walked
  rules" and `R = Packet \ (A \cup D)`. `StateIsFirstMatch` alone is not inductive: the step
  reads diagrams from the cache, by id, and recomputes R from A and D instead of
  reducing it. From it follow `TypeCorrect`, `FirstMatchState` and `DenyAllWarning`.
* `ReportInv` says of each anomaly a fact about its rule (`Fact`: hidden or not,
  shadowed by opposite rules, explained by the rules named) and of each silent rule that no
  earlier rule of the other action took a packet. These facts mention only rules *before* the one
  concerned, so they stay true as the pass goes on; the properties speak of the whole walked
  list. `CheckRuleFact` and `CheckRuleSilence` establish them for one call of `check_rule`.
  From it follow `MaskedExact`, `ShadowingSound`, `MaskedRemovable`, `ConflictsAreReported`,
  `ExplanationSound`, `SilenceSound`.
* `Refinement`: the pass implements `PacketVerdicts`. The packets R a rule takes are those
  without a verdict, and by `MaskedExactly` the rules reported as fully masked after a step are
  those the walk calls useless. `CtrlC` maps to a stutter.
* `InterruptStops`: an action property, from the guards of the steps.

`ComparatorProofs` — the invariant `IInv` contains `Walked`: the local diagrams are first-match
evaluation, *and* what both leave out is exactly what no enabled rule matched. The latter is what
makes subtracting the packets of the other action the same as intersecting with the
remaining ones. From it follow `ComparatorTypeCorrect`, `ComputedCorrect`, `EquivalenceExact` and
`RelationsCorrect`.

`SymmetryProofs` — `SymmetricalTurns`: field by field, the diagram of the symmetrical predicate is the
one of the predicate with every packet turned round, if both address groups are negated or none. `SymmetryInv` adds
to the type invariant that every cached diagram is the one of the symmetrical predicate of its rule, and that the
pairs found are the symmetrical ones *among the pairs behind the two iterators*. From it follow `TypeCorrect`, `CacheCorrect` and
`PairsCorrect`.

`PacketTestProofs` — `BlurExact`: a diagram made without a field is the full one blurred in it; the
hard case is "app-default", where services come from the applications and a service that is left out still needs a
witness. `SearchInv`: no rule passed over contains what was asked. From it follow `DiagramsCorrect`,
`OnePacketCorrect` and `GroupsCorrect`.

`PoolProofs` — for dictionaries of any size, nested in any way. `PoolInv` says how the stack follows the nesting (`ChainInv`),
that every member taken from a pool on the stack is listed, reported, or next on the stack (`TakenInv`), and that a
listed pool has its members before it (`ListInv`). `MembersBefore` is part of it. Neither of the others is inductive.
Reachability is a *least closed set*, so no induction on the nesting is needed: for `ResolutionCorrect`
the names settled at the end are shown to be closed; for `LoopCorrect` a listed pool cannot contain itself, since the
positions of the list would decrease for ever along the loop. `TraversalCorrect` compares the loop with the recursive function
`Traversal` of `ObjectStore`. The function is unfolded into its levels (`LevelsAre`): level d gives the entries of a pool down
to d nested pools, and a "loop" entry below. `WalkInv` adds to `PoolInv`: the lists report a list of entries that
is split between the pools of the stack, place i holding what level (number of pools - i) gives for the members taken so far (`Splits`).
This needs the stack to be no deeper than there are pools (`StackIsSmall`, pigeonhole), and for loops that a pool is free of
"loop" entries at some level only if nothing reachable from it contains itself (`LoopFreeReaches`).

`CliProofs` — for every set of names, files, scripts and commands. `CtrlCExact`: the flag survives the command it was
meant for, so the property is not inductive; `GuardInv` adds that the guard is enabled exactly
while a command runs, and that the flag is right from the moment the constructor of the guard has reset it, that
is also before it is enabled. `CurrentAlive`: the invariant is inductive as it stands; `AddNew` says what a new firewall does to
the two maps. `SessionInv` puts them together with the shape of the stack of scripts, of the command that runs and of the
firewalls, and with `PrefixLoaded`: *during a load the current policy is the beginning of the file*. The abstract policies
grow by a row of a file, so this is what the refinement `SessionRefinement` needs; opening scripts, polls and Ctrl+C are
stutters of `NamedPolicies`. `TypeCorrect` is part of the invariant.

`LoaderProofs` — for every store, policy file and answers of the system. A row is built by folds over its names, over
the entries of a pool, and over their members. That a fold is defined and keeps what each of its steps keeps is shown
by a least counterexample (`FoldKeeps`), as is that the traversal of pools gives finite sequences. What is kept is
`Sound`: positive answers are on the disk as soon as they are in memory and no known host is forgotten (`ResolverOK`, `KnownTo`); a
generator gives increasing ids, no id twice, and a cached object bears the id of its name (`NetworkOK`). It
holds for each step of the build of a row and is then part of the invariant `LoaderInv`, with the shapes of the store and of the rules.
From it follow `TypeCorrect`, `IdsCorrect`, `HostsStable`, and, with lemmas on how the counts change with one rule,
`CountsCorrect` (`StatusCounts`: the first half of `StatusExact`).

The second part of the module proves `RulesCorrect` (`RulesAreTheRows`) and `StatusCorrect` (`StatusExact`). The difficulty is that a rule is not
made of what the store says but of what the network has under the same name, put there by any earlier row or load. Neither property
is inductive: they say nothing of the caches, and what was true when a rule was added has to stay true when more hosts and numbers
become known. So everything is said *for all that agrees with what is known* (`Agrees`): `Truthful` says that each cached object is what the store, the
hosts and the numbers say of its name, and each cached group all its leaves (`CachesTrue`), whatever is learnt later. A
record of a build that follows from another keeps what was known, and the truth (`Builds`). Bottom up, looking up
a host (`GetObjectGives`), registering an object (`RegisterObjectIs`), the members of a pool in the order of the traversal
(`RegisterAllIs`), a name (`AddNameIs`), and all names of a field (`BuildGroupIs`) are shown to build, and to add to the group of the
row what the names mean and to the report the names that mean nothing. For pools this rests on the traversal as lemmas about any nesting
of pools (`TraversalOK`): what it lists is closed under members, members stand before their pool (`Ordered`), and a pool free of loops is listed with
the same entries at every level, so the group of a pool, which the network makes of what it has, is all its leaves (`NestedPoolMeans`).
`RowIs` is the result for a row. The invariant `MeaningInv` adds to `LoaderInv` that the caches are truthful and that the
rules and the reported names are those of the rows read; a duplicated id is refused exactly if an earlier acceptable row has it
(`LoadedIds`). The property restricts itself to loads that are `Undisturbed`, and each of its five conditions is used: a failed lookup leaves a
name out, aliases, literal members and a redefined "any" make a cached object another than the one of the store, and after a change of the store
the caches are about the old one.

`RangeProofs` — for numbers of any width, so for 32, 128 and 16 bits, where the run has five. The provers know nothing of powers of
two; what is needed (`PowDoubles`, `PowAdds`) is derived from the number of subsets of a finite set. From there on it
is arithmetic: the bits of a remainder and of a quotient (`BitsOfRemainder`, `BitsOfQuotient`), what the mask of a prefix is
(`PrefixMaskIs`, `PrefixBits`), that the wrapped sum is below the network exactly if the block does not fit
(`NetworkRangeIs`), how far adding one carries (`Carry`), hence that the test on two consecutive sizes recognises powers of two
(`PowerOf2Is`). `ReadingCorrect` and `DisplayCorrect` follow, with the obvious invariant.

Only model-checked: liveness (`SymmetryEnds`, `SymmetryInterruptHonoured`, `ResolverEnds`, `PromptReturns`), which needs
fairness and ENABLED and so is beyond the installed provers.

## 7. Disagreements found

Each is a run that TLC must find violated; `PROJECT.json` quotes the lines.

* `RedundantRemovable` — a partially masked rule names as redundant any earlier rule inside it with the
  same action. With `allow {p1}; deny {p1,p2}; allow {p1,p3}`, rule 1 is called redundant with rule 3, although it is
  what keeps p1 from rule 2 (`README.md:84`). It takes a deny rule that is not inside the third rule: otherwise a
  generalization is reported and the search for redundancy is not made (`analyzer.cpp:220`).
* `SymmetryExact` — the symmetrical predicate exchanges the address groups but not the negate
  flags (`predicate.cpp:231`): a rule to "not X" is paired with rules from X.
* `OnlyFailingRowsSkipped` — a row with a wrong id or an empty list is not skipped: it ends the load, and the
  rows behind it are lost without being counted (`README.md:808`).
* `CopiedFromStore` — a rule is given the objects the network has cached under the names of the row, which are those of an
  earlier load if the store has changed since (`README.md:810`).

Noticed while modelling, without a run of its own:

* A rule that refers to objects that are not in the store is *not* skipped, although `README.md:809` says it is ("Rules that make
  reference to objects (address, service, …) that are not available in the object store are skipped"). The name is
  reported and left out, and the rule is loaded with the objects that are known; only a row of which a field is left empty
  is refused (`firewallfactory.cpp:425` and the tests for emptiness that follow). `loading` contains the case: the row of `MCLoader`
  from `net; nowhere` becomes a rule from `net` alone. So a rule can be about less than its row says, or, in a negated
  field, about more. `RulesAreTheRows` and the theorem `RulesCorrect` state what the code does, not that sentence;
  `StatusExact` says that the name is reported.
* A generalization is reported although the opposite rule named excluded nothing, its
  packets having been decided before it (`README.md:114`).
* The mixed class "redundancy or correlation" is built for fully masked rules only and carries
  the scope of partially masked ones (`analyzer.cpp:167`, `anomaly.cpp:161`).
* A packet no rule matches is neither accepted nor denied for the comparison: lists that differ in a
  closing deny-all rule only are not equivalent (`README.md:278`).
* Packets that two allow rules cover between them are reported as denied (`packettester.cpp:103`).
* `firewall copy` refuses a name that exists; `README.md:840` says its rules are replaced.
* `is_url` accepts every name, so the URLs and groups of URLs of the store are never used (`url.cpp:18`).
* A rule copied with its firewall keeps a reference to the firewall it was copied from, which `rule.h:111` calls the
  one "owning this rule" and which can be deleted; nothing reads the reference (`rule.cpp:40`).
* Scripts are run by `ex` and `exec`; the `execute` of `README.md:635` is a syntax error.
* The rows shown as "out of" after a load count the disabled rules twice (`clifwload.cpp:50`).

## 8. Not modelled

* The `ipv64` model, with two address variables per packet and "any" as a pool of two objects.
* Validation of the files of the store, object by object: it decides which objects exist, and the modules start from these.
* Pools whose members have the name of one address of a multi-address object (`name[0]`), and a pool with the
  name of a host: names the documentation gives no meaning.
* A host that answers differently within one row.
* In the session: arguments and options, the switches of the model, zone filters, results written to a file, the yes/no questions some commands ask, and all
  commands that only print. The default firewall is created before the first
  command, so "no firewall selected" cannot happen. The end of the standard input.
* Parsing character by character: better covered by the unit tests.
* Tables, logging, CSV tokenising, configuration: no state that the properties depend on.
* BuDDy and the other vendored libraries (`src/dep`, `cpptoml.h`), by far the larger part of the lines of the
  repository: third-party code, used through its contract. Memory exhaustion inside BuDDy is not modelled.
* The time and space an analysis takes.
