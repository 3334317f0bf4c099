------------------------------ MODULE CliProofs ------------------------------
(***************************************************************************)
(* Proofs about CliSession, for every set of names, files, scripts and     *)
(* commands.                                                               *)
(*                                                                         *)
(* The Ctrl+C flag survives the commands, so that CtrlCIsForThisCommand is *)
(* not inductive: GuardInv says where the guard is enabled, and that the   *)
(* flag tells the truth as soon as the constructor has reset it, before    *)
(* the guard is enabled.  CurrentIsLive is inductive as it stands; the     *)
(* lemmas say what adding and deleting a firewall does to the two maps.    *)
(*                                                                         *)
(* SessionInv adds the shapes of the state, and that during a load the     *)
(* current policy is the beginning of the file: this is what makes a step  *)
(* of a load the abstract step of a policy that grows, and the session a   *)
(* refinement of NamedPolicies.                                            *)
(***************************************************************************)
EXTENDS CliSession, SequenceTheorems, TLAPS

Phases == {"idle", "enabling", "running", "ended"}

GuardInv ==
    /\ phase \in Phases
    /\ enabled \in BOOLEAN /\ interrupted \in BOOLEAN /\ asked \in BOOLEAN
    /\ enabled <=> phase = "running"
    /\ phase \in {"enabling", "running"} => (interrupted <=> asked)

(***************************************************************************)
(* The guard.                                                              *)
(***************************************************************************)
LEMMA GuardInit == Init => GuardInv
BY DEF Init, GuardInv, Phases

\* Reading a line from the prompt or a script: only a guard changes the flags.
LEMMA GuardExecute ==
    ASSUME GuardInv, phase = "idle", NEW line, NEW remaining, Execute(line, remaining)
    PROVE  GuardInv'
<1>1. CASE line.op = "exec"
  <2>1. UNCHANGED <<phase, enabled, interrupted, asked>>
    BY <1>1 DEF Execute, OpenScript, guard
  <2>2. QED
    BY <2>1 DEF GuardInv, Phases
<1>2. CASE line.op # "exec"
  <2>1. MakeGuard(line, remaining)
    BY <1>2 DEF Execute
  <2>2. ~enabled
    BY DEF GuardInv
  <2>3. phase' = "enabling" /\ interrupted' = FALSE /\ asked' = FALSE /\ enabled' = enabled
    BY <2>1, <2>2 DEF MakeGuard
  <2>4. QED
    BY <2>2, <2>3 DEF GuardInv, Phases
<1>3. QED
  BY <1>1, <1>2

\* Whatever ends a command releases the guard.
LEMMA GuardRelease ==
    ASSUME GuardInv, Release
    PROVE  GuardInv'
BY DEF GuardInv, Release, Phases

LEMMA GuardStep ==
    ASSUME GuardInv, [Next]_vars
    PROVE  GuardInv'
<1>1. CASE TypeLine
  BY <1>1, GuardExecute DEF TypeLine
<1>2. CASE Quit
  BY <1>2 DEF Quit, guard, GuardInv, Phases
<1>3. CASE CtrlC
  BY <1>3 DEF CtrlC, GuardInv, Phases
<1>4. CASE ReadScript
  BY <1>4, GuardExecute DEF ReadScript
<1>5. CASE EndScript
  BY <1>5 DEF EndScript, guard, GuardInv, Phases
<1>6. CASE Enable
  BY <1>6 DEF Enable, GuardInv, Phases
<1>7. CASE Create \/ Copy \/ Delete \/ Select \/ SetRuleStatus \/ UnknownCommand
  <2>1. Release
    BY <1>7 DEF Create, Copy, Delete, Select, SetRuleStatus, UnknownCommand, Throw, Return
  <2>2. QED
    BY <2>1, GuardRelease
<1>8. CASE LoadFails \/ FileNotFound \/ EndLoad \/ EndCheck \/ Interrupt
  <2>1. Release
    BY <1>8 DEF LoadFails, FileNotFound, EndLoad, EndCheck, Interrupt, Throw, Return
  <2>2. QED
    BY <2>1, GuardRelease
<1>9. CASE StartLoad \/ LoadRow \/ CheckRule
  <2>1. UNCHANGED <<phase, enabled, interrupted, asked>>
    BY <1>9 DEF StartLoad, LoadRow, CheckRule
  <2>2. QED
    BY <2>1 DEF GuardInv, Phases
<1>10. CASE UNCHANGED vars
  BY <1>10 DEF vars, GuardInv, Phases
<1>11. QED
  BY <1>1, <1>2, <1>3, <1>4, <1>5, <1>6, <1>7, <1>8, <1>9, <1>10 DEF Next, Proceed

\* A command is interrupted if and only if Ctrl+C was typed since its guard
\* began (clictrlchandler.cpp, enable and is_interrupted), whatever the lengths
\* of the files and the scripts.
THEOREM CtrlCExact == Spec => []CtrlCIsForThisCommand
<1>1. GuardInv => CtrlCIsForThisCommand
  BY DEF GuardInv, CtrlCIsForThisCommand, IsInterrupted
<1>2. QED
  BY <1>1, GuardInit, GuardStep, PTL DEF Spec

(***************************************************************************)
(* The firewalls.                                                          *)
(***************************************************************************)
\* A firewall under a new name and at a new address.
LEMMA AddNew ==
    ASSUME CurrentIsLive, NEW name, NEW pointer, NEW list,
           name \notin DOMAIN firewalls, pointer \notin DOMAIN rules,
           AddFirewall(name, pointer, list)
    PROVE  /\ Range(firewalls') = Range(firewalls) \cup {pointer}
           /\ Range(firewalls') = DOMAIN rules'
           /\ IsInjective(firewalls')
<1>1. /\ DOMAIN firewalls' = DOMAIN firewalls \cup {name}
      /\ firewalls'[name] = pointer
      /\ \A n \in DOMAIN firewalls : firewalls'[n] = firewalls[n]
  BY DEF AddFirewall, With
<1>2. DOMAIN rules' = DOMAIN rules \cup {pointer}
  BY DEF AddFirewall, Destroyed, Restrict, With
<1>3. Range(firewalls') = Range(firewalls) \cup {pointer}
  BY <1>1 DEF Range
<1>4. IsInjective(firewalls')
  BY <1>1 DEF CurrentIsLive, IsInjective, Range
<1>5. QED
  BY <1>2, <1>3, <1>4 DEF CurrentIsLive

LEMMA LiveInit == Init => CurrentIsLive
<1>1. ASSUME NEW p, firewalls = [name \in {"default"} |-> p], rules = [q \in {p} |-> <<>>], current = p
      PROVE  CurrentIsLive
  BY <1>1 DEF CurrentIsLive, Range, IsInjective
<1>2. QED
  BY <1>1 DEF Init

LEMMA LiveStep ==
    ASSUME CurrentIsLive, [Next]_vars
    PROVE  CurrentIsLive'
<1>1. CASE Create
  <2>1. CASE command.name \in DOMAIN firewalls
    BY <1>1, <2>1 DEF Create, network, CurrentIsLive
  <2>2. CASE command.name \notin DOMAIN firewalls
    <3>1. PICK pointer \in Pointers \ DOMAIN rules :
              AddFirewall(command.name, pointer, <<>>) /\ current' = pointer
      BY <1>1, <2>2 DEF Create
    <3>2. QED
      BY <3>1, <2>2, AddNew DEF CurrentIsLive
  <2>3. QED
    BY <2>1, <2>2
<1>2. CASE Copy
  <2>1. CASE command.name \in DOMAIN firewalls
    BY <1>2, <2>1 DEF Copy, network, CurrentIsLive
  <2>2. CASE command.name \notin DOMAIN firewalls
    <3>1. /\ UNCHANGED current
          /\ \E pointer \in Pointers \ DOMAIN rules :
                AddFirewall(command.name, pointer, rules[current])
      BY <1>2, <2>2 DEF Copy
    <3>2. PICK pointer \in Pointers \ DOMAIN rules :
              AddFirewall(command.name, pointer, rules[current])
      BY <3>1
    <3>3. QED
      BY <3>1, <3>2, <2>2, AddNew DEF CurrentIsLive
  <2>3. QED
    BY <2>1, <2>2
<1>3. CASE Delete
  <2> DEFINE name == command.name
  <2>1. CASE name \notin DOMAIN firewalls \/ firewalls[name] = current
    BY <1>3, <2>1 DEF Delete, network, CurrentIsLive
  <2>2. CASE ~(name \notin DOMAIN firewalls \/ firewalls[name] = current)
    <3>1. /\ firewalls' = [n \in DOMAIN firewalls \ {name} |-> firewalls[n]]
          /\ DOMAIN rules' = DOMAIN rules \ {firewalls[name]}
          /\ current' = current
      BY <1>3, <2>2 DEF Delete, Destroyed, Restrict
    <3>2. Range(firewalls') = Range(firewalls) \ {firewalls[name]}
      BY <3>1, <2>2 DEF CurrentIsLive, IsInjective, Range
    <3>3. IsInjective(firewalls')
      BY <3>1 DEF CurrentIsLive, IsInjective
    <3>4. QED
      BY <3>1, <3>2, <3>3, <2>2 DEF CurrentIsLive
  <2>3. QED
    BY <2>1, <2>2
<1>4. CASE Select
  BY <1>4 DEF Select, network, CurrentIsLive, Range
<1>5. CASE StartLoad \/ LoadFails \/ LoadRow \/ SetRuleStatus
  <2>1. /\ UNCHANGED <<firewalls, current>>
        /\ DOMAIN rules' = DOMAIN rules
    BY <1>5 DEF StartLoad, LoadFails, LoadRow, SetRuleStatus, Cleared, network
  <2>2. QED
    BY <2>1 DEF CurrentIsLive
<1>6. CASE TypeLine \/ Quit \/ CtrlC \/ ReadScript \/ EndScript \/ Enable \/ UnknownCommand
           \/ FileNotFound \/ EndLoad \/ CheckRule \/ EndCheck \/ Interrupt \/ UNCHANGED vars
  <2>1. UNCHANGED <<firewalls, rules, current>>
    BY <1>6 DEF TypeLine, Quit, CtrlC, ReadScript, EndScript, Enable, UnknownCommand, FileNotFound,
       EndLoad, CheckRule, EndCheck, Interrupt, Execute, OpenScript, MakeGuard, network, vars
  <2>2. QED
    BY <2>1 DEF CurrentIsLive
<1>7. QED
  BY <1>1, <1>2, <1>3, <1>4, <1>5, <1>6 DEF Next, Proceed

\* The current firewall is never a dangling address, and the allocated
\* firewalls are those of the network, each under one name (clicontext.cpp).
THEOREM CurrentAlive == Spec => []CurrentIsLive
BY LiveInit, LiveStep, PTL DEF Spec

(***************************************************************************)
(* The types, with what makes them inductive: outside a running command no *)
(* row is counted, while rows are loaded the file exists and the current   *)
(* firewall has exactly the rows read so far, and no firewall has two      *)
(* rules with the same id.                                                 *)
(***************************************************************************)
Frame == [script : DOMAIN Scripts, next : Nat \ {0}]

FramesOK(streams) ==
    /\ streams \in Seq(Frame)
    /\ \A i \in DOMAIN streams : streams[i].next <= Len(Scripts[streams[i].script]) + 1
    /\ Len(streams) <= MaxStreams

DistinctIds(list) == \A i, j \in DOMAIN list : list[i].id = list[j].id => i = j

NetworkInv ==
    /\ DOMAIN firewalls \subseteq Names
    /\ firewalls \in [DOMAIN firewalls -> Pointers]
    /\ DOMAIN rules \subseteq Pointers
    /\ \A p \in DOMAIN rules : rules[p] \in Seq(Rule) /\ DistinctIds(rules[p])
    /\ rules \in [DOMAIN rules -> Seq(Rule)]
    /\ current \in Pointers

Loading == Running("load") /\ row >= 0

CommandInv ==
    /\ phase \in Phases
    /\ command \in Commands \cup {NoCommand}
    /\ row \in Nat \cup {-1}
    /\ phase # "running" => row = -1
    /\ Loading => command.name \in DOMAIN Files /\ row <= Len(Rows)

PrefixLoaded == Loading => rules[current] = SubSeq(Rows, 1, row)

LEMMA EmptyFrames == FramesOK(<<>>)
<1>1. Len(<<>>) = 0 /\ DOMAIN <<>> = {} /\ <<>> \in Seq(Frame)
  BY EmptySeq
<1>2. QED
  BY <1>1, SessionAssumption DEF FramesOK

LEMMA ExecuteFrames ==
    ASSUME NEW line, NEW remaining, FramesOK(remaining), Execute(line, remaining)
    PROVE  FramesOK(scripts')
<1>1. CASE line.op = "exec"
  <2>1. CASE line.name \in DOMAIN Scripts /\ Len(remaining) < MaxStreams
    <3> DEFINE frame == ScriptFrame(line.name)
               longer == Append(remaining, frame)
    <3>1. frame \in Frame /\ frame.next = 1 /\ frame.script = line.name
      BY <2>1 DEF ScriptFrame, Frame
    <3>2. frame.next <= Len(Scripts[frame.script]) + 1
      <4>1. Len(Scripts[frame.script]) \in Nat
        BY <2>1, <3>1, SessionAssumption
      <4>2. QED
        BY <3>1, <4>1
    <3> HIDE DEF frame
    <3>3. /\ longer \in Seq(Frame) /\ Len(longer) = Len(remaining) + 1
          /\ DOMAIN longer = 1 .. (Len(remaining) + 1)
          /\ \A i \in 1 .. Len(remaining) : longer[i] = remaining[i]
          /\ longer[Len(remaining) + 1] = frame
      BY <3>1, AppendProperties, LenProperties DEF FramesOK
    <3>4. \A i \in DOMAIN longer : longer[i].next <= Len(Scripts[longer[i].script]) + 1
      BY <3>2, <3>3, LenProperties DEF FramesOK
    <3>5. Len(longer) <= MaxStreams
      BY <2>1, <3>3, SessionAssumption, LenProperties DEF FramesOK
    <3>6. scripts' = longer
      BY <1>1, <2>1 DEF Execute, OpenScript, frame
    <3>7. QED
      BY <3>3, <3>4, <3>5, <3>6 DEF FramesOK
  <2>2. CASE ~(line.name \in DOMAIN Scripts /\ Len(remaining) < MaxStreams)
    BY <1>1, <2>2 DEF Execute, OpenScript
  <2>3. QED
    BY <2>1, <2>2
<1>2. CASE line.op # "exec"
  <2>1. scripts' = <<>> \/ scripts' = remaining
    BY <1>2 DEF Execute, MakeGuard
  <2>2. QED
    BY <2>1, EmptyFrames
<1>3. QED
  BY <1>1, <1>2

\* The line after the one that is read, and the innermost script.
LEMMA ScriptLine ==
    ASSUME FramesOK(scripts), scripts # <<>>, ~AtEnd(Last(scripts))
    PROVE  /\ FramesOK(Advanced)
           /\ Scripts[Last(scripts).script][Last(scripts).next] \in Commands
<1> DEFINE n == Len(scripts)
           frame == scripts[n]
           moved == [frame EXCEPT !.next = @ + 1]
<1>1. n \in Nat \ {0} /\ DOMAIN scripts = 1 .. n /\ frame \in Frame
  BY EmptySeq, LenProperties, ElementOfSeq DEF FramesOK
<1>2. Last(scripts) = frame
  BY DEF Last
<1>3. /\ Scripts[frame.script] \in Seq(Commands) /\ frame.next \in Nat \ {0}
      /\ Len(Scripts[frame.script]) \in Nat
      /\ frame.next <= Len(Scripts[frame.script])
  BY <1>1, <1>2, SessionAssumption DEF Frame, AtEnd
<1>4. moved \in Frame /\ moved.script = frame.script /\ moved.next = frame.next + 1
  BY <1>1 DEF Frame
<1> HIDE DEF moved
<1>5. Advanced = [scripts EXCEPT ![n] = moved]
  BY DEF Advanced, moved
<1>6. /\ Advanced \in Seq(Frame) /\ Len(Advanced) = n /\ DOMAIN Advanced = 1 .. n
      /\ \A j \in 1 .. n : Advanced[j] = IF j = n THEN moved ELSE scripts[j]
  BY <1>1, <1>4, <1>5, ExceptSeq, LenProperties DEF FramesOK
<1>7. \A i \in DOMAIN Advanced : Advanced[i].next <= Len(Scripts[Advanced[i].script]) + 1
  <2>1. moved.next <= Len(Scripts[moved.script]) + 1
    BY <1>3, <1>4
  <2>2. \A i \in 1 .. n : i # n => scripts[i].next <= Len(Scripts[scripts[i].script]) + 1
    BY <1>1 DEF FramesOK
  <2>3. QED
    BY <1>6, <2>1, <2>2
<1>8. FramesOK(Advanced)
  BY <1>6, <1>7 DEF FramesOK
<1>9. QED
  BY <1>2, <1>3, <1>8, ElementOfSeq

LEMMA FramesStep ==
    ASSUME FramesOK(scripts), [Next]_vars
    PROVE  FramesOK(scripts')
<1>1. CASE TypeLine
  BY <1>1, EmptyFrames, ExecuteFrames DEF TypeLine
<1>2. CASE ReadScript
  BY <1>2, ScriptLine, ExecuteFrames DEF ReadScript
<1>3. CASE EndScript
  <2> DEFINE n == Len(scripts)
  <2>1. scripts' = SubSeq(scripts, 1, n - 1) /\ scripts # <<>>
    BY <1>3 DEF EndScript, Front
  <2>2. n \in Nat \ {0} /\ DOMAIN scripts = 1 .. n
    BY <2>1, EmptySeq, LenProperties DEF FramesOK
  <2>3. \A i \in 1 .. (n - 1) : scripts[i] \in Frame
    BY <2>2, ElementOfSeq DEF FramesOK
  <2>4. /\ scripts' \in Seq(Frame) /\ Len(scripts') = n - 1
        /\ \A i \in 1 .. (n - 1) : scripts'[i] = scripts[i]
    BY <2>1, <2>2, <2>3, SubSeqProperties
  <2>5. DOMAIN scripts' = 1 .. (n - 1)
    BY <2>4, LenProperties
  <2>6. QED
    BY <2>2, <2>4, <2>5, SessionAssumption DEF FramesOK
<1>4. CASE Create \/ Copy \/ Delete \/ Select \/ SetRuleStatus \/ UnknownCommand \/ LoadFails
           \/ FileNotFound \/ EndLoad \/ EndCheck \/ Interrupt
  <2>1. scripts' = scripts \/ scripts' = <<>>
    BY <1>4 DEF Create, Copy, Delete, Select, SetRuleStatus, UnknownCommand, LoadFails,
                FileNotFound, EndLoad, EndCheck, Interrupt, Throw, Return
  <2>2. QED
    BY <2>1, EmptyFrames
<1>5. CASE Quit \/ CtrlC \/ Enable \/ StartLoad \/ LoadRow \/ CheckRule \/ UNCHANGED vars
  BY <1>5 DEF Quit, CtrlC, Enable, StartLoad, LoadRow, CheckRule, vars
<1>6. QED
  BY <1>1, <1>2, <1>3, <1>4, <1>5 DEF Next, Proceed

\* The line that becomes the command: one that can be typed, or nothing.
LEMMA ExecuteCommand ==
    ASSUME CommandInv, phase = "idle", NEW line \in Commands, NEW remaining,
           Execute(line, remaining)
    PROVE  CommandInv'
<1>1. row = -1 /\ phase \in Phases
  BY DEF CommandInv
<1>2. CASE line.op = "exec"
  <2>1. UNCHANGED <<phase, command, row>>
    BY <1>2 DEF Execute, OpenScript, guard
  <2>2. QED
    BY <2>1 DEF CommandInv, Loading, Running, Rows
<1>3. CASE line.op # "exec"
  <2>1. command' = line /\ row' = -1 /\ phase' \in {"idle", "enabling"}
    BY <1>3 DEF Execute, MakeGuard
  <2>2. QED
    BY <2>1 DEF CommandInv, Loading, Running, Phases
<1>4. QED
  BY <1>2, <1>3

LEMMA FileRows ==
    ASSUME NEW file \in DOMAIN Files
    PROVE  /\ Files[file] \in Seq(Rule) /\ Len(Files[file]) \in Nat
           /\ DOMAIN Files[file] = 1 .. Len(Files[file])
           /\ DistinctIds(Files[file])
<1>1. Files[file] \in Seq(Rule) /\ IsInjective([i \in DOMAIN Files[file] |-> Files[file][i].id])
  BY SessionAssumption
<1>2. DistinctIds(Files[file])
  BY <1>1 DEF IsInjective, DistinctIds
<1>3. QED
  BY <1>1, <1>2, LenProperties

LEMMA CommandStep ==
    ASSUME CommandInv, FramesOK(scripts), [Next]_vars
    PROVE  CommandInv'
<1>1. CASE TypeLine
  BY <1>1, ExecuteCommand DEF TypeLine
<1>2. CASE ReadScript
  BY <1>2, ScriptLine, ExecuteCommand DEF ReadScript
<1>3. CASE Create \/ Copy \/ Delete \/ Select \/ SetRuleStatus \/ UnknownCommand \/ LoadFails
           \/ FileNotFound \/ EndLoad \/ EndCheck \/ Interrupt
  <2>1. Release
    BY <1>3 DEF Create, Copy, Delete, Select, SetRuleStatus, UnknownCommand, LoadFails,
                FileNotFound, EndLoad, EndCheck, Interrupt, Throw, Return
  <2>2. QED
    BY <2>1 DEF Release, CommandInv, Loading, Running, Phases
<1>4. CASE Enable
  BY <1>4 DEF Enable, CommandInv, Loading, Phases
<1>5. CASE Quit
  BY <1>5 DEF Quit, guard, CommandInv, Loading, Running, Phases
<1>6. CASE StartLoad
  <2>1. row' = 0 /\ UNCHANGED <<phase, command>> /\ phase = "running" /\ command.name \in DOMAIN Files
    BY <1>6 DEF StartLoad, Running
  <2>2. Len(Rows') \in Nat
    BY <2>1, FileRows DEF Rows
  <2>3. QED
    BY <2>1, <2>2 DEF CommandInv, Loading
<1>7. CASE LoadRow
  <2>1. /\ row' = row + 1 /\ UNCHANGED <<phase, command>> /\ phase = "running"
        /\ Loading /\ row < Len(Rows)
    BY <1>7 DEF LoadRow, Loading, Running
  <2>2. /\ row \in Nat \cup {-1} /\ command.name \in DOMAIN Files
        /\ command \in Commands \cup {NoCommand} /\ phase \in Phases
    BY <2>1 DEF CommandInv
  <2>3. Len(Rows) \in Nat /\ Rows' = Rows
    BY <2>1, <2>2, FileRows DEF Rows
  <2>4. row' \in Nat /\ row' <= Len(Rows')
    BY <2>1, <2>2, <2>3 DEF Loading
  <2>5. QED
    BY <2>1, <2>2, <2>4 DEF CommandInv, Loading
<1>8. CASE CheckRule
  <2>1. /\ row' = row + 1 /\ UNCHANGED <<phase, command>> /\ phase = "running"
        /\ command.op = "check"
    BY <1>8 DEF CheckRule, Running
  <2>2. row \in Nat \cup {-1} /\ command \in Commands \cup {NoCommand} /\ phase \in Phases
    BY DEF CommandInv
  <2>3. row' \in Nat \cup {-1}
    BY <2>1, <2>2
  <2>4. QED
    BY <2>1, <2>2, <2>3 DEF CommandInv, Loading, Running
<1>9. CASE EndScript \/ CtrlC \/ UNCHANGED vars
  <2>1. UNCHANGED <<phase, command, row>>
    BY <1>9 DEF EndScript, CtrlC, guard, vars
  <2>2. QED
    BY <2>1 DEF CommandInv, Loading, Running, Rows
<1>10. QED
  BY <1>1, <1>2, <1>3, <1>4, <1>5, <1>6, <1>7, <1>8, <1>9 DEF Next, Proceed

\* Setting the status of a rule keeps the rules and their ids.
LEMMA StatusList ==
    ASSUME NEW list \in Seq(Rule), NEW id, NEW status \in BOOLEAN
    PROVE  LET changed == WithStatus(list, id, status) IN
           /\ changed \in Seq(Rule) /\ DOMAIN changed = DOMAIN list
           /\ \A i \in DOMAIN list : changed[i].id = list[i].id
           /\ DistinctIds(list) => DistinctIds(changed)
<1> DEFINE changed == WithStatus(list, id, status)
           n == Len(list)
<1>1. n \in Nat /\ DOMAIN list = 1 .. n /\ \A i \in 1 .. n : list[i] \in Rule
  BY LenProperties, ElementOfSeq
<1>2. DOMAIN changed = 1 .. n
  BY <1>1 DEF WithStatus
<1>3. \A i \in 1 .. n : /\ changed[i] \in Rule
                        /\ changed[i].id = list[i].id
  <2> SUFFICES ASSUME NEW i \in 1 .. n PROVE changed[i] \in Rule /\ changed[i].id = list[i].id
    OBVIOUS
  <2>1. changed[i] = IF list[i].id = id THEN [list[i] EXCEPT !.enabled = status] ELSE list[i]
    BY <1>1 DEF WithStatus
  <2>2. list[i] \in Rule
    BY <1>1
  <2> HIDE DEF changed
  <2>3. QED
    BY <2>1, <2>2 DEF Rule
<1>4. changed \in Seq(Rule)
  <2>1. changed \in [1 .. n -> Rule]
    BY <1>1, <1>3 DEF WithStatus
  <2>2. QED
    BY <1>1, <2>1
<1>5. DistinctIds(list) => DistinctIds(changed)
  BY <1>1, <1>2, <1>3 DEF DistinctIds
<1>6. QED
  BY <1>1, <1>2, <1>3, <1>4, <1>5

\* The next row of the file is the next rule of the firewall.
LEMMA NextRow ==
    ASSUME CommandInv, PrefixLoaded, LoadRow
    PROVE  /\ Append(rules[current], Rows[row + 1]) = SubSeq(Rows, 1, row + 1)
           /\ SubSeq(Rows, 1, row + 1) \in Seq(Rule)
           /\ DistinctIds(SubSeq(Rows, 1, row + 1))
           /\ row \in Nat /\ row + 1 \in DOMAIN Rows /\ command.name \in DOMAIN Files
<1>1. Loading /\ row < Len(Rows)
  BY DEF LoadRow, Loading
<1>2. command.name \in DOMAIN Files /\ row \in Nat
  BY <1>1 DEF CommandInv, Loading
<1>3. Rows \in Seq(Rule) /\ Len(Rows) \in Nat /\ DOMAIN Rows = 1 .. Len(Rows) /\ DistinctIds(Rows)
  BY <1>2, FileRows DEF Rows
<1>4. row + 1 \in 1 .. Len(Rows) /\ \A i \in 1 .. (row + 1) : i \in 1 .. Len(Rows)
  BY <1>1, <1>2, <1>3
<1> DEFINE more == SubSeq(Rows, 1, row + 1)
           before == SubSeq(Rows, 1, row)
<1>5. /\ more \in Seq(Rule) /\ Len(more) = row + 1
      /\ \A i \in 1 .. (row + 1) : more[i] = Rows[i]
  <2>1. \A i \in 1 .. (row + 1) : Rows[i] \in Rule
    BY <1>3, <1>4, ElementOfSeq
  <2>2. /\ more \in Seq(Rule) /\ Len(more) = IF 1 <= row + 1 THEN row + 1 - 1 + 1 ELSE 0
        /\ \A i \in 1 .. (row + 1 - 1 + 1) : more[i] = Rows[1 + i - 1]
    BY <1>2, <2>1, SubSeqProperties
  <2>3. QED
    BY <1>2, <2>2
<1>6. more = before \o <<Rows[row + 1]>>
  <2>1. more = SubSeq(Rows, 1, row + 1 - 1) \o <<Rows[row + 1]>>
    <3>1. 1 \in 1 .. Len(Rows) /\ row + 1 \in 1 .. Len(Rows)
      BY <1>2, <1>4
    <3>2. QED
      BY <1>2, <1>3, <3>1, SubSeqRecursiveSecond
  <2>2. row + 1 - 1 = row
    BY <1>2
  <2>3. QED
    BY <2>1, <2>2
<1>7. before \in Seq(Rule) /\ Rows[row + 1] \in Rule
  <2>1. \A i \in 1 .. row : Rows[i] \in Rule
    BY <1>2, <1>3, <1>4, ElementOfSeq
  <2>2. QED
    BY <1>2, <1>3, <1>4, <2>1, SubSeqProperties, ElementOfSeq
<1>8. Append(before, Rows[row + 1]) = more
  BY <1>6, <1>7, AppendIsConcat
<1>9. DistinctIds(more)
  <2>1. DOMAIN more = 1 .. (row + 1)
    BY <1>5, LenProperties
  <2>2. QED
    BY <1>3, <1>4, <1>5, <2>1 DEF DistinctIds
<1>10. QED
  BY <1>1, <1>2, <1>3, <1>4, <1>5, <1>8, <1>9 DEF PrefixLoaded

LEMMA PrefixStep ==
    ASSUME CommandInv, PrefixLoaded, CurrentIsLive, [Next]_vars
    PROVE  PrefixLoaded'
<1>1. CASE TypeLine \/ ReadScript \/ Create \/ Copy \/ Delete \/ Select \/ SetRuleStatus
           \/ UnknownCommand \/ LoadFails \/ FileNotFound \/ EndLoad \/ EndCheck \/ Interrupt \/ Quit
  <2>1. phase' # "running"
    BY <1>1 DEF TypeLine, ReadScript, Execute, OpenScript, MakeGuard, guard, Create, Copy, Delete,
       Select, SetRuleStatus, UnknownCommand, LoadFails, FileNotFound, EndLoad, EndCheck,
       Interrupt, Quit, Throw, Return, Release
  <2>2. QED
    BY <2>1 DEF PrefixLoaded, Loading, Running
<1>2. CASE Enable
  <2>1. row' = -1
    BY <1>2 DEF Enable, CommandInv
  <2>2. QED
    BY <2>1 DEF PrefixLoaded, Loading
<1>3. CASE StartLoad
  <2>1. rules'[current'] = <<>> /\ row' = 0
    BY <1>3 DEF StartLoad, Cleared, CurrentIsLive
  <2>2. SubSeq(Rows', 1, 0) = <<>>
    BY SubSeqEmpty
  <2>3. QED
    BY <2>1, <2>2 DEF PrefixLoaded
<1>4. CASE LoadRow
  <2>1. rules'[current'] = Append(rules[current], Rows[row + 1])
    BY <1>4 DEF LoadRow, CurrentIsLive
  <2>2. row' = row + 1 /\ Rows' = Rows
    BY <1>4 DEF LoadRow, Rows
  <2>3. QED
    BY <1>4, <2>1, <2>2, NextRow DEF PrefixLoaded
<1>5. CASE CheckRule
  <2>1. command'.op = "check"
    BY <1>5 DEF CheckRule, Running
  <2>2. QED
    BY <2>1 DEF PrefixLoaded, Loading, Running
<1>6. CASE EndScript \/ CtrlC \/ UNCHANGED vars
  <2>1. UNCHANGED <<phase, command, row, rules, current>>
    BY <1>6 DEF EndScript, CtrlC, guard, network, vars
  <2>2. QED
    BY <2>1 DEF PrefixLoaded, Loading, Running, Rows
<1>7. QED
  BY <1>1, <1>2, <1>3, <1>4, <1>5, <1>6 DEF Next, Proceed

(***************************************************************************)
(* The firewalls and their rules.                                          *)
(***************************************************************************)
LEMMA AddedFirewall ==
    ASSUME NetworkInv, NEW name \in Names, NEW pointer \in Pointers, NEW list \in Seq(Rule),
           DistinctIds(list), AddFirewall(name, pointer, list), current' \in Pointers
    PROVE  NetworkInv'
<1>1. /\ DOMAIN firewalls' = DOMAIN firewalls \cup {name}
      /\ firewalls' = [n \in DOMAIN firewalls \cup {name} |-> IF n = name THEN pointer ELSE firewalls[n]]
  BY DEF AddFirewall, With
<1> DEFINE kept == DOMAIN rules \ Destroyed(name)
<1>2. /\ DOMAIN rules' = kept \cup {pointer}
      /\ rules' = [p \in kept \cup {pointer} |-> IF p = pointer THEN list ELSE rules[p]]
  BY DEF AddFirewall, With, Restrict
<1>3. firewalls' \in [DOMAIN firewalls' -> Pointers]
  BY <1>1 DEF NetworkInv
<1>4. \A p \in DOMAIN rules' : rules'[p] \in Seq(Rule) /\ DistinctIds(rules'[p])
  BY <1>2 DEF NetworkInv
<1>5. rules' \in [DOMAIN rules' -> Seq(Rule)]
  BY <1>2 DEF NetworkInv
<1>6. QED
  BY <1>1, <1>2, <1>3, <1>4, <1>5 DEF NetworkInv

LEMMA ChangedFirewall ==
    ASSUME NetworkInv, NEW list \in Seq(Rule), DistinctIds(list),
           rules' = [rules EXCEPT ![current] = list], UNCHANGED <<firewalls, current>>
    PROVE  NetworkInv'
<1>1. DOMAIN rules' = DOMAIN rules
  OBVIOUS
<1>2. \A p \in DOMAIN rules : rules'[p] = IF p = current THEN list ELSE rules[p]
  OBVIOUS
<1>3. rules' \in [DOMAIN rules' -> Seq(Rule)]
  BY <1>1 DEF NetworkInv
<1>4. QED
  BY <1>1, <1>2, <1>3 DEF NetworkInv

LEMMA NewName ==
    ASSUME CommandInv, Running("create") \/ Running("copy")
    PROVE  command.name \in Names
<1>1. NoCommand.op = "none"
  BY DEF NoCommand
<1>2. command.op \in {"create", "copy"}
  BY DEF Running
<1>3. command \in Commands
  BY <1>1, <1>2 DEF CommandInv
<1>4. QED
  BY <1>2, <1>3, SessionAssumption

LEMMA NetworkStep ==
    ASSUME NetworkInv, CommandInv, PrefixLoaded, CurrentIsLive, [Next]_vars
    PROVE  NetworkInv'
<1>1. current \in DOMAIN rules /\ rules[current] \in Seq(Rule) /\ DistinctIds(rules[current])
  BY DEF CurrentIsLive, NetworkInv
<1>2. <<>> \in Seq(Rule) /\ DistinctIds(<<>>)
  BY EmptySeq DEF DistinctIds
<1>3. ASSUME UNCHANGED network
      PROVE  NetworkInv'
  BY <1>3 DEF network, NetworkInv
<1>4. CASE Create
  <2>1. CASE command.name \in DOMAIN firewalls
    BY <1>3, <1>4, <2>1 DEF Create
  <2>2. CASE command.name \notin DOMAIN firewalls
    <3>1. PICK pointer \in Pointers \ DOMAIN rules :
              AddFirewall(command.name, pointer, <<>>) /\ current' = pointer
      BY <1>4, <2>2 DEF Create
    <3>2. command.name \in Names
      BY <1>4, NewName DEF Create
    <3>3. QED
      BY <1>2, <3>1, <3>2, AddedFirewall
  <2>3. QED
    BY <2>1, <2>2
<1>5. CASE Copy
  <2>1. CASE command.name \in DOMAIN firewalls
    BY <1>3, <1>5, <2>1 DEF Copy
  <2>2. CASE command.name \notin DOMAIN firewalls
    <3>1. /\ current' = current
          /\ \E pointer \in Pointers \ DOMAIN rules :
                AddFirewall(command.name, pointer, rules[current])
      BY <1>5, <2>2 DEF Copy
    <3>2. PICK pointer \in Pointers \ DOMAIN rules :
              AddFirewall(command.name, pointer, rules[current])
      BY <3>1
    <3>3. command.name \in Names /\ current' \in Pointers
      BY <1>5, <3>1, NewName DEF Copy, NetworkInv
    <3>4. QED
      BY <1>1, <3>2, <3>3, AddedFirewall
  <2>3. QED
    BY <2>1, <2>2
<1>6. CASE Delete
  <2>1. CASE UNCHANGED network
    BY <1>3, <2>1
  <2>2. CASE /\ firewalls' = Restrict(firewalls, DOMAIN firewalls \ {command.name})
             /\ rules' = Restrict(rules, DOMAIN rules \ Destroyed(command.name))
             /\ current' = current
    <3>1. /\ DOMAIN firewalls' \subseteq DOMAIN firewalls /\ DOMAIN rules' \subseteq DOMAIN rules
          /\ \A n \in DOMAIN firewalls' : firewalls'[n] = firewalls[n]
          /\ \A p \in DOMAIN rules' : rules'[p] = rules[p]
      BY <2>2 DEF Restrict
    <3>2. /\ firewalls' \in [DOMAIN firewalls' -> Pointers]
          /\ rules' \in [DOMAIN rules' -> Seq(Rule)]
      BY <2>2 DEF Restrict, NetworkInv
    <3>3. QED
      BY <2>2, <3>1, <3>2 DEF NetworkInv
  <2>3. QED
    BY <1>6, <2>1, <2>2 DEF Delete
<1>7. CASE Select
  <2>1. CASE UNCHANGED network
    BY <1>3, <2>1
  <2>2. CASE /\ command.name \in DOMAIN firewalls /\ current' = firewalls[command.name]
             /\ UNCHANGED <<firewalls, rules>>
    BY <2>2 DEF NetworkInv
  <2>3. QED
    BY <1>7, <2>1, <2>2 DEF Select
<1>8. CASE SetRuleStatus
  <2>1. CASE UNCHANGED network
    BY <1>3, <2>1
  <2>2. CASE /\ rules' = [rules EXCEPT ![current] =
                             WithStatus(@, command.id, command.op = "enable")]
             /\ UNCHANGED <<firewalls, current>>
    <3> DEFINE list == WithStatus(rules[current], command.id, command.op = "enable")
    <3>1. list \in Seq(Rule) /\ DistinctIds(list)
      BY <1>1, StatusList
    <3>2. rules' = [rules EXCEPT ![current] = list]
      BY <2>2
    <3> HIDE DEF list
    <3>3. QED
      BY <2>2, <3>1, <3>2, ChangedFirewall
  <2>3. QED
    BY <1>8, <2>1, <2>2 DEF SetRuleStatus
<1>9. CASE StartLoad \/ LoadFails
  <2>1. rules' = [rules EXCEPT ![current] = <<>>] /\ UNCHANGED <<firewalls, current>>
    BY <1>9 DEF StartLoad, LoadFails, Cleared
  <2>2. QED
    BY <1>2, <2>1, ChangedFirewall
<1>10. CASE LoadRow
  <2>1. /\ rules' = [rules EXCEPT ![current] = Append(rules[current], Rows[row + 1])]
        /\ UNCHANGED <<firewalls, current>>
    BY <1>10 DEF LoadRow
  <2>2. QED
    BY <1>10, <2>1, NextRow, ChangedFirewall
<1>11. CASE TypeLine \/ Quit \/ CtrlC \/ ReadScript \/ EndScript \/ Enable \/ UnknownCommand
            \/ FileNotFound \/ EndLoad \/ CheckRule \/ EndCheck \/ Interrupt \/ UNCHANGED vars
  <2>1. UNCHANGED network
    BY <1>11 DEF TypeLine, Quit, CtrlC, ReadScript, EndScript, Enable, UnknownCommand, FileNotFound,
       EndLoad, CheckRule, EndCheck, Interrupt, Execute, OpenScript, MakeGuard, network, vars
  <2>2. QED
    BY <1>3, <2>1
<1>12. QED
  BY <1>4, <1>5, <1>6, <1>7, <1>8, <1>9, <1>10, <1>11 DEF Next, Proceed

SessionInv ==
    GuardInv /\ CurrentIsLive /\ FramesOK(scripts) /\ CommandInv /\ NetworkInv /\ PrefixLoaded

LEMMA SessionInit == Init => SessionInv
<1> SUFFICES ASSUME Init PROVE SessionInv
  OBVIOUS
<1>1. GuardInv /\ CurrentIsLive
  BY GuardInit, LiveInit
<1>2. FramesOK(scripts)
  BY EmptyFrames DEF Init
<1>3. CommandInv /\ PrefixLoaded
  BY DEF Init, CommandInv, PrefixLoaded, Loading, Running, Phases
<1>4. NetworkInv
  <2>1. PICK pointer \in Pointers : /\ firewalls = [name \in {"default"} |-> pointer]
                                   /\ rules = [p \in {pointer} |-> <<>>]
                                   /\ current = pointer
    BY DEF Init
  <2>2. <<>> \in Seq(Rule) /\ DistinctIds(<<>>)
    BY EmptySeq DEF DistinctIds
  <2>3. rules \in [DOMAIN rules -> Seq(Rule)] /\ firewalls \in [DOMAIN firewalls -> Pointers]
    BY <2>1, <2>2
  <2>4. QED
    BY <2>1, <2>2, <2>3, SessionAssumption DEF NetworkInv
<1>5. QED
  BY <1>1, <1>2, <1>3, <1>4 DEF SessionInv

LEMMA SessionStep ==
    ASSUME SessionInv, [Next]_vars
    PROVE  SessionInv'
BY GuardStep, LiveStep, FramesStep, CommandStep, NetworkStep, PrefixStep DEF SessionInv

LEMMA SessionInvariant == Spec => []SessionInv
BY SessionInit, SessionStep, PTL DEF Spec

\* The current address is one of the network, every open script is inside its
\* file, no more are open than can be, and a load has read rows of its file
\* (clicontext.cpp, cli.cpp).
THEOREM TypeCorrect == Spec => []TypeOK
<1>1. SessionInv => TypeOK
  <2> SUFFICES ASSUME SessionInv PROVE TypeOK
    OBVIOUS
  <2>1. Running("load") /\ row >= 0 => row <= Len(Rows)
    BY DEF SessionInv, CommandInv, Loading
  <2>2. /\ scripts \in Seq([script : DOMAIN Scripts, next : Nat \ {0}])
        /\ \A i \in DOMAIN scripts : scripts[i].next <= Len(Scripts[scripts[i].script]) + 1
        /\ Len(scripts) <= MaxStreams
    BY DEF SessionInv, FramesOK, Frame
  <2>3. QED
    BY <2>1, <2>2 DEF SessionInv, GuardInv, CommandInv, NetworkInv, TypeOK, Phases
<1>2. QED
  BY <1>1, SessionInvariant, PTL

(***************************************************************************)
(* The firewalls are named policies: every step of the session is a step   *)
(* of NamedPolicies or changes no policy.                                  *)
(***************************************************************************)
PolicyOf == [name \in DOMAIN firewalls |-> rules[firewalls[name]]]

NameOf(map, pointer) ==
    IF pointer \in Range(map) THEN CHOOSE name \in DOMAIN map : map[name] = pointer ELSE ""

LEMMA NameOfPointer ==
    ASSUME NEW map, NEW pointer, pointer \in Range(map), IsInjective(map)
    PROVE  /\ NameOf(map, pointer) \in DOMAIN map
           /\ \A name \in DOMAIN map : map[name] = pointer <=> name = NameOf(map, pointer)
<1>1. \E name \in DOMAIN map : map[name] = pointer
  BY DEF Range
<1>2. NameOf(map, pointer) \in DOMAIN map /\ map[NameOf(map, pointer)] = pointer
  BY <1>1 DEF NameOf
<1>3. QED
  BY <1>2 DEF IsInjective

LEMMA ActiveIsCurrent ==
    ASSUME CurrentIsLive
    PROVE  /\ ActiveName \in DOMAIN firewalls
           /\ \A name \in DOMAIN firewalls : firewalls[name] = current <=> name = ActiveName
           /\ PolicyOf[ActiveName] = rules[current]
<1>1. ActiveName = NameOf(firewalls, current)
  BY DEF ActiveName, NameOf
<1>2. /\ ActiveName \in DOMAIN firewalls
      /\ \A name \in DOMAIN firewalls : firewalls[name] = current <=> name = ActiveName
  BY <1>1, NameOfPointer DEF CurrentIsLive
<1>3. QED
  BY <1>2 DEF PolicyOf

LEMMA ActiveIsCurrentNext ==
    ASSUME CurrentIsLive'
    PROVE  /\ ActiveName' \in DOMAIN firewalls'
           /\ \A name \in DOMAIN firewalls' : firewalls'[name] = current' <=> name = ActiveName'
<1>1. ActiveName' = NameOf(firewalls', current')
  BY DEF ActiveName, NameOf
<1>2. QED
  BY <1>1, NameOfPointer DEF CurrentIsLive

\* Only the rules of the current firewall change: only the active policy does.
LEMMA ActiveChanges ==
    ASSUME CurrentIsLive, NEW list,
           rules' = [rules EXCEPT ![current] = list], UNCHANGED <<firewalls, current>>
    PROVE  /\ PolicyOf' = [PolicyOf EXCEPT ![ActiveName] = list]
           /\ ActiveName' = ActiveName
<1>1. \A name \in DOMAIN firewalls :
          rules'[firewalls[name]] = IF name = ActiveName THEN list ELSE rules[firewalls[name]]
  BY ActiveIsCurrent DEF CurrentIsLive, Range
<1>2. PolicyOf' = [PolicyOf EXCEPT ![ActiveName] = list]
  BY <1>1, ActiveIsCurrent DEF PolicyOf
<1>3. ActiveName' = ActiveName
  BY DEF ActiveName
<1>4. QED
  BY <1>2, <1>3

LEMMA NetworkKept ==
    ASSUME UNCHANGED network
    PROVE  UNCHANGED <<PolicyOf, ActiveName>>
BY DEF network, PolicyOf, ActiveName

\* A new name at a new address: the other policies stay what they are.
LEMMA PolicyAdded ==
    ASSUME CurrentIsLive, NEW name, name \notin DOMAIN firewalls,
           NEW pointer, pointer \notin DOMAIN rules, NEW list, AddFirewall(name, pointer, list)
    PROVE  /\ PolicyOf' = [n \in DOMAIN PolicyOf \cup {name} |-> IF n = name THEN list ELSE PolicyOf[n]]
           /\ firewalls'[name] = pointer /\ name \in DOMAIN firewalls'
           /\ \A n \in DOMAIN firewalls : n \in DOMAIN firewalls' /\ firewalls'[n] = firewalls[n]
<1>1. /\ DOMAIN firewalls' = DOMAIN firewalls \cup {name}
      /\ firewalls'[name] = pointer
      /\ \A n \in DOMAIN firewalls : firewalls'[n] = firewalls[n]
  BY DEF AddFirewall, With
<1>2. rules'[pointer] = list /\ \A p \in DOMAIN rules : rules'[p] = rules[p]
  BY DEF AddFirewall, With, Restrict, Destroyed
<1>3. \A n \in DOMAIN firewalls : firewalls[n] \in DOMAIN rules
  BY DEF CurrentIsLive, Range
<1>4. \A n \in DOMAIN firewalls' :
          rules'[firewalls'[n]] = IF n = name THEN list ELSE rules[firewalls[n]]
  BY <1>1, <1>2, <1>3
<1>5. PolicyOf' = [n \in DOMAIN firewalls \cup {name} |->
                      IF n = name THEN list ELSE rules[firewalls[n]]]
  BY <1>1, <1>4 DEF PolicyOf
<1>6. QED
  BY <1>1, <1>5 DEF PolicyOf

LEMMA CreateImplements ==
    ASSUME SessionInv, CurrentIsLive', Create
    PROVE  [Policies!Next]_Policies!policyVars
<1>1. CASE UNCHANGED network
  BY <1>1, NetworkKept DEF Policies!policyVars, PolicyOf
<1>2. CASE command.name \notin DOMAIN firewalls
  <2>1. PICK pointer \in Pointers \ DOMAIN rules :
            AddFirewall(command.name, pointer, <<>>) /\ current' = pointer
    BY <1>2 DEF Create
  <2>2. /\ PolicyOf' = [n \in DOMAIN PolicyOf \cup {command.name} |-> IF n = command.name THEN <<>> ELSE PolicyOf[n]]
        /\ ActiveName' = command.name
    BY <1>2, <2>1, PolicyAdded, ActiveIsCurrentNext DEF SessionInv
  <2>3. command.name \in Names /\ command.name \notin DOMAIN PolicyOf
    BY <1>2, NewName DEF SessionInv, Create, PolicyOf
  <2>4. PICK name \in Names : name = command.name
    BY <2>3
  <2>5. Policies!Create(name)
    BY <2>2, <2>3, <2>4 DEF Policies!Create, Policies!With, PolicyOf
  <2>6. QED
    BY <2>5 DEF Policies!Next
<1>3. QED
  BY <1>1, <1>2 DEF Create

LEMMA CopyImplements ==
    ASSUME SessionInv, CurrentIsLive', Copy
    PROVE  [Policies!Next]_Policies!policyVars
<1>1. CASE UNCHANGED network
  BY <1>1, NetworkKept DEF Policies!policyVars, PolicyOf
<1>2. CASE command.name \notin DOMAIN firewalls
  <2>1. /\ current' = current
        /\ \E pointer \in Pointers \ DOMAIN rules : AddFirewall(command.name, pointer, rules[current])
    BY <1>2 DEF Copy
  <2>2. PICK pointer \in Pointers \ DOMAIN rules : AddFirewall(command.name, pointer, rules[current])
    BY <2>1
  <2>3. /\ PolicyOf' = [n \in DOMAIN PolicyOf \cup {command.name} |->
                           IF n = command.name THEN rules[current] ELSE PolicyOf[n]]
        /\ ActiveName' = ActiveName
    BY <1>2, <2>1, <2>2, PolicyAdded, ActiveIsCurrent, ActiveIsCurrentNext DEF SessionInv
  <2>4. PolicyOf[ActiveName] = rules[current]
    BY ActiveIsCurrent DEF SessionInv
  <2>5. command.name \in Names /\ command.name \notin DOMAIN PolicyOf
    BY <1>2, NewName DEF SessionInv, Copy, PolicyOf
  <2>6. PICK name \in Names : name = command.name
    BY <2>5
  <2>7. Policies!Copy(name)
    BY <2>3, <2>4, <2>5, <2>6 DEF Policies!Copy, Policies!With, PolicyOf
  <2>8. QED
    BY <2>7 DEF Policies!Next
<1>3. QED
  BY <1>1, <1>2 DEF Copy

LEMMA DeleteImplements ==
    ASSUME SessionInv, CurrentIsLive', Delete
    PROVE  [Policies!Next]_Policies!policyVars
<1>1. CASE UNCHANGED network
  BY <1>1, NetworkKept DEF Policies!policyVars, PolicyOf
<1>2. CASE /\ ~(command.name \notin DOMAIN firewalls \/ firewalls[command.name] = current)
           /\ firewalls' = Restrict(firewalls, DOMAIN firewalls \ {command.name})
           /\ rules' = Restrict(rules, DOMAIN rules \ Destroyed(command.name))
           /\ current' = current
  <2> DEFINE left == DOMAIN firewalls \ {command.name}
  <2>1. firewalls' = [n \in left |-> firewalls[n]] /\ command.name \in DOMAIN firewalls
    BY <1>2 DEF Restrict
  <2>2. /\ DOMAIN rules' = DOMAIN rules \ {firewalls[command.name]}
        /\ \A p \in DOMAIN rules' : rules'[p] = rules[p]
    BY <1>2, <2>1 DEF Restrict, Destroyed
  <2>3. \A n \in left : firewalls[n] \in DOMAIN rules /\ firewalls[n] # firewalls[command.name]
    BY <2>1 DEF SessionInv, CurrentIsLive, Range, IsInjective
  <2>4. \A n \in left : rules'[firewalls'[n]] = rules[firewalls[n]]
    BY <2>1, <2>2, <2>3
  <2>5. PolicyOf' = Restrict(PolicyOf, DOMAIN PolicyOf \ {command.name})
    BY <2>1, <2>4 DEF PolicyOf, Restrict
  <2>6. ActiveName' = ActiveName /\ command.name # ActiveName
    <3>1. ActiveName \in DOMAIN firewalls /\ firewalls[ActiveName] = current
      BY ActiveIsCurrent DEF SessionInv
    <3>2. ActiveName \in left /\ firewalls'[ActiveName] = current'
      BY <1>2, <2>1, <3>1
    <3>3. QED
      BY <2>1, <3>2, ActiveIsCurrentNext
  <2>7. command.name \in Names /\ command.name \in DOMAIN PolicyOf
    BY <2>1 DEF SessionInv, NetworkInv, PolicyOf
  <2>8. PICK name \in Names : name = command.name
    BY <2>7
  <2>9. Policies!Delete(name)
    BY <2>5, <2>6, <2>7, <2>8 DEF Policies!Delete, Policies!Restrict, Restrict, PolicyOf
  <2>10. QED
    BY <2>9 DEF Policies!Next
<1>3. QED
  BY <1>1, <1>2 DEF Delete

LEMMA SelectImplements ==
    ASSUME SessionInv, CurrentIsLive', Select
    PROVE  [Policies!Next]_Policies!policyVars
<1>1. CASE UNCHANGED network
  BY <1>1, NetworkKept DEF Policies!policyVars, PolicyOf
<1>2. CASE /\ command.name \in DOMAIN firewalls /\ current' = firewalls[command.name]
           /\ UNCHANGED <<firewalls, rules>>
  <2>1. ActiveName' = command.name
    BY <1>2, ActiveIsCurrentNext
  <2>2. PolicyOf' = PolicyOf /\ command.name \in DOMAIN PolicyOf
    BY <1>2 DEF PolicyOf
  <2>3. Policies!Select(command.name)
    BY <2>1, <2>2 DEF Policies!Select, PolicyOf
  <2>4. command.name \in Names
    BY <1>2 DEF SessionInv, NetworkInv
  <2>5. QED
    BY <2>3, <2>4 DEF Policies!Next
<1>3. QED
  BY <1>1, <1>2 DEF Select

\* Enabling a rule changes it and no other: no two rules have its id.
LEMMA StatusImplements ==
    ASSUME SessionInv, SetRuleStatus
    PROVE  [Policies!Next]_Policies!policyVars
<1>1. CASE \A i \in DOMAIN rules[current] : rules[current][i].id # command.id
  BY <1>1, NetworkKept DEF SetRuleStatus, Policies!policyVars, PolicyOf
<1>2. CASE \E i \in DOMAIN rules[current] : rules[current][i].id = command.id
  <2> DEFINE old == rules[current]
             status == command.op = "enable"
             list == WithStatus(old, command.id, status)
  <2>1. PICK k \in DOMAIN old : old[k].id = command.id
    BY <1>2
  <2>2. rules' = [rules EXCEPT ![current] = list] /\ UNCHANGED <<firewalls, current>>
    BY <1>2 DEF SetRuleStatus
  <2>3. \A i \in DOMAIN old : old[i].id = command.id <=> i = k
    BY <2>1 DEF SessionInv, NetworkInv, CurrentIsLive, DistinctIds
  <2>4. \A i \in DOMAIN old :
            (IF old[i].id = command.id THEN [old[i] EXCEPT !.enabled = status] ELSE old[i]) =
            (IF i = k THEN [old[k] EXCEPT !.enabled = status] ELSE old[i])
    BY <2>3
  <2>5. list = [i \in DOMAIN old |-> IF i = k THEN [old[k] EXCEPT !.enabled = status] ELSE old[i]]
    BY <2>4 DEF WithStatus
  <2>6. old \in Seq(Rule)
    BY DEF SessionInv, NetworkInv, CurrentIsLive
  <2>7. list = [old EXCEPT ![k] = Policies!Changed(@, status)]
    BY <2>5, <2>6 DEF Policies!Changed
  <2>8. PolicyOf' = [PolicyOf EXCEPT ![ActiveName] = list] /\ ActiveName' = ActiveName
    BY <2>2, ActiveChanges DEF SessionInv
  <2>9. PolicyOf[ActiveName] = old
    BY ActiveIsCurrent DEF SessionInv
  <2>10. PolicyOf' = [PolicyOf EXCEPT ![ActiveName][k] = Policies!Changed(@, status)]
    BY <2>7, <2>8, <2>9
  <2>11. Policies!SetStatus
    BY <2>1, <2>8, <2>9, <2>10 DEF Policies!SetStatus, PolicyOf
  <2>12. QED
    BY <2>11 DEF Policies!Next
<1>3. QED
  BY <1>1, <1>2

LEMMA LoadImplements ==
    ASSUME SessionInv, StartLoad \/ LoadFails \/ LoadRow
    PROVE  [Policies!Next]_Policies!policyVars
<1>1. CASE StartLoad \/ LoadFails
  <2>1. rules' = [rules EXCEPT ![current] = <<>>] /\ UNCHANGED <<firewalls, current>>
    BY <1>1 DEF StartLoad, LoadFails, Cleared
  <2>2. PolicyOf' = [PolicyOf EXCEPT ![ActiveName] = <<>>] /\ ActiveName' = ActiveName
    BY <2>1, ActiveChanges DEF SessionInv
  <2>3. Policies!Clear
    BY <2>2 DEF Policies!Clear, PolicyOf
  <2>4. QED
    BY <2>3 DEF Policies!Next
<1>2. CASE LoadRow
  <2> DEFINE n == row + 1
  <2>1. /\ rules' = [rules EXCEPT ![current] = SubSeq(Rows, 1, n)]
        /\ UNCHANGED <<firewalls, current>>
    BY <1>2, NextRow DEF SessionInv, LoadRow
  <2>2. /\ PolicyOf' = [PolicyOf EXCEPT ![ActiveName] = SubSeq(Rows, 1, n)]
        /\ ActiveName' = ActiveName
    BY <2>1, ActiveChanges DEF SessionInv
  <2>3. row \in Nat /\ n \in DOMAIN Rows /\ Rows \in Range(Files)
    BY <1>2, NextRow DEF SessionInv, Rows, Range
  <2>4. PolicyOf[ActiveName] = SubSeq(Rows, 1, n - 1)
    <3>1. rules[current] = SubSeq(Rows, 1, row)
      BY <1>2 DEF SessionInv, PrefixLoaded, Loading, LoadRow
    <3>2. n - 1 = row
      BY <2>3
    <3>3. QED
      BY <3>1, <3>2, ActiveIsCurrent DEF SessionInv
  <2>5. Policies!Grow
    BY <2>2, <2>3, <2>4 DEF Policies!Grow, PolicyOf
  <2>6. QED
    BY <2>5 DEF Policies!Next
<1>3. QED
  BY <1>1, <1>2

\* Every command of the session, done, failed or interrupted after any of its
\* steps, does to the firewalls what NamedPolicies allows (clinetwork.cpp,
\* network.cpp and the commands on rules).
THEOREM SessionRefinement == Spec => ImplementsPolicies
<1>1. Init => Policies!Init
  <2> SUFFICES ASSUME Init PROVE Policies!Init
    OBVIOUS
  <2>1. PICK pointer \in Pointers : /\ firewalls = [name \in {"default"} |-> pointer]
                                   /\ rules = [p \in {pointer} |-> <<>>]
                                   /\ current = pointer
    BY DEF Init
  <2>2. PolicyOf = [name \in {"default"} |-> <<>>]
    BY <2>1 DEF PolicyOf
  <2>3. ActiveName = "default"
    BY <2>1, LiveInit, ActiveIsCurrent
  <2>4. QED
    BY <2>2, <2>3 DEF Policies!Init, PolicyOf
<1>2. SessionInv /\ SessionInv' /\ [Next]_vars => [Policies!Next]_Policies!policyVars
  <2> SUFFICES ASSUME SessionInv, CurrentIsLive', [Next]_vars
               PROVE  [Policies!Next]_Policies!policyVars
    BY DEF SessionInv
  <2>1. CASE TypeLine \/ Quit \/ CtrlC \/ ReadScript \/ EndScript \/ Enable \/ UnknownCommand
             \/ FileNotFound \/ EndLoad \/ CheckRule \/ EndCheck \/ Interrupt \/ UNCHANGED vars
    <3>1. UNCHANGED network
      BY <2>1 DEF TypeLine, Quit, CtrlC, ReadScript, EndScript, Enable, UnknownCommand, FileNotFound,
         EndLoad, CheckRule, EndCheck, Interrupt, Execute, OpenScript, MakeGuard, network, vars
    <3>2. QED
      BY <3>1, NetworkKept DEF Policies!policyVars, PolicyOf
  <2>2. QED
    BY <2>1, CreateImplements, CopyImplements, DeleteImplements, SelectImplements,
       StatusImplements, LoadImplements DEF Next, Proceed
<1>3. QED
  BY <1>1, <1>2, SessionInvariant, PTL DEF Spec, ImplementsPolicies, Policies!Spec
=============================================================================
