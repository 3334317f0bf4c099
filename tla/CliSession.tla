----------------------------- MODULE CliSession -----------------------------
(***************************************************************************)
(* The command line session: the interactive loop, the scripts it runs,    *)
(* the Ctrl+C guard of a command, and the commands that create, copy,      *)
(* delete, select, load and check the firewalls of the network, and enable *)
(* or disable one of their rules.                                          *)
(*                                                                         *)
(* Ctrl+C arrives between any two steps: a signal handler sets a flag, the *)
(* guard resets and enables it, and the loops of the commands poll it.     *)
(***************************************************************************)
EXTENDS Integers, Sequences, SequencesExt, Functions

CONSTANTS
    Names,          \* names of firewalls
    Pointers,       \* addresses of Firewall objects
    Files,          \* name of a file of rules |-> its rows
    Unreadable,     \* files that exist and cannot be opened
    Scripts,        \* name of a script |-> its commands
    Commands,       \* the commands typed at the prompt or found in a script
    MaxStreams      \* bound: scripts that can be open at the same time

Rule == [id : Nat, enabled : BOOLEAN]

\* No file repeats an id; a firewall is created or copied under one of the names.
ASSUME SessionAssumption ==
    /\ "default" \in Names
    /\ MaxStreams \in Nat
    /\ \A file \in DOMAIN Files :
          /\ Files[file] \in Seq(Rule)
          /\ IsInjective([i \in DOMAIN Files[file] |-> Files[file][i].id])
    /\ \A script \in DOMAIN Scripts : Scripts[script] \in Seq(Commands)
    /\ \A line \in Commands : line.op \in {"create", "copy"} => line.name \in Names

VARIABLES
    firewalls,      \* Network::_firewalls: name |-> address
    rules,          \* the rules of the firewall at each allocated address
    current,        \* CliContext::_current_firewall
    scripts,        \* the streams being read, the innermost last
    phase,          \* "idle": reads a line, "enabling": in the constructor of
                    \* the guard, "running": in do_execute, "ended": quit
    command,        \* the command of the guard
    row,            \* rows read by a load, rules seen by a check; -1: not begun
    enabled,        \* CliCtrlcHandler::_enabled
    interrupted,    \* the flag of the signal handler
    asked           \* history: Ctrl+C arrived under the guard of this command

vars == <<firewalls, rules, current, scripts, phase, command, row, enabled,
          interrupted, asked>>
network == <<firewalls, rules, current>>
guard == <<command, row, enabled, interrupted, asked>>

Running(op) == phase = "running" /\ command.op = op

(***************************************************************************)
(* Reading the lines.                                                      *)
(***************************************************************************)
NoCommand == [op |-> "none", name |-> "", id |-> 0]
ScriptFrame(script) == [script |-> script, next |-> 1]
AtEnd(frame) == frame.next > Len(Scripts[frame.script])
Advanced == [scripts EXCEPT ![Len(scripts)].next = @ + 1]

\* Variants with a mistake, as in AnomalyAnalyzer.
\* The flag of an earlier Ctrl+C is kept.
BugMakeGuard(line, remaining) ==
    /\ command' = line /\ row' = -1 /\ asked' = FALSE
    /\ IF enabled THEN scripts' = <<>> /\ phase' = "idle"
                  ELSE scripts' = remaining /\ phase' = "enabling"
    /\ UNCHANGED <<network, enabled, interrupted>>

\* A guard that finds the handler enabled throws.
MakeGuard(line, remaining) ==
    /\ command' = line /\ row' = -1 /\ asked' = FALSE
    /\ IF enabled
       THEN scripts' = <<>> /\ phase' = "idle" /\ UNCHANGED interrupted
       ELSE scripts' = remaining /\ phase' = "enabling" /\ interrupted' = FALSE
    /\ UNCHANGED <<network, enabled>>

\* A stream that could not be opened is read.
BugOpenScript(script, remaining) ==
    /\ scripts' = Append(remaining, ScriptFrame(script))
    /\ UNCHANGED <<network, phase, guard>>

\* exec opens the stream of the script, or says that it can not.
OpenScript(script, remaining) ==
    /\ scripts' = IF script \in DOMAIN Scripts /\ Len(remaining) < MaxStreams
                  THEN Append(remaining, ScriptFrame(script))
                  ELSE remaining
    /\ UNCHANGED <<network, phase, guard>>

Execute(line, remaining) ==
    IF line.op = "exec" THEN OpenScript(line.name, remaining)
                        ELSE MakeGuard(line, remaining)

TypeLine ==
    /\ phase = "idle" /\ scripts = <<>>
    /\ \E line \in Commands : line.op # "quit" /\ Execute(line, <<>>)

Quit ==
    /\ phase = "idle" /\ scripts = <<>>
    /\ \E line \in Commands : line.op = "quit"
    /\ phase' = "ended"
    /\ UNCHANGED <<network, scripts, guard>>

ReadScript ==
    /\ phase = "idle" /\ scripts # <<>>
    /\ LET frame == Last(scripts) IN
          ~AtEnd(frame) /\ Execute(Scripts[frame.script][frame.next], Advanced)

\* The end of the file is handled as at the prompt: clear the stream, continue.
BugEndScript ==
    /\ phase = "idle" /\ scripts # <<>> /\ AtEnd(Last(scripts))
    /\ UNCHANGED vars

EndScript ==
    /\ phase = "idle" /\ scripts # <<>> /\ AtEnd(Last(scripts))
    /\ scripts' = Front(scripts)
    /\ UNCHANGED <<network, phase, guard>>

(***************************************************************************)
(* The guard of a command.                                                 *)
(***************************************************************************)
Enable ==
    /\ phase = "enabling"
    /\ enabled' = TRUE
    /\ phase' = "running"
    /\ UNCHANGED <<network, scripts, command, row, interrupted, asked>>

CtrlC ==
    /\ phase # "ended"
    /\ interrupted' = TRUE
    /\ asked' = (phase # "idle")
    /\ UNCHANGED <<network, scripts, phase, command, row, enabled>>

IsInterrupted == enabled /\ interrupted

Release ==
    /\ phase' = "idle"
    /\ command' = NoCommand /\ row' = -1
    /\ enabled' = FALSE /\ asked' = FALSE
    /\ UNCHANGED interrupted

\* The command returns, or a word of it is unknown: "syntax error."
Return == Release /\ UNCHANGED scripts

\* An exception goes through every script up to the prompt.
Throw == Release /\ scripts' = <<>>

(***************************************************************************)
(* Commands that never poll the flag.                                      *)
(***************************************************************************)
Destroyed(name) == IF name \in DOMAIN firewalls THEN {firewalls[name]} ELSE {}

With(f, key, value) == [k \in DOMAIN f \cup {key} |-> IF k = key THEN value ELSE f[k]]

\* Network::add: a firewall of that name is destroyed.
AddFirewall(name, pointer, list) ==
    /\ firewalls' = With(firewalls, name, pointer)
    /\ rules' = With(Restrict(rules, DOMAIN rules \ Destroyed(name)), pointer, list)

Create ==
    /\ Running("create")
    /\ LET name == command.name IN
          IF name \in DOMAIN firewalls
          THEN Throw /\ UNCHANGED network
          ELSE /\ \E pointer \in Pointers \ DOMAIN rules :
                     AddFirewall(name, pointer, <<>>) /\ current' = pointer
               /\ Return

\* The name is not looked up: the firewall that has it is replaced.
BugCopy ==
    /\ Running("copy")
    /\ \E pointer \in Pointers \ DOMAIN rules :
          AddFirewall(command.name, pointer, rules[current])
    /\ Return
    /\ UNCHANGED current

Copy ==
    /\ Running("copy")
    /\ IF command.name \in DOMAIN firewalls
       THEN Throw /\ UNCHANGED network
       ELSE /\ \E pointer \in Pointers \ DOMAIN rules :
                  AddFirewall(command.name, pointer, rules[current])
            /\ Return
            /\ UNCHANGED current

Delete ==
    /\ Running("delete")
    /\ LET name == command.name IN
          IF name \notin DOMAIN firewalls \/ firewalls[name] = current
          THEN Throw /\ UNCHANGED network
          ELSE /\ firewalls' = Restrict(firewalls, DOMAIN firewalls \ {name})
               /\ rules' = Restrict(rules, DOMAIN rules \ Destroyed(name))
               /\ Return
               /\ UNCHANGED current

Select ==
    /\ Running("select")
    /\ IF command.name \notin DOMAIN firewalls
       THEN Throw /\ UNCHANGED network
       ELSE Return /\ current' = firewalls[command.name] /\ UNCHANGED <<firewalls, rules>>

WithStatus(list, id, status) ==
    [i \in DOMAIN list |-> IF list[i].id = id THEN [list[i] EXCEPT !.enabled = status] ELSE list[i]]

\* enable rule, disable rule.
SetRuleStatus ==
    /\ Running("enable") \/ Running("disable")
    /\ IF \A i \in DOMAIN rules[current] : rules[current][i].id # command.id
       THEN Throw /\ UNCHANGED network
       ELSE /\ rules' = [rules EXCEPT ![current] = WithStatus(@, command.id, command.op = "enable")]
            /\ Return
            /\ UNCHANGED <<firewalls, current>>

UnknownCommand ==
    /\ Running("unknown") \/ Running("quit")    \* quit is a word of the prompt only
    /\ Return
    /\ UNCHANGED network

(***************************************************************************)
(* Loading rules and checking them: the flag is polled.                    *)
(***************************************************************************)
Rows == Files[command.name]
Cleared == [rules EXCEPT ![current] = <<>>]

\* The rules of an earlier load are kept.
BugStartLoad ==
    /\ Running("load") /\ row = -1
    /\ command.name \in DOMAIN Files
    /\ row' = 0
    /\ UNCHANGED <<network, scripts, phase, command, enabled, interrupted, asked>>

StartLoad ==
    /\ Running("load") /\ row = -1
    /\ command.name \in DOMAIN Files
    /\ rules' = Cleared
    /\ row' = 0
    /\ UNCHANGED <<firewalls, current, scripts, phase, command, enabled, interrupted, asked>>

\* The rules are cleared before the file is opened.
LoadFails ==
    /\ Running("load") /\ row = -1
    /\ command.name \in Unreadable
    /\ rules' = Cleared
    /\ Throw
    /\ UNCHANGED <<firewalls, current>>

FileNotFound ==
    /\ Running("load") /\ row = -1
    /\ command.name \notin DOMAIN Files \cup Unreadable
    /\ Return
    /\ UNCHANGED network

LoadRow ==
    /\ Running("load") /\ row >= 0 /\ ~IsInterrupted
    /\ row < Len(Rows)
    /\ rules' = [rules EXCEPT ![current] = Append(@, Rows[row + 1])]
    /\ row' = row + 1
    /\ UNCHANGED <<firewalls, current, scripts, phase, command, enabled, interrupted, asked>>

EndLoad ==
    /\ Running("load") /\ row >= 0 /\ ~IsInterrupted
    /\ row = Len(Rows)
    /\ Return
    /\ UNCHANGED network

\* Firewall::acl: a check looks at the enabled rules of the current firewall,
\* one by one.
Acl == SelectSeq(rules[current], LAMBDA rule : rule.enabled)

CheckRule ==
    /\ Running("check") /\ ~IsInterrupted
    /\ row + 1 < Len(Acl)
    /\ row' = row + 1
    /\ UNCHANGED <<network, scripts, phase, command, enabled, interrupted, asked>>

\* The table of the result polls the flag after each of its lines.  There is
\* none for an empty list, there may be nothing to report, and a file of comma
\* separated values is written without a poll: a check can also end unpolled.
PrintsTable == Running("check") /\ Acl # <<>> /\ row + 1 = Len(Acl)

EndCheck ==
    /\ Running("check")
    /\ row + 1 = Len(Acl)
    /\ Return
    /\ UNCHANGED network

Interrupt ==
    /\ IsInterrupted
    /\ \/ Running("load") /\ row >= 0
       \/ Running("check") /\ row + 1 < Len(Acl)
       \/ PrintsTable
    /\ Throw
    /\ UNCHANGED network

(***************************************************************************)
(* The session.                                                            *)
(***************************************************************************)
Init ==
    /\ \E pointer \in Pointers :
          /\ firewalls = [name \in {"default"} |-> pointer]
          /\ rules = [p \in {pointer} |-> <<>>]
          /\ current = pointer
    /\ scripts = <<>>
    /\ phase = "idle"
    /\ command = NoCommand
    /\ row = -1
    /\ enabled = FALSE /\ interrupted = FALSE /\ asked = FALSE

\* What the program does by itself, once a line has been typed.
Proceed ==
    \/ ReadScript \/ EndScript \/ Enable
    \/ Create \/ Copy \/ Delete \/ Select \/ SetRuleStatus
    \/ UnknownCommand
    \/ StartLoad \/ LoadFails \/ FileNotFound \/ LoadRow \/ EndLoad
    \/ CheckRule \/ EndCheck \/ Interrupt

Next == TypeLine \/ Quit \/ CtrlC \/ Proceed

\* The one thread of the program is never held up but by the prompt.
Spec == Init /\ [][Next]_vars /\ WF_vars(Proceed)

TypeOK ==
    /\ DOMAIN firewalls \subseteq Names
    /\ firewalls \in [DOMAIN firewalls -> Pointers]
    /\ DOMAIN rules \subseteq Pointers
    /\ rules \in [DOMAIN rules -> Seq(Rule)]
    /\ current \in Pointers
    /\ scripts \in Seq([script : DOMAIN Scripts, next : Nat \ {0}])
    /\ \A i \in DOMAIN scripts : scripts[i].next <= Len(Scripts[scripts[i].script]) + 1
    /\ Len(scripts) <= MaxStreams
    /\ phase \in {"idle", "enabling", "running", "ended"}
    /\ command \in Commands \cup {NoCommand}
    /\ row \in Nat \cup {-1}
    /\ Running("load") /\ row >= 0 => row <= Len(Rows)
    /\ enabled \in BOOLEAN /\ interrupted \in BOOLEAN /\ asked \in BOOLEAN

(***************************************************************************)
(* Properties.                                                             *)
(***************************************************************************)

\* The current firewall is alive, whatever is created over it, copied or
\* deleted, and the firewalls of the network are the allocated ones
\* (clicontext.cpp keeps an address next to the network that owns it).
CurrentIsLive ==
    /\ current \in Range(firewalls)
    /\ Range(firewalls) = DOMAIN rules
    /\ IsInjective(firewalls)

\* A command is stopped by a Ctrl+C typed since it has begun, and by no other:
\* neither one typed at the prompt, between the lines of a script or in an
\* earlier command, nor one that a previous failure left behind.
CtrlCIsForThisCommand ==
    phase = "running" => (IsInterrupted <=> asked)

\* The firewalls are policies under distinct names: whatever fails or is
\* interrupted, only the active policy changes, and it does so by one step of
\* NamedPolicies: a load begins with an empty policy and takes the rows in
\* order, a copy has nothing in common with its original any more.
ActiveName ==
    IF current \in Range(firewalls)
    THEN CHOOSE name \in DOMAIN firewalls : firewalls[name] = current
    ELSE ""

Policies == INSTANCE NamedPolicies WITH
    Contents <- Range(Files),
    policies <- [name \in DOMAIN firewalls |-> rules[firewalls[name]]],
    active <- ActiveName

ImplementsPolicies == Policies!Spec

\* Whatever is typed, the program comes back to the prompt: scripts that call
\* themselves end when no more files can be opened.
PromptReturns == phase # "ended" ~> phase = "idle" /\ scripts = <<>>
=============================================================================
