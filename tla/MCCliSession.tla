---------------------------- MODULE MCCliSession ----------------------------
(***************************************************************************)
(* Two firewalls besides the default one, two files of rules, one that can *)
(* not be opened, a script that fails half way and one that calls itself.  *)
(***************************************************************************)
EXTENDS CliSession

MCNames == {"default", "a", "b"}
MCPointers == 1..3

Command(op, name) == [op |-> op, name |-> name, id |-> 0]
RuleCommand(op, id) == [op |-> op, name |-> "", id |-> id]

Enabled(id) == [id |-> id, enabled |-> TRUE]

MCFiles == [short |-> <<Enabled(1)>>, long |-> <<Enabled(1), Enabled(2)>>]
MCUnreadable == {"locked"}

MCScripts ==
    [setup |-> <<Command("create", "a"), Command("load", "long"), Command("copy", "b")>>,
     again |-> <<Command("exec", "again"), Command("check", "")>>]

MCCommands ==
    {Command(op, name) : op \in {"create", "copy", "delete", "select"}, name \in MCNames}
    \cup {Command("load", file) : file \in {"short", "long", "locked", "missing"}}
    \cup {Command("exec", script) : script \in {"setup", "again", "missing"}}
    \cup {RuleCommand("enable", 2), RuleCommand("disable", 2)}
    \cup {Command("check", ""), Command("unknown", ""), Command("quit", "")}
=============================================================================
