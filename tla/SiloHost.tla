-------------------------------- MODULE SiloHost --------------------------------
(***************************************************************************)
(* The console program OrleansHost: Main, the application domain that it   *)
(* creates for the silo, and the wrapper in it.                            *)
(*                                                                         *)
(* A word of the command line is a switch ("-..." or "/..."), a setting    *)
(* (with a "=" in it) or plain.  Of a setting "a=b=c" the code sees a and  *)
(* b.  Orleans' own SiloHost is external: it may fail to load its          *)
(* configuration, to initialize and to start.                              *)
(***************************************************************************)
EXTENDS Naturals, Sequences

CONSTANTS
    Plains,         \* plain words
    Values,         \* what a setting sets, never empty
    MaxWords,       \* bound: words of the command line
    None            \* no value, the machine's name, no host

ASSUME WordsAssumption ==
    /\ None \notin Plains \cup Values
    /\ "" \notin Values
    /\ MaxWords \in Nat

Words == [kind : {"switch"}, text : {"help", "debug"}]
    \cup [kind : {"setting"}, key : {"deploymentid", "other"}, value : Values \cup {""}]
    \cup [kind : {"plain"}, text : Plains]

VARIABLES
    args,           \* the command line
    i,              \* the next word of it
    parsed,         \* the local variables of ParseArguments; ok: it has not returned false
    pc,             \* where Main stands
    host,           \* siloHost, or None
    silo            \* "down" or "running"

vars == <<args, i, parsed, pc, host, silo>>

Defaults == [ok |-> TRUE, argPos |-> 1, siloName |-> None,
             configFileName |-> "OrleansConfiguration.xml", deploymentId |-> None]

Init ==
    /\ args \in UNION {[1..n -> Words] : n \in 0..MaxWords}
    /\ i = 1
    /\ parsed = Defaults
    /\ pc = "ParseArguments"
    /\ host = None
    /\ silo = "down"

(***************************************************************************)
(* ParseArguments.                                                         *)
(***************************************************************************)

Refused == [parsed EXCEPT !.ok = FALSE]

Setting(word) ==
    IF word.value # "" /\ word.key = "deploymentid"
      THEN [parsed EXCEPT !.deploymentId = word.value]
      ELSE Refused

\* Mutant: a third plain word is the configuration file, too.
PositionalLoose(word) ==
    IF parsed.argPos = 1
      THEN [parsed EXCEPT !.siloName = word.text, !.argPos = 2]
      ELSE [parsed EXCEPT !.configFileName = word.text, !.argPos = 3]

\* The unqualified arguments, of which there are two at most.
Positional(word) ==
    CASE parsed.argPos = 1 -> [parsed EXCEPT !.siloName = word.text, !.argPos = 2]
      [] parsed.argPos = 2 -> [parsed EXCEPT !.configFileName = word.text, !.argPos = 3]
      [] parsed.argPos = 3 -> Refused

\* One turn of the loop, unless it has returned.
ParseArguments ==
    /\ pc = "ParseArguments"
    /\ parsed.ok /\ i <= Len(args)
    /\ parsed' = CASE args[i].kind = "switch"  -> Refused
                   [] args[i].kind = "setting" -> Setting(args[i])
                   [] args[i].kind = "plain"   -> Positional(args[i])
    /\ i' = i + 1
    /\ UNCHANGED <<args, pc, host, silo>>

ArgumentsParsed == pc = "ParseArguments" /\ (i > Len(args) \/ ~parsed.ok)

NewHost == [siloName |-> parsed.siloName, configFileName |-> parsed.configFileName,
            deploymentId |-> parsed.deploymentId]

(***************************************************************************)
(* Main.                                                                   *)
(***************************************************************************)

\* Mutant: the host is made of what was parsed, accepted or not.
CreateAnyDomain ==
    /\ ArgumentsParsed
    /\ host' = NewHost
    /\ pc' = "Run"
    /\ UNCHANGED <<args, i, parsed, silo>>

\* The constructor of the wrapper, in the new domain.  Nobody looks at the result of
\* ParseArguments: after bad arguments Init meets no host, and its exception ends
\* CreateDomain, as that of a configuration that cannot be loaded does.
CreateDomain ==
    /\ ArgumentsParsed
    /\ host' = IF parsed.ok THEN NewHost ELSE None
    /\ \/ parsed.ok /\ pc' = "Run"
       \/ pc' = "died"
    /\ UNCHANGED <<args, i, parsed, silo>>

\* A start that fails is reported, and Main goes on.
Run ==
    /\ pc = "Run"
    /\ silo' \in {"running", "down"}
    /\ pc' = "ReadLine"
    /\ UNCHANGED <<args, i, parsed, host>>

\* The key is pressed: the host is disposed of, without having been stopped.
ShutdownSilo ==
    /\ pc = "ReadLine"
    /\ pc' = IF host = None THEN "died" ELSE "exited"
    /\ silo' = "down"
    /\ host' = None
    /\ UNCHANGED <<args, i, parsed>>

Next == ParseArguments \/ CreateDomain \/ Run \/ ShutdownSilo

Spec == Init /\ [][Next]_vars

(***************************************************************************)
(* Properties.                                                             *)
(***************************************************************************)

Hosts == [siloName : Plains \cup {None},
          configFileName : Plains \cup {Defaults.configFileName},
          deploymentId : Values \cup {None}]

Locals == [ok : BOOLEAN, argPos : 1..3, siloName : Plains \cup {None},
           configFileName : Plains \cup {Defaults.configFileName},
           deploymentId : Values \cup {None}]

\* Every variable keeps its type.
TypeOK ==
    /\ args \in Seq(Words)
    /\ i \in 1..(Len(args) + 1)
    /\ parsed \in Locals
    /\ pc \in {"ParseArguments", "Run", "ReadLine", "exited", "died"}
    /\ host \in Hosts \cup {None}
    /\ silo \in {"down", "running"}

\* Where the first n words are of a kind.
Places(words, kind, n) == {p \in 1..n : words[p].kind = kind}

\* What the first n words may be, said of them in any order.
AcceptedUpTo(words, n) ==
    LET plain == Places(words, "plain", n)
    IN  /\ Places(words, "switch", n) = {}
        /\ \A p \in Places(words, "setting", n) :
              words[p].key = "deploymentid" /\ words[p].value # ""
        /\ \A p, q, r \in plain : p = q \/ q = r \/ p = r

\* The first plain word is the name of the silo.
NamedUpTo(words, n, name) ==
    LET plain == Places(words, "plain", n)
    IN  IF plain = {} THEN name = None
        ELSE \E p \in plain : (\A q \in plain : p <= q) /\ name = words[p].text

\* The second plain word is the configuration file.
FiledUpTo(words, n, file) ==
    LET plain == Places(words, "plain", n)
    IN  IF \A p, q \in plain : p = q THEN file = Defaults.configFileName
        ELSE \E p, q \in plain : p < q /\ file = words[q].text

\* The last deployment id counts.
IdUpTo(words, n, id) ==
    LET ids == Places(words, "setting", n)
    IN  IF ids = {} THEN id = None
        ELSE \E p \in ids : (\A q \in ids : q <= p) /\ id = words[p].value

DeclaredUpTo(words, n, h) ==
    /\ NamedUpTo(words, n, h.siloName)
    /\ FiledUpTo(words, n, h.configFileName)
    /\ IdUpTo(words, n, h.deploymentId)

Accepted == AcceptedUpTo(args, Len(args))

\* A host is made only of words that are all accepted, and is what they declare,
\* wherever they stand.
HostAsDeclared == host # None => Accepted /\ DeclaredUpTo(args, Len(args), host)

\* Although nobody looks at the result of ParseArguments, no silo runs on arguments
\* that it refused.
RejectedNeverRuns == silo = "running" => Accepted

===============================================================================
