---------------------------- MODULE SiloHost_proofs ----------------------------
(***************************************************************************)
(* Proofs about the silo host: for command lines of any length, over any   *)
(* plain words and values.                                                 *)
(***************************************************************************)
EXTENDS SiloHost, SequenceTheorems, TLAPS

\* What the loop has made of the words before i, as long as it has refused none.
SoFar(words, n, locals) ==
    /\ AcceptedUpTo(words, n)
    /\ DeclaredUpTo(words, n, locals)
    /\ locals.argPos = 1 <=> Places(words, "plain", n) = {}
    /\ locals.argPos = 3 <=> \E p, q \in Places(words, "plain", n) : p < q

WordsSoFar == parsed.ok => SoFar(args, i - 1, parsed)

\* A host is what the loop made of all words, and a silo runs only in a domain that has
\* one; nothing but the exception of Init keeps refused words from that.
HostOfAllWords ==
    /\ pc = "ParseArguments" => host = None
    /\ pc = "Run" \/ host # None \/ silo = "running" => parsed.ok /\ i > Len(args)
    /\ host # None => host = NewHost

IInv == TypeOK /\ WordsSoFar /\ HostOfAllWords

LEMMA IInvInit == Init => IInv
<1> SUFFICES ASSUME Init PROVE IInv
  OBVIOUS
<1>1. args \in Seq(Words)
  <2>1. PICK n \in 0..MaxWords : args \in [1..n -> Words]
    BY DEF Init
  <2>2. n \in Nat
    <3>1. MaxWords \in Nat
      BY WordsAssumption
    <3> QED BY <3>1
  <2>3. args \in UNION {[1..m -> Words] : m \in Nat}
    BY <2>1, <2>2, Zenon
  <2> QED BY <2>3, SeqDef, Zenon
<1>2. Len(args) \in Nat /\ i = 1 /\ parsed = Defaults
  BY <1>1 DEF Init
<1>3. TypeOK
  <2>1. parsed \in Locals
    BY <1>2 DEF Locals, Defaults
  <2> QED BY <1>1, <1>2, <2>1 DEF Init, TypeOK
<1>4. WordsSoFar
  <2>1. \A kind : Places(args, kind, i - 1) = {}
    BY <1>2 DEF Places
  <2>2. AcceptedUpTo(args, i - 1)
    BY <2>1 DEF AcceptedUpTo
  <2>3. /\ parsed.siloName = None /\ parsed.configFileName = Defaults.configFileName
        /\ parsed.deploymentId = None /\ parsed.argPos = 1
    BY <1>2 DEF Defaults
  <2>4. DeclaredUpTo(args, i - 1, parsed)
    BY <2>1, <2>3 DEF DeclaredUpTo, NamedUpTo, FiledUpTo, IdUpTo
  <2> QED BY <2>1, <2>2, <2>3, <2>4 DEF WordsSoFar, SoFar
<1>5. HostOfAllWords
  BY DEF Init, HostOfAllWords
<1> QED BY <1>3, <1>4, <1>5 DEF IInv

\* One more word.
LEMMA OneMorePlace ==
    ASSUME NEW words, NEW kind, NEW n \in Nat \ {0}
    PROVE  /\ words[n].kind = kind => Places(words, kind, n) = Places(words, kind, n - 1) \cup {n}
           /\ words[n].kind # kind => Places(words, kind, n) = Places(words, kind, n - 1)
           /\ \A p \in Places(words, kind, n - 1) : p \in Nat /\ p < n
<1>1. 1..n = (1..(n - 1)) \cup {n}
  OBVIOUS
<1>2. \A p \in 1..(n - 1) : p \in Nat /\ p < n
  OBVIOUS
<1> QED BY <1>1, <1>2 DEF Places

LEMMA SettingPlaces ==
    ASSUME NEW words, NEW n \in Nat \ {0}, words[n].kind = "setting"
    PROVE  /\ Places(words, "switch", n) = Places(words, "switch", n - 1)
           /\ Places(words, "plain", n) = Places(words, "plain", n - 1)
           /\ Places(words, "setting", n) = Places(words, "setting", n - 1) \cup {n}
           /\ \A p \in Places(words, "setting", n - 1) : p \in Nat /\ p < n
           /\ \A p \in Places(words, "setting", n) : p <= n
<1>1. Places(words, "switch", n) = Places(words, "switch", n - 1)
  BY OneMorePlace
<1>2. Places(words, "plain", n) = Places(words, "plain", n - 1)
  BY OneMorePlace
<1>3. /\ Places(words, "setting", n) = Places(words, "setting", n - 1) \cup {n}
      /\ \A p \in Places(words, "setting", n - 1) : p \in Nat /\ p < n
  BY OneMorePlace
<1> QED BY <1>1, <1>2, <1>3

LEMMA PlainPlaces ==
    ASSUME NEW words, NEW n \in Nat \ {0}, words[n].kind = "plain"
    PROVE  /\ Places(words, "switch", n) = Places(words, "switch", n - 1)
           /\ Places(words, "setting", n) = Places(words, "setting", n - 1)
           /\ Places(words, "plain", n) = Places(words, "plain", n - 1) \cup {n}
           /\ \A p \in Places(words, "plain", n - 1) : p \in Nat /\ p < n
<1>1. Places(words, "switch", n) = Places(words, "switch", n - 1)
  BY OneMorePlace
<1>2. Places(words, "setting", n) = Places(words, "setting", n - 1)
  BY OneMorePlace
<1>3. /\ Places(words, "plain", n) = Places(words, "plain", n - 1) \cup {n}
      /\ \A p \in Places(words, "plain", n - 1) : p \in Nat /\ p < n
  BY OneMorePlace
<1> QED BY <1>1, <1>2, <1>3

\* One more turn of the loop, with a deployment id, the first or the second plain word.
LEMMA OneMoreId ==
    ASSUME NEW words, NEW n \in Nat \ {0}, NEW before, NEW after,
           SoFar(words, n - 1, before),
           words[n].kind = "setting", words[n].key = "deploymentid", words[n].value # "",
           after.argPos = before.argPos, after.siloName = before.siloName,
           after.configFileName = before.configFileName, after.deploymentId = words[n].value
    PROVE  SoFar(words, n, after)
<1> DEFINE ids == Places(words, "setting", n - 1)
<1>1. /\ Places(words, "switch", n) = Places(words, "switch", n - 1)
      /\ Places(words, "plain", n) = Places(words, "plain", n - 1)
      /\ Places(words, "setting", n) = ids \cup {n}
      /\ \A p \in Places(words, "setting", n) : p <= n
  BY SettingPlaces
<1> HIDE DEF ids
<1>2. AcceptedUpTo(words, n)
  BY <1>1, ZenonT(40) DEF SoFar, AcceptedUpTo, ids
<1>3. IdUpTo(words, n, after.deploymentId)
  <2>1. n \in Places(words, "setting", n) /\ \A q \in Places(words, "setting", n) : q <= n
    BY <1>1
  <2> QED BY <2>1 DEF IdUpTo
<1>4. NamedUpTo(words, n, after.siloName) /\ FiledUpTo(words, n, after.configFileName)
  BY <1>1 DEF SoFar, DeclaredUpTo, NamedUpTo, FiledUpTo
<1> QED BY <1>1, <1>2, <1>3, <1>4 DEF SoFar, DeclaredUpTo

LEMMA OneMorePlain ==
    ASSUME NEW words, NEW n \in Nat \ {0}, NEW before, NEW after,
           SoFar(words, n - 1, before), words[n].kind = "plain",
           after.deploymentId = before.deploymentId,
           \/ /\ before.argPos = 1 /\ after.argPos = 2 /\ after.siloName = words[n].text
              /\ after.configFileName = before.configFileName
           \/ /\ before.argPos = 2 /\ after.argPos = 3 /\ after.siloName = before.siloName
              /\ after.configFileName = words[n].text
    PROVE  SoFar(words, n, after)
<1> DEFINE plain == Places(words, "plain", n - 1)
<1>1. /\ Places(words, "switch", n) = Places(words, "switch", n - 1)
      /\ Places(words, "setting", n) = Places(words, "setting", n - 1)
      /\ Places(words, "plain", n) = plain \cup {n}
      /\ \A p \in plain : p \in Nat /\ p < n
  BY PlainPlaces
<1>2. IdUpTo(words, n, after.deploymentId)
  BY <1>1 DEF SoFar, DeclaredUpTo, IdUpTo
<1>3. /\ Places(words, "switch", n) = {}
      /\ \A p \in Places(words, "setting", n) : words[p].key = "deploymentid" /\ words[p].value # ""
  BY <1>1 DEF SoFar, AcceptedUpTo
<1>4. /\ before.argPos = 1 <=> plain = {}
      /\ before.argPos = 3 <=> \E p, q \in plain : p < q
      /\ NamedUpTo(words, n - 1, before.siloName)
      /\ FiledUpTo(words, n - 1, before.configFileName)
  BY DEF SoFar, DeclaredUpTo
<1> HIDE DEF plain
<1>5. CASE /\ before.argPos = 1 /\ after.argPos = 2 /\ after.siloName = words[n].text
           /\ after.configFileName = before.configFileName
  <2>1. plain = {} /\ Places(words, "plain", n) = {n}
    BY <1>1, <1>4, <1>5
  <2>2. NamedUpTo(words, n, after.siloName)
    BY <1>5, <2>1 DEF NamedUpTo
  <2>3. FiledUpTo(words, n, after.configFileName)
    BY <1>4, <1>5, <2>1 DEF FiledUpTo, plain
  <2>4. AcceptedUpTo(words, n)
    BY <1>3, <2>1 DEF AcceptedUpTo
  <2>5. ~\E p, q \in Places(words, "plain", n) : p < q
    BY <2>1
  <2> QED BY <1>2, <1>5, <2>1, <2>2, <2>3, <2>4, <2>5 DEF SoFar, DeclaredUpTo
<1>6. CASE /\ before.argPos = 2 /\ after.argPos = 3 /\ after.siloName = before.siloName
           /\ after.configFileName = words[n].text
  <2>1. plain # {} /\ \A p, q \in plain : p = q
    BY <1>1, <1>4, <1>6
  <2>2. PICK first \in plain : plain = {first} /\ first \in Nat /\ first < n
    BY <1>1, <2>1
  <2>3. Places(words, "plain", n) = {first, n} /\ first # n
    BY <1>1, <2>2
  <2>4. NamedUpTo(words, n, after.siloName)
    <3>1. after.siloName = words[first].text
      BY <1>4, <1>6, <2>2 DEF NamedUpTo, plain
    <3>2. \A q \in {first, n} : first <= q
      BY <2>2
    <3> QED BY <2>3, <3>1, <3>2 DEF NamedUpTo
  <2>5. FiledUpTo(words, n, after.configFileName)
    BY <1>6, <2>2, <2>3 DEF FiledUpTo
  <2>6. AcceptedUpTo(words, n)
    BY <1>3, <2>3 DEF AcceptedUpTo
  <2>7. (\E p, q \in Places(words, "plain", n) : p < q) /\ Places(words, "plain", n) # {}
    BY <2>2, <2>3
  <2> QED BY <1>2, <1>6, <2>4, <2>5, <2>6, <2>7 DEF SoFar, DeclaredUpTo
<1> QED BY <1>5, <1>6

LEMMA ParseIInv == ASSUME IInv, ParseArguments PROVE IInv'
<1> DEFINE word == args[i]
<1>1. /\ parsed.ok /\ i \in 1..Len(args) /\ Len(args) \in Nat /\ i \in Nat \ {0}
      /\ i' = i + 1 /\ i' - 1 = i
      /\ pc = "ParseArguments" /\ UNCHANGED <<args, pc, host, silo>>
      /\ args \in Seq(Words)
  BY DEF ParseArguments, IInv, TypeOK
<1>2. word \in Words
  BY <1>1
<1>3. parsed' = CASE word.kind = "switch"  -> Refused
                  [] word.kind = "setting" -> Setting(word)
                  [] word.kind = "plain"   -> Positional(word)
  BY DEF ParseArguments
<1>4. HostOfAllWords'
  BY <1>1 DEF IInv, HostOfAllWords
<1>5. parsed \in Locals /\ (parsed' \in Locals => TypeOK')
  BY <1>1 DEF IInv, TypeOK
<1>6. SoFar(args, i - 1, parsed) /\ (SoFar(args, i, parsed') => WordsSoFar')
  BY <1>1 DEF IInv, WordsSoFar
<1> HIDE DEF word
<1>7. CASE parsed' = Refused
  <2>1. ~parsed'.ok /\ parsed' \in Locals
    BY <1>5, <1>7 DEF Refused, Locals
  <2> QED BY <1>4, <1>5, <2>1 DEF WordsSoFar, IInv
<1>8. CASE /\ word.kind = "setting" /\ word.key = "deploymentid" /\ word.value # ""
           /\ parsed' = [parsed EXCEPT !.deploymentId = word.value]
  <2>1. word.value \in Values
    BY <1>2, <1>8 DEF Words
  <2>2. /\ parsed' \in Locals
        /\ parsed'.argPos = parsed.argPos /\ parsed'.siloName = parsed.siloName
        /\ parsed'.configFileName = parsed.configFileName /\ parsed'.deploymentId = word.value
    BY <1>5, <1>8, <2>1 DEF Locals
  <2>3. SoFar(args, i, parsed')
    BY <1>1, <1>6, <1>8, <2>2, OneMoreId DEF word
  <2> QED BY <1>4, <1>5, <1>6, <2>2, <2>3 DEF IInv
<1>9. CASE /\ word.kind = "plain"
           /\ \/ /\ parsed.argPos = 1
                 /\ parsed' = [parsed EXCEPT !.siloName = word.text, !.argPos = 2]
              \/ /\ parsed.argPos = 2
                 /\ parsed' = [parsed EXCEPT !.configFileName = word.text, !.argPos = 3]
  <2>1. word.text \in Plains
    BY <1>2, <1>9 DEF Words
  <2>2. /\ parsed' \in Locals /\ parsed'.deploymentId = parsed.deploymentId
        /\ \/ /\ parsed.argPos = 1 /\ parsed'.argPos = 2 /\ parsed'.siloName = word.text
              /\ parsed'.configFileName = parsed.configFileName
           \/ /\ parsed.argPos = 2 /\ parsed'.argPos = 3 /\ parsed'.siloName = parsed.siloName
              /\ parsed'.configFileName = word.text
    <3>1. CASE parsed.argPos = 1
      <4> DEFINE named == [parsed EXCEPT !.siloName = word.text]
      <4>1. parsed' = [parsed EXCEPT !.siloName = word.text, !.argPos = 2]
        BY <1>9, <3>1
      <4>2. parsed' \in Locals
        <5>1. parsed' = [named EXCEPT !.argPos = 2]
          BY <4>1
        <5>2. named \in Locals
          BY <1>5, <2>1 DEF Locals
        <5> HIDE DEF named
        <5> QED BY <5>1, <5>2 DEF Locals
      <4> QED BY <1>5, <3>1, <4>1, <4>2 DEF Locals
    <3>2. CASE parsed.argPos = 2
      <4> DEFINE named == [parsed EXCEPT !.configFileName = word.text]
      <4>1. parsed' = [parsed EXCEPT !.configFileName = word.text, !.argPos = 3]
        BY <1>9, <3>2
      <4>2. parsed' \in Locals
        <5>1. parsed' = [named EXCEPT !.argPos = 3]
          BY <4>1
        <5>2. named \in Locals
          BY <1>5, <2>1 DEF Locals
        <5> HIDE DEF named
        <5> QED BY <5>1, <5>2 DEF Locals
      <4> QED BY <1>5, <3>2, <4>1, <4>2 DEF Locals
    <3> QED BY <1>9, <3>1, <3>2
  <2>3. SoFar(args, i, parsed')
    BY <1>1, <1>6, <1>9, <2>2, OneMorePlain DEF word
  <2> QED BY <1>4, <1>5, <1>6, <2>2, <2>3 DEF IInv
<1>10. parsed' # Refused =>
          \/ /\ word.kind = "setting" /\ word.key = "deploymentid" /\ word.value # ""
             /\ parsed' = [parsed EXCEPT !.deploymentId = word.value]
          \/ /\ word.kind = "plain"
             /\ \/ /\ parsed.argPos = 1
                   /\ parsed' = [parsed EXCEPT !.siloName = word.text, !.argPos = 2]
                \/ /\ parsed.argPos = 2
                   /\ parsed' = [parsed EXCEPT !.configFileName = word.text, !.argPos = 3]
  <2>1. parsed.argPos \in {1, 2, 3}
    BY <1>5 DEF Locals
  <2>2. word.kind \in {"switch", "setting", "plain"}
    BY <1>2 DEF Words
  <2>3. CASE word.kind = "switch"
    BY <1>3, <2>3
  <2>4. CASE word.kind = "setting"
    <3>1. parsed' = Setting(word)
      BY <1>3, <2>4
    <3> QED BY <2>4, <3>1 DEF Setting
  <2>5. CASE word.kind = "plain"
    <3>1. parsed' = Positional(word)
      BY <1>3, <2>5
    <3> QED BY <2>1, <2>5, <3>1 DEF Positional
  <2> QED BY <2>2, <2>3, <2>4, <2>5
<1> QED BY <1>7, <1>8, <1>9, <1>10

LEMMA IInvNext == IInv /\ [Next]_vars => IInv'
<1> SUFFICES ASSUME IInv, [Next]_vars PROVE IInv'
  OBVIOUS
<1>1. CASE ParseArguments
  BY <1>1, ParseIInv
<1>2. ASSUME UNCHANGED <<args, i, parsed>> PROVE WordsSoFar'
  BY <1>2 DEF IInv, WordsSoFar
<1>3. CASE CreateDomain
  <2>1. NewHost \in Hosts
    BY DEF NewHost, Hosts, IInv, TypeOK, Locals
  <2>2. TypeOK'
    BY <1>3, <2>1 DEF CreateDomain, IInv, TypeOK
  <2>3. HostOfAllWords'
    BY <1>3 DEF CreateDomain, ArgumentsParsed, NewHost, IInv, HostOfAllWords, TypeOK
  <2> QED BY <1>2, <1>3, <2>2, <2>3 DEF CreateDomain, IInv
<1>4. CASE Run
  BY <1>2, <1>4 DEF Run, IInv, TypeOK, HostOfAllWords, NewHost
<1>5. CASE ShutdownSilo
  BY <1>2, <1>5 DEF ShutdownSilo, IInv, TypeOK, HostOfAllWords, NewHost
<1>6. CASE UNCHANGED vars
  BY <1>2, <1>6 DEF vars, IInv, TypeOK, HostOfAllWords, NewHost
<1> QED BY <1>1, <1>3, <1>4, <1>5, <1>6 DEF Next

LEMMA IInvAlways == Spec => []IInv
  BY IInvInit, IInvNext, PTL DEF Spec

\* Every variable keeps its type, and a host that of one.
THEOREM TypeCorrect == Spec => []TypeOK
<1>1. IInv => TypeOK
  BY DEF IInv
<1> QED BY IInvAlways, <1>1, PTL

\* When the loop has come to the end of the words, it has read all of them.
LEMMA AllWords == ASSUME IInv, i > Len(args) PROVE i - 1 = Len(args)
  BY DEF IInv, TypeOK

\* A host is made only of words that are all accepted, and it is what they declare, in
\* whatever order they stand.
THEOREM DeclaredHost == Spec => []HostAsDeclared
<1>1. ASSUME IInv, host # None PROVE Accepted /\ DeclaredUpTo(args, Len(args), host)
  <2>1. parsed.ok /\ i > Len(args) /\ host = NewHost
    BY <1>1 DEF IInv, HostOfAllWords
  <2>2. Accepted /\ DeclaredUpTo(args, Len(args), parsed)
    BY <1>1, <2>1, AllWords DEF IInv, WordsSoFar, SoFar, Accepted
  <2>3. DeclaredUpTo(args, Len(args), host)
    BY <2>1, <2>2 DEF DeclaredUpTo, NewHost
  <2> QED BY <2>2, <2>3
<1>2. IInv => HostAsDeclared
  BY <1>1 DEF HostAsDeclared
<1> QED BY IInvAlways, <1>2, PTL

\* No silo runs on arguments that ParseArguments refused, although its result is not
\* looked at.
THEOREM NoSiloOnRefusal == Spec => []RejectedNeverRuns
<1>1. ASSUME IInv, silo = "running" PROVE Accepted
  <2>1. parsed.ok /\ i > Len(args)
    BY <1>1 DEF IInv, HostOfAllWords
  <2> QED BY <1>1, <2>1, AllWords DEF IInv, WordsSoFar, SoFar, Accepted
<1>2. IInv => RejectedNeverRuns
  BY <1>1 DEF RejectedNeverRuns
<1> QED BY IInvAlways, <1>2, PTL

===============================================================================
