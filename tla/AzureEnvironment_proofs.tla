------------------------- MODULE AzureEnvironment_proofs -------------------------
(***************************************************************************)
(* Proofs about the double-checked lock of AzureEnvironment, for any set   *)
(* of threads.  The invariant says who is in the lock, what a thread has   *)
(* in its buffer at each step, and how far the one initialization is.      *)
(***************************************************************************)
EXTENDS AzureEnvironment, SequenceTheorems, TLAPS

Inside == {"recheck", "ask", "mark", "exit", "readLocked"}

\* One thread at most is between Enter and Exit, and it is the holder.
LockHeld == \A t \in Threads : pc[t] \in Inside <=> holder = t

Value == <<"inAzure", outcome>>
Flag  == <<"alreadyChecked", TRUE>>

\* Stores are on their way only in the lock, the value before the flag.
Buffers ==
    \A t \in Threads :
        /\ pc[t] \notin {"mark", "exit"} => buffer[t] = <<>>
        /\ pc[t] = "mark" => buffer[t] \in {<<>>, <<Value>>}
        /\ pc[t] = "exit" => buffer[t] \in {<<>>, <<Flag>>, <<Value, Flag>>}

\* The value is in memory before the flag is.
ValueFirst ==
    /\ memory.alreadyChecked => memory.inAzure = outcome
    /\ \A t \in Threads :
          /\ pc[t] = "mark" /\ buffer[t] = <<>> => memory.inAzure = outcome
          /\ pc[t] = "exit" /\ buffer[t] \in {<<>>, <<Flag>>} => memory.inAzure = outcome
          /\ pc[t] = "exit" /\ buffer[t] = <<>> => memory.alreadyChecked
          /\ pc[t] \in {"read", "readLocked"} => memory.alreadyChecked

\* Before RoleEnvironment is asked nothing is known, and once it was asked the flag is
\* set or is about to be.
Asking ==
    /\ asked \in {0, 1}
    /\ asked = 0 => /\ memory = [f \in Fields |-> FALSE]
                    /\ outcome = None
    /\ asked = 1 => outcome \in BOOLEAN
    /\ asked = 1 /\ ~memory.alreadyChecked =>
          \E t \in Threads : pc[t] \in {"mark", "exit"}
    /\ \A t \in Threads : /\ pc[t] = "ask" => asked = 0
                          /\ pc[t] \in {"mark", "exit"} => asked = 1

IInv == TypeOK /\ LockHeld /\ Buffers /\ ValueFirst /\ Asking /\ AnswersAgree

\* Buffers of one and two stores.
LEMMA ShortBuffers ==
    ASSUME NEW S, NEW a \in S, NEW b \in S
    PROVE  /\ <<a>> \in Seq(S) /\ <<a, b>> \in Seq(S)
           /\ Append(<<>>, a) = <<a>> /\ Append(<<a>>, b) = <<a, b>>
           /\ Head(<<a>>) = a /\ Tail(<<a>>) = <<>>
           /\ Head(<<a, b>>) = a /\ Tail(<<a, b>>) = <<b>>
<1>1. <<a>> \in Seq(S) /\ Len(<<a>>) = 1 /\ <<a>>[1] = a
  OBVIOUS
<1>2. <<a, b>> \in Seq(S) /\ Len(<<a, b>>) = 2 /\ <<a, b>>[1] = a /\ <<a, b>>[2] = b
  OBVIOUS
<1>3. /\ Append(<<a>>, b) \in Seq(S) /\ Len(Append(<<a>>, b)) = 2
      /\ Append(<<a>>, b)[1] = a /\ Append(<<a>>, b)[2] = b
  BY <1>1
<1>4. \A i \in 1..Len(<<a, b>>) : <<a, b>>[i] = Append(<<a>>, b)[i]
  BY <1>2, <1>3
<1>5. Append(<<a>>, b) = <<a, b>>
  BY <1>2, <1>3, <1>4, SeqEqual
<1>6. Append(<<>>, a) = <<a>> /\ Head(<<a>>) = a /\ Tail(<<a>>) = <<>>
  OBVIOUS
<1>7. Head(<<a, b>>) = a /\ Tail(<<a, b>>) = <<b>>
  OBVIOUS
<1> QED BY <1>1, <1>2, <1>5, <1>6, <1>7

LEMMA IInvInit == Init => IInv
  BY ThreadsAssumption DEF Init, IInv, TypeOK, LockHeld, Buffers, ValueFirst, Asking, AnswersAgree,
     Inside, Fields, Stores, Steps

\* The steps that leave memory and the buffers alone.
LEMMA MovesIInv ==
    ASSUME IInv, NEW t \in Threads,
           Call(t) \/ FirstCheck(t) \/ Enter(t) \/ SecondCheck(t) \/ Exit(t)
    PROVE  IInv'
<1> USE DEF IInv
<1>1. TypeOK'
  BY DEF TypeOK, Call, FirstCheck, Enter, SecondCheck, Exit, Step, Steps
<1>2. LockHeld'
  BY ThreadsAssumption DEF TypeOK, LockHeld, Inside, Call, FirstCheck, Enter, SecondCheck, Exit,
     Step, Steps
<1>3. Buffers'
  BY DEF TypeOK, Buffers, Value, Flag, Call, FirstCheck, Enter, SecondCheck, Exit, Step, Steps
<1>4. ValueFirst'
  BY DEF TypeOK, Buffers, ValueFirst, Flag, Call, FirstCheck, Enter, SecondCheck, Exit, Step,
     Steps
<1>5. Asking'
  <2>1. CASE Call(t) \/ FirstCheck(t) \/ Enter(t)
    BY <2>1 DEF TypeOK, Asking, Call, FirstCheck, Enter, Step, Steps
  <2>2. CASE SecondCheck(t)
    BY <2>2 DEF TypeOK, Asking, LockHeld, Inside, SecondCheck, Step, Steps
  <2>3. CASE Exit(t)
    <3>1. memory.alreadyChecked
      BY <2>3 DEF ValueFirst, Exit, Step
    <3> QED BY <2>3, <3>1 DEF TypeOK, Asking, Exit, Step, Steps
  <2> QED BY <2>1, <2>2, <2>3
<1>6. AnswersAgree'
  BY DEF AnswersAgree, Call, FirstCheck, Enter, SecondCheck, Exit
<1> QED BY <1>1, <1>2, <1>3, <1>4, <1>5, <1>6

\* RoleEnvironment is asked by the one thread that is in the lock.
LEMMA AskIInv ==
    ASSUME IInv, NEW t \in Threads, Ask(t)
    PROVE  IInv'
<1> USE DEF IInv
<1>1. PICK available \in BOOLEAN :
         /\ IsAvailable(available)
         /\ \/ Store(t, "inAzure", available)
            \/ ~available /\ UNCHANGED buffer
  BY DEF Ask
<1>2. /\ asked = 0 /\ asked' = 1
      /\ outcome = None /\ outcome' = available
      /\ memory = [f \in Fields |-> FALSE]
  BY <1>1 DEF Ask, Step, Asking, IsAvailable
<1>3. holder = t /\ \A u \in Threads : u # t => pc[u] \notin Inside /\ buffer[u] = <<>>
  BY DEF Ask, Step, LockHeld, Buffers, Inside
<1>4. /\ buffer[t] = <<>>
      /\ \/ buffer' = [buffer EXCEPT ![t] = <<<<"inAzure", available>>>>]
         \/ ~available /\ buffer' = buffer
  <2>1. buffer[t] = <<>>
    BY DEF Ask, Step, Buffers
  <2>2. Append(<<>>, <<"inAzure", available>>) = <<<<"inAzure", available>>>>
    OBVIOUS
  <2> QED BY <1>1, <2>1, <2>2 DEF Store, TypeOK
<1>5. pc[t] = "ask" /\ pc' = [pc EXCEPT ![t] = "mark"] /\ UNCHANGED <<memory, holder, answer>>
  BY DEF Ask, Step
<1>6. TypeOK'
  <2>1. <<<<"inAzure", available>>>> \in Seq(Stores)
    BY DEF Stores, Fields
  <2> QED BY <1>2, <1>4, <1>5, <2>1 DEF TypeOK, Steps
<1>7. LockHeld'
  BY <1>3, <1>5 DEF TypeOK, LockHeld, Inside
<1>8. Buffers'
  <2>1. Value' = <<"inAzure", available>>
    BY <1>2 DEF Value
  <2>2. /\ pc'[t] = "mark" /\ buffer'[t] \in {<<>>, <<Value'>>}
        /\ \A u \in Threads : u # t => pc'[u] = pc[u] /\ buffer'[u] = <<>>
    BY <1>3, <1>4, <1>5, <2>1 DEF TypeOK
  <2> QED BY <1>3, <2>2 DEF Buffers, Inside
<1>9. ValueFirst'
  <2>1. ~memory.alreadyChecked /\ ~memory.inAzure
    BY <1>2 DEF Fields
  <2>2. buffer'[t] = <<>> => ~available
    <3>1. <<<<"inAzure", available>>>> # <<>>
      OBVIOUS
    <3> QED BY <1>4, <3>1 DEF TypeOK
  <2>3. \A u \in Threads : pc[u] \notin {"read", "readLocked"}
    BY <2>1 DEF ValueFirst
  <2>4. memory'.inAzure = FALSE /\ ~memory'.alreadyChecked
    BY <1>5, <2>1 DEF TypeOK, Fields
  <2>5. pc'[t] = "mark" /\ (buffer'[t] = <<>> => memory'.inAzure = outcome')
    BY <1>2, <1>5, <2>2, <2>4 DEF TypeOK
  <2>6. \A u \in Threads : u # t => pc'[u] \notin {"mark", "exit", "read", "readLocked"}
    BY <1>3, <1>5, <2>3 DEF TypeOK, Inside
  <2> QED BY <2>4, <2>5, <2>6 DEF ValueFirst
<1>10. Asking'
  BY <1>2, <1>3, <1>5 DEF Asking, TypeOK, Inside
<1>11. AnswersAgree'
  BY <1>2, <1>5 DEF AnswersAgree
<1> QED BY <1>6, <1>7, <1>8, <1>9, <1>10, <1>11

LEMMA MarkIInv ==
    ASSUME IInv, NEW t \in Threads, Mark(t)
    PROVE  IInv'
<1> USE DEF IInv
<1>1. /\ pc[t] = "mark" /\ pc' = [pc EXCEPT ![t] = "exit"]
      /\ UNCHANGED <<memory, holder, answer, outcome, asked>>
  BY DEF Mark, Step
<1>2. /\ outcome \in BOOLEAN
      /\ \/ buffer[t] = <<>> /\ buffer' = [buffer EXCEPT ![t] = <<Flag>>]
         \/ buffer[t] = <<Value>> /\ buffer' = [buffer EXCEPT ![t] = <<Value, Flag>>]
  <2>1. outcome \in BOOLEAN
    BY <1>1 DEF Asking
  <2>2. Value \in Stores /\ Flag \in Stores
    BY <2>1 DEF Value, Flag, Stores, Fields
  <2>3. Append(<<>>, Flag) = <<Flag>> /\ Append(<<Value>>, Flag) = <<Value, Flag>>
    BY <2>2, ShortBuffers
  <2>4. buffer' = [buffer EXCEPT ![t] = Append(buffer[t], Flag)]
    BY DEF Mark, Store, Flag, TypeOK
  <2>5. buffer[t] \in {<<>>, <<Value>>}
    BY <1>1 DEF Buffers
  <2> QED BY <2>1, <2>3, <2>4, <2>5
<1>3. TypeOK'
  <2>1. Value \in Stores /\ Flag \in Stores
    BY <1>2 DEF Flag, Value, Stores, Fields
  <2>2. <<Flag>> \in Seq(Stores) /\ <<Value, Flag>> \in Seq(Stores)
    BY <2>1, ShortBuffers
  <2> QED BY <1>1, <1>2, <2>2 DEF TypeOK, Steps
<1>4. LockHeld'
  BY <1>1 DEF TypeOK, LockHeld, Inside
<1>5. Value' = Value /\ Flag' = Flag
  BY <1>1 DEF Value, Flag
<1>6. Buffers'
  BY <1>1, <1>2, <1>5 DEF TypeOK, Buffers
<1>7. ValueFirst'
  <2>1. <<Flag>> # <<>> /\ <<Value, Flag>> # <<>> /\ <<Value, Flag>> # <<Flag>>
    OBVIOUS
  <2> QED BY <1>1, <1>2, <1>5, <2>1 DEF TypeOK, ValueFirst
<1>8. Asking'
  BY <1>1 DEF Asking, TypeOK
<1>9. AnswersAgree'
  BY <1>1 DEF AnswersAgree
<1> QED BY <1>3, <1>4, <1>6, <1>7, <1>8, <1>9

LEMMA FlushIInv ==
    ASSUME IInv, NEW t \in Threads, Flush(t)
    PROVE  IInv'
<1> USE DEF IInv
<1>1. UNCHANGED <<holder, pc, answer, outcome, asked>> /\ Value' = Value /\ Flag' = Flag
  BY DEF Flush, Value, Flag
<1>2. pc[t] \in {"mark", "exit"} /\ asked = 1 /\ outcome \in BOOLEAN
  BY DEF Flush, Buffers, Asking
<1>3. Value \in Stores /\ Flag \in Stores
  BY <1>2 DEF Value, Flag, Stores, Fields
<1>4. \/ /\ pc[t] = "mark" /\ buffer[t] = <<Value>>
         /\ memory' = [memory EXCEPT !["inAzure"] = outcome]
         /\ buffer' = [buffer EXCEPT ![t] = <<>>]
      \/ /\ pc[t] = "exit" /\ buffer[t] = <<Value, Flag>>
         /\ memory' = [memory EXCEPT !["inAzure"] = outcome]
         /\ buffer' = [buffer EXCEPT ![t] = <<Flag>>]
      \/ /\ pc[t] = "exit" /\ buffer[t] = <<Flag>>
         /\ memory' = [memory EXCEPT !["alreadyChecked"] = TRUE]
         /\ buffer' = [buffer EXCEPT ![t] = <<>>]
  <2>1. \/ pc[t] = "mark" /\ buffer[t] = <<Value>>
        \/ pc[t] = "exit" /\ buffer[t] \in {<<Flag>>, <<Value, Flag>>}
    BY <1>2 DEF Flush, Buffers
  <2>2. /\ Head(<<Value>>) = Value /\ Tail(<<Value>>) = <<>>
        /\ Head(<<Flag>>) = Flag /\ Tail(<<Flag>>) = <<>>
        /\ Head(<<Value, Flag>>) = Value /\ Tail(<<Value, Flag>>) = <<Flag>>
    BY <1>3, ShortBuffers
  <2>3. Value[1] = "inAzure" /\ Value[2] = outcome /\ Flag[1] = "alreadyChecked" /\ Flag[2] = TRUE
    BY DEF Value, Flag
  <2>4. /\ memory' = [memory EXCEPT ![Head(buffer[t])[1]] = Head(buffer[t])[2]]
        /\ buffer' = [buffer EXCEPT ![t] = Tail(buffer[t])]
    BY DEF Flush, TypeOK
  <2>5. CASE pc[t] = "mark" /\ buffer[t] = <<Value>>
    BY <2>2, <2>3, <2>4, <2>5
  <2>6. CASE pc[t] = "exit" /\ buffer[t] = <<Flag>>
    BY <2>2, <2>3, <2>4, <2>6
  <2>7. CASE pc[t] = "exit" /\ buffer[t] = <<Value, Flag>>
    BY <2>2, <2>3, <2>4, <2>7
  <2> QED BY <2>1, <2>5, <2>6, <2>7
<1>5. TypeOK'
  <2>1. <<Flag>> \in Seq(Stores)
    BY <1>3, ShortBuffers
  <2>2. memory' \in [Fields -> BOOLEAN]
    BY <1>2, <1>4 DEF TypeOK, Fields
  <2>3. buffer' \in [Threads -> Seq(Stores)]
    <3>1. \E q \in {<<>>, <<Flag>>} : buffer' = [buffer EXCEPT ![t] = q]
      BY <1>4
    <3>2. {<<>>, <<Flag>>} \subseteq Seq(Stores)
      BY <2>1
    <3> HIDE DEF IInv
    <3>3. buffer \in [Threads -> Seq(Stores)]
      BY DEF IInv, TypeOK
    <3> QED BY <3>1, <3>2, <3>3
  <2> QED BY <1>1, <2>2, <2>3 DEF TypeOK
<1>6. LockHeld'
  BY <1>1 DEF LockHeld
<1>7. Buffers'
  BY <1>1, <1>4 DEF TypeOK, Buffers
<1>8. \A u \in Threads : u # t => pc[u] \notin {"mark", "exit"}
  BY <1>2 DEF LockHeld, Inside
<1>9. /\ memory.alreadyChecked => memory'.alreadyChecked
      /\ memory'.inAzure # outcome => memory'.inAzure = memory.inAzure
  BY <1>4 DEF TypeOK, Fields
<1>10. ValueFirst'
  <2>1. /\ <<Value>> # <<>> /\ <<Flag>> # <<>> /\ <<Value, Flag>> # <<>>
        /\ <<Value, Flag>> # <<Flag>>
    OBVIOUS
  <2>2. memory'.alreadyChecked => memory'.inAzure = outcome
    BY <1>4 DEF TypeOK, Fields, ValueFirst
  <2>3. pc[t] = "mark" => memory'.inAzure = outcome
    BY <1>4 DEF TypeOK, Fields
  <2>4. pc[t] = "exit" => memory'.inAzure = outcome
    BY <1>4, <2>1 DEF TypeOK, Fields, ValueFirst
  <2>5. pc[t] = "exit" /\ buffer'[t] = <<>> => memory'.alreadyChecked
    BY <1>4, <2>1 DEF TypeOK, Fields
  <2> QED BY <1>1, <1>8, <1>9, <2>2, <2>3, <2>4, <2>5 DEF ValueFirst
<1>11. Asking'
  BY <1>1, <1>2, <1>8, <1>9 DEF Asking
<1>12. AnswersAgree'
  BY <1>1 DEF AnswersAgree
<1> QED BY <1>5, <1>6, <1>7, <1>10, <1>11, <1>12

LEMMA ReadIInv ==
    ASSUME IInv, NEW t \in Threads, Read(t) \/ ReadLocked(t)
    PROVE  IInv'
<1> USE DEF IInv
<1>1. memory.inAzure = outcome /\ memory.inAzure \in BOOLEAN
  BY DEF Read, ReadLocked, Step, ValueFirst, TypeOK, Fields
<1>2. TypeOK'
  BY <1>1 DEF TypeOK, Read, ReadLocked, Step, Steps
<1>3. LockHeld'
  BY ThreadsAssumption DEF TypeOK, LockHeld, Inside, Read, ReadLocked, Step
<1>4. Buffers'
  BY DEF TypeOK, Buffers, Value, Flag, Read, ReadLocked, Step
<1>5. ValueFirst'
  BY DEF TypeOK, ValueFirst, Flag, Read, ReadLocked, Step
<1>6. Asking'
  BY DEF TypeOK, Asking, Read, ReadLocked, Step
<1>7. AnswersAgree'
  BY <1>1 DEF TypeOK, AnswersAgree, Read, ReadLocked
<1> QED BY <1>2, <1>3, <1>4, <1>5, <1>6, <1>7

LEMMA IInvNext == IInv /\ [Next]_vars => IInv'
<1> SUFFICES ASSUME IInv, [Next]_vars PROVE IInv'
  OBVIOUS
<1>1. CASE UNCHANGED vars
  BY <1>1 DEF vars, IInv, TypeOK, LockHeld, Buffers, Value, Flag, ValueFirst, Asking, AnswersAgree
<1>2. CASE Next
  BY <1>2, MovesIInv, AskIInv, MarkIInv, FlushIInv, ReadIInv DEF Next
<1> QED BY <1>1, <1>2

LEMMA IInvAlways == Spec => []IInv
  BY IInvInit, IInvNext, PTL DEF Spec

\* Type correctness: fields, buffers, lock and answers keep their types.
THEOREM TypeCorrect == Spec => []TypeOK
<1>1. IInv => TypeOK
  BY DEF IInv
<1> QED BY IInvAlways, <1>1, PTL

\* Every thread that reads IsInAzure gets what RoleEnvironment answered when it was
\* first asked, on the fast path without the lock too: the value reaches memory before
\* the flag does.
THEOREM SameAnswer == Spec => []AnswersAgree
<1>1. IInv => AnswersAgree
  BY DEF IInv
<1> QED BY IInvAlways, <1>1, PTL

\* However many threads are there, RoleEnvironment is asked once at most.
THEOREM OneQuestion == Spec => []AskedOnce
<1>1. IInv => AskedOnce
  BY DEF IInv, Asking, AskedOnce
<1> QED BY IInvAlways, <1>1, PTL

===============================================================================
