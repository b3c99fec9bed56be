--------------------------- MODULE ContextStack_proofs ---------------------------
(* Proofs about ContextStack for every number of threads, contexts and scopes and every
   width of the two counters: its variables keep their types, the depth limit among
   them, undoing an attachment brings back what was current before it, a token is one
   attachment's, and a token that was used stays dead. *)
EXTENDS ContextStack, FiniteSetTheorems, TLAPS

EntryType == [generation : 1..MaxGeneration, context : Contexts, outer : Contexts \cup {NoContext}]

(* A stack of at most MaxDepth entries (context.rs:61). *)
StackOK(s) == s \in Seq(EntryType) /\ Len(s) <= MaxDepth

(* Each entry keeps what the entry under it makes current. *)
Nests(s) ==
  \A n \in DOMAIN s : s[n].outer = IF n = 1 THEN NoContext ELSE s[n - 1].context

(* The inductive invariant. *)
Inv ==
  /\ nextThreadToken \in 0..MaxThreadToken
  /\ threadToken \in [Threads -> 0..MaxThreadToken]
  /\ nextGeneration \in [Threads -> 1..MaxGeneration]
  /\ stack \in [Threads -> Seq(EntryType)]
  /\ \A t \in Threads : StackOK(stack[t]) /\ Nests(stack[t])
  /\ scope \in [Scopes -> TokenType]
  /\ exited \subseteq Threads
  /\ attaches \in [Threads -> 0..MaxAttaches]

(* A push keeps the depth limit and the nesting. *)
LEMMA PushNests ==
  ASSUME NEW s, StackOK(s), Nests(s), Len(s) < MaxDepth,
         NEW g \in 1..MaxGeneration, NEW c \in Contexts,
         NEW e, e = [generation |-> g, context |-> c,
                     outer |-> IF s = <<>> THEN NoContext ELSE s[Len(s)].context]
  PROVE  StackOK(Append(s, e)) /\ Nests(Append(s, e))
<1> USE ContextStackAssumption DEF ContextStackAssumption
<1> DEFINE r == Append(s, e)
<1>1. s \in Seq(EntryType) /\ Len(s) \in Nat /\ DOMAIN s = 1..Len(s)
  BY DEF StackOK
<1>2. \A n \in 1..Len(s) : s[n] \in EntryType
  BY <1>1
<1>3. e \in EntryType
  <2>1. CASE s = <<>>
    BY <2>1 DEF EntryType
  <2>2. CASE s # <<>>
    <3>1. Len(s) \in 1..Len(s)
      BY <1>1, <2>2
    <3>2. s[Len(s)].context \in Contexts
      BY <1>2, <3>1 DEF EntryType
    <3>3. QED
      BY <2>2, <3>2 DEF EntryType
  <2>3. QED
    BY <2>1, <2>2
<1>4. r \in Seq(EntryType) /\ Len(r) = Len(s) + 1 /\ DOMAIN r = 1..(Len(s) + 1)
  BY <1>1, <1>3
<1>5. r[Len(s) + 1] = e /\ \A n \in 1..Len(s) : r[n] = s[n]
  BY <1>1, <1>3
<1>6. StackOK(r)
  BY <1>4 DEF StackOK
<1>7. ASSUME NEW n \in DOMAIN r
      PROVE  r[n].outer = IF n = 1 THEN NoContext ELSE r[n - 1].context
  <2>1. CASE n \in 1..Len(s)
    <3>1. n # 1 => n - 1 \in 1..Len(s)
      BY <2>1, <1>1
    <3>2. QED
      BY <2>1, <3>1, <1>1, <1>5 DEF Nests
  <2>2. CASE n = Len(s) + 1
    <3>1. s = <<>> <=> n = 1
      BY <2>2, <1>1
    <3>2. n # 1 => n - 1 = Len(s) /\ Len(s) \in 1..Len(s)
      BY <2>2, <1>1
    <3>3. QED
      BY <2>2, <3>1, <3>2, <1>5
  <2>3. QED
    BY <2>1, <2>2, <1>4, <1>1
<1>8. QED
  BY <1>6, <1>7 DEF Nests

(* A pop keeps the nesting. *)
LEMMA PopNests ==
  ASSUME NEW s, StackOK(s), Nests(s), s # <<>>
  PROVE  StackOK(SubSeq(s, 1, Len(s) - 1)) /\ Nests(SubSeq(s, 1, Len(s) - 1))
<1> USE ContextStackAssumption DEF ContextStackAssumption
<1> DEFINE r == SubSeq(s, 1, Len(s) - 1)
<1>1. s \in Seq(EntryType) /\ Len(s) \in Nat \ {0} /\ DOMAIN s = 1..Len(s)
  BY DEF StackOK
<1>2. r \in Seq(EntryType) /\ Len(r) = Len(s) - 1 /\ DOMAIN r = 1..(Len(s) - 1)
  BY <1>1
<1>3. \A n \in 1..(Len(s) - 1) : r[n] = s[n]
  BY <1>1
<1>4. QED
  BY <1>1, <1>2, <1>3 DEF StackOK, Nests

(* Init establishes the invariant. *)
LEMMA InitInv == Init => Inv
<1> USE ContextStackAssumption DEF ContextStackAssumption
<1>1. ASSUME Init, NEW t \in Threads PROVE StackOK(stack[t]) /\ Nests(stack[t])
  BY <1>1 DEF Init, StackOK, Nests
<1>2. Init => /\ nextThreadToken \in 0..MaxThreadToken
              /\ threadToken \in [Threads -> 0..MaxThreadToken]
  BY DEF Init
<1>3. Init => nextGeneration \in [Threads -> 1..MaxGeneration]
  <2>1. {1, MaxGeneration} \subseteq 1..MaxGeneration
    OBVIOUS
  <2>2. QED
    BY <2>1 DEF Init
<1>4. Init => stack \in [Threads -> Seq(EntryType)]
  BY DEF Init
<1>5. Init => /\ scope \in [Scopes -> TokenType]
              /\ exited \subseteq Threads
              /\ attaches \in [Threads -> 0..MaxAttaches]
  BY DEF Init, TokenType, Inactive
<1>6. QED
  BY <1>1, <1>2, <1>3, <1>4, <1>5 DEF Inv

(* The thread-local stack is made with tokens of its counters' types
   (context.rs:66-76). *)
LEMMA EnsureStackType ==
  ASSUME Inv, NEW t \in Threads, EnsureStack(t)
  PROVE  /\ nextThreadToken' \in 0..MaxThreadToken
         /\ threadToken' \in [Threads -> 0..MaxThreadToken]
         /\ Token(t) \in 0..MaxThreadToken
BY ContextStackAssumption
  DEF ContextStackAssumption, Inv, EnsureStack, stackVars, FirstToken, WrappingAdd, Token

(* Every action keeps the invariant. *)
LEMMA StepInv == Inv /\ [Next]_vars => Inv'
<1> SUFFICES ASSUME Inv, [Next]_vars PROVE Inv'
  OBVIOUS
<1> USE ContextStackAssumption DEF ContextStackAssumption
<1>1. ASSUME NEW t \in Threads, current(t) PROVE Inv'
  BY <1>1, EnsureStackType DEF current, Inv
<1>2. ASSUME NEW t \in Threads, ThreadExit(t) PROVE Inv'
  <2>1. StackOK(<<>>) /\ Nests(<<>>)
    BY DEF StackOK, Nests
  <2>2. QED
    BY <1>2, <2>1 DEF ThreadExit, Inv, stackVars
<1>3. ASSUME NEW t \in Threads, NEW c \in Contexts, NEW s \in Scopes, attach(t, c, s)
      PROVE  Inv'
  <2>1. Generation(t) \in 1..MaxGeneration /\ NextGeneration(t) \in 1..MaxGeneration
    BY DEF Inv, Generation, NextGeneration, WrappingAdd
  <2> DEFINE e == [generation |-> Generation(t), context |-> c, outer |-> current_data(t)]
  <2>2. StackOK(Append(stack[t], e)) /\ Nests(Append(stack[t], e))
    BY <1>3, <2>1, PushNests DEF attach, HasRoom, current_data, Inv
  <2>3. stack' = [stack EXCEPT ![t] = Append(stack[t], e)]
    BY <1>3 DEF attach
  <2>4. /\ stack' \in [Threads -> Seq(EntryType)]
        /\ \A u \in Threads : StackOK(stack'[u]) /\ Nests(stack'[u])
    BY <2>2, <2>3 DEF Inv, StackOK
  <2>5. EnsureStack(t)
    BY <1>3 DEF attach
  <2>6. scope' \in [Scopes -> TokenType]
    <3>1. scope' = [scope EXCEPT ![s] = [thread_token |-> Token(t), generation |-> Generation(t)]]
      BY <1>3 DEF attach
    <3>2. Token(t) \in 0..MaxThreadToken
      BY <2>5, EnsureStackType
    <3>3. scope \in [Scopes -> TokenType]
      BY DEF Inv
    <3>4. QED
      BY <2>1, <3>1, <3>2, <3>3 DEF TokenType
  <2>7. nextGeneration' \in [Threads -> 1..MaxGeneration]
    BY <1>3, <2>1 DEF attach, Inv
  <2>8. attaches' \in [Threads -> 0..MaxAttaches] /\ exited' \subseteq Threads
    BY <1>3 DEF attach, Inv
  <2>9. QED
    BY <2>4, <2>5, <2>6, <2>7, <2>8, EnsureStackType DEF Inv
<1>4. ASSUME NEW t \in Threads, NEW s \in Scopes, attach_refused(t, s) PROVE Inv'
  <2>1. scope' \in [Scopes -> TokenType]
    BY <1>4 DEF attach_refused, Inv, Inactive, TokenType
  <2>2. nextThreadToken' \in 0..MaxThreadToken /\ threadToken' \in [Threads -> 0..MaxThreadToken]
    BY <1>4, EnsureStackType DEF attach_refused, Inv, stackVars
  <2>3. QED
    BY <1>4, <2>1, <2>2 DEF attach_refused, Inv
<1>5. ASSUME NEW t \in Threads, NEW s \in Scopes, scope_detach(t, s) PROVE Inv'
  <2> DEFINE r == SubSeq(stack[t], 1, Len(stack[t]) - 1)
  <2>1. StackOK(r) /\ Nests(r)
    BY <1>5, PopNests DEF scope_detach, Inv
  <2>2. stack' = [stack EXCEPT ![t] = r]
    BY <1>5 DEF scope_detach
  <2>3. /\ stack' \in [Threads -> Seq(EntryType)]
        /\ \A u \in Threads : StackOK(stack'[u]) /\ Nests(stack'[u])
    BY <2>1, <2>2 DEF Inv, StackOK
  <2>4. scope' \in [Scopes -> TokenType]
    BY <1>5 DEF scope_detach, Inv, Inactive, TokenType
  <2>5. QED
    BY <1>5, <2>3, <2>4 DEF scope_detach, Inv, stackVars
<1>6. ASSUME NEW from \in Scopes, NEW to \in Scopes, copy_token(from, to) PROVE Inv'
  BY <1>6 DEF copy_token, Inv, stackVars
<1>7. ASSUME UNCHANGED vars PROVE Inv'
  BY <1>7 DEF vars, Inv, stackVars
<1>8. QED
  BY <1>1, <1>2, <1>3, <1>4, <1>5, <1>6, <1>7 DEF Next

(* The invariant holds in every reachable state. *)
LEMMA Invariant == Spec => []Inv
BY InitInv, StepInv, PTL DEF Spec

(* Counters, tokens and stacks keep their types, and no stack grows past its limit,
   whatever is attached, copied, detached or refused (context.rs:18, 61). *)
THEOREM TypeCorrect == Spec => []TypeOK
<1>1. ASSUME Inv, NEW t \in Threads
      PROVE  Len(stack[t]) <= MaxDepth /\ \A n \in DOMAIN stack[t] : stack[t][n] \in EntryType
  <2>1. stack[t] \in Seq(EntryType) /\ Len(stack[t]) <= MaxDepth
    BY <1>1 DEF Inv, StackOK
  <2>2. QED
    BY <2>1
<1>2. Inv => TypeOK
  BY <1>1 DEF Inv, TypeOK, EntryType
<1>3. QED
  BY <1>2, Invariant, PTL

(* Undoing an attachment brings back what was current before it, however attachments of
   this and of other threads came and went (context.rs:403). *)
THEOREM ScopesNestHolds == Spec => []ScopesNest
<1>1. Inv => ScopesNest
  BY DEF Inv, ScopesNest, Nests
<1>2. QED
  BY <1>1, Invariant, PTL

--------------------------------------------------------------------------------
(* Tokens.  The counters wrap, so what is proved counts backwards from them: a generation
   was issued by a thread if it is no further behind its counter than the thread has
   attached, and a thread's number is no nearer ahead of the shared counter than there are
   threads still to be numbered. *)

(* How far behind the thread's counter a generation is. *)
Back(t, g) ==
  IF g < nextGeneration[t] THEN nextGeneration[t] - g ELSE nextGeneration[t] + MaxGeneration - g

Issued(t, g) == g \in 1..MaxGeneration /\ Back(t, g) <= attaches[t]

(* Threads in use have numbers of their own, that no thread to come will get. *)
Numbered ==
  /\ \A t, u \in Threads : threadToken[t] = threadToken[u] => t = u \/ threadToken[t] = 0
  /\ \A t \in Threads : threadToken[t] # 0 => Ahead(threadToken[t]) >= Cardinality(Unborn)

(* An attachment is a numbered thread's, of a generation of its own. *)
EntriesIssued ==
  \A t \in Threads :
    /\ stack[t] # <<>> => threadToken[t] # 0
    /\ \A n \in DOMAIN stack[t] : Issued(t, stack[t][n].generation)
    /\ \A m, n \in DOMAIN stack[t] : stack[t][m].generation = stack[t][n].generation => m = n

(* A token is inactive or was issued. *)
Known(token) ==
  \/ token = Inactive
  \/ \E t \in Threads : /\ threadToken[t] # 0 /\ token.thread_token = threadToken[t]
                        /\ Issued(t, token.generation)

(* The inductive invariant. *)
TokenInv == Inv /\ Numbered /\ EntriesIssued /\ \A s \in Scopes : Known(scope[s])

(* Making a thread's stack numbers the thread and no other, and brings every number
   one nearer (context.rs:70-80). *)
LEMMA StackMade ==
  ASSUME Inv, Numbered, NEW t \in Threads, EnsureStack(t)
  PROVE  /\ Numbered'
         /\ threadToken'[t] = Token(t) /\ threadToken'[t] # 0
         /\ \A u \in Threads : threadToken[u] # 0 => threadToken'[u] = threadToken[u]
         /\ \A u \in Threads \ {t} : threadToken'[u] = threadToken[u]
<1> USE ContextStackAssumption DEF ContextStackAssumption
<1>1. CASE threadToken[t] # 0
  <2>1. UNCHANGED <<nextThreadToken, threadToken>>
    BY <1>1 DEF EnsureStack, stackVars
  <2>2. Numbered'
    BY <2>1 DEF Numbered, Ahead, FirstToken, Unborn
  <2>3. QED
    BY <1>1, <2>1, <2>2 DEF Token
<1>2. CASE threadToken[t] = 0
  <2>1. /\ FirstToken \in 1..MaxThreadToken
        /\ FirstToken' = IF FirstToken = MaxThreadToken THEN 1 ELSE FirstToken + 1
    <3>1. FirstToken \in 1..MaxThreadToken
      BY DEF Inv, FirstToken
    <3>2. nextThreadToken' = IF FirstToken = MaxThreadToken THEN 0 ELSE FirstToken + 1
      BY <1>2 DEF EnsureStack, WrappingAdd
    <3>3. FirstToken' = IF nextThreadToken' = 0 THEN 1 ELSE nextThreadToken'
      BY DEF FirstToken
    <3>4. QED
      BY <3>1, <3>2, <3>3
  <2>2. /\ threadToken'[t] = FirstToken /\ Token(t) = FirstToken
        /\ \A u \in Threads \ {t} : threadToken'[u] = threadToken[u]
    BY <1>2 DEF Inv, EnsureStack, Token
  <2>3. /\ Cardinality(Unborn) \in Nat /\ Cardinality(Unborn) <= MaxThreadToken
        /\ Cardinality(Unborn) > 0
        /\ Cardinality(Unborn') = Cardinality(Unborn) - 1
    <3>1. IsFiniteSet(Unborn) /\ Cardinality(Unborn) <= Cardinality(Threads)
      BY TokenAssumption, FS_Subset DEF TokenAssumption, Unborn
    <3>2. t \in Unborn /\ Unborn' = Unborn \ {t}
      BY <1>2, <2>1, <2>2 DEF Unborn
    <3>3. Cardinality(Unborn) \in Nat /\ Cardinality(Threads) \in Nat
      BY <3>1, TokenAssumption, FS_CardinalityType DEF TokenAssumption
    <3>4. Cardinality(Unborn) # 0
      BY <3>1, <3>2, FS_EmptySet
    <3>5. Cardinality(Unborn \ {t}) = Cardinality(Unborn) - 1
      BY <3>1, <3>2, FS_RemoveElement
    <3>6. QED
      BY <3>1, <3>2, <3>3, <3>4, <3>5, TokenAssumption DEF TokenAssumption
  <2>4. \A u \in Threads : threadToken[u] # 0 =>
          threadToken[u] \in 1..MaxThreadToken /\ threadToken[u] # FirstToken
    <3>1. ASSUME NEW u \in Threads, threadToken[u] # 0
          PROVE  threadToken[u] \in 1..MaxThreadToken /\ threadToken[u] # FirstToken
      <4>1. threadToken[u] \in 1..MaxThreadToken
        BY <3>1 DEF Inv
      <4>2. Ahead(threadToken[u]) > 0
        BY <3>1, <2>3, <4>1, <2>1 DEF Numbered, Ahead
      <4>3. QED
        BY <2>1, <4>1, <4>2 DEF Ahead
    <3>2. QED
      BY <3>1
  <2>5. ASSUME NEW u \in Threads, threadToken'[u] # 0
        PROVE  Ahead(threadToken[u])' >= Cardinality(Unborn')
    <3>1. CASE u = t
      BY <2>1, <2>2, <2>3, <3>1 DEF Ahead
    <3>2. CASE u # t
      <4>1. /\ threadToken'[u] = threadToken[u] /\ threadToken[u] \in 1..MaxThreadToken
            /\ threadToken[u] # FirstToken /\ Ahead(threadToken[u]) >= Cardinality(Unborn)
        BY <2>2, <2>4, <2>5, <3>2 DEF Numbered
      <4>2. Ahead(threadToken[u])' = Ahead(threadToken[u]) - 1
        BY <2>1, <4>1 DEF Ahead
      <4>3. Ahead(threadToken[u]) \in Nat
        BY <2>1, <4>1 DEF Ahead
      <4>4. QED
        BY <2>3, <4>1, <4>2, <4>3
    <3>3. QED
      BY <3>1, <3>2
  <2>6. ASSUME NEW u \in Threads, NEW v \in Threads, threadToken'[u] = threadToken'[v]
        PROVE  u = v \/ threadToken'[u] = 0
    BY <2>2, <2>4, <2>6 DEF Numbered
  <2>7. Numbered'
    BY <2>5, <2>6 DEF Numbered
  <2>8. QED
    BY <1>2, <2>1, <2>2, <2>7
<1>3. QED
  BY <1>1, <1>2

(* An attachment takes a generation the thread has not issued, and forgets none
   (context.rs:82-89). *)
LEMMA GenerationTaken ==
  ASSUME Inv, NEW t \in Threads, attaches[t] < MaxAttaches,
         nextGeneration' = [nextGeneration EXCEPT ![t] = NextGeneration(t)],
         attaches' = [attaches EXCEPT ![t] = @ + 1]
  PROVE  /\ Generation(t) \in 1..MaxGeneration
         /\ \A g \in Nat : g = Generation(t) => Issued(t, g)' /\ ~Issued(t, g)
         /\ \A u \in Threads, g \in Nat : Issued(u, g) => Issued(u, g)'
<1> USE ContextStackAssumption DEF ContextStackAssumption
<1> SUFFICES ASSUME NEW n, n = nextGeneration[t]
             PROVE  /\ n \in 1..MaxGeneration
                    /\ Issued(t, n)' /\ ~Issued(t, n)
                    /\ \A u \in Threads, g \in Nat : Issued(u, g) => Issued(u, g)'
  BY DEF Generation
<1>1. /\ n \in 1..MaxGeneration /\ attaches[t] \in Nat /\ attaches[t] < MaxGeneration
      /\ attaches'[t] = attaches[t] + 1
      /\ nextGeneration'[t] = IF n = MaxGeneration THEN 1 ELSE n + 1
  BY TokenAssumption DEF TokenAssumption, Inv, NextGeneration, WrappingAdd
<1>2. Issued(t, n)' /\ ~Issued(t, n)
  BY <1>1 DEF Issued, Back
<1>3. \A g \in Nat : Issued(t, g) => Issued(t, g)'
  BY <1>1 DEF Issued, Back
<1>4. \A u \in Threads \ {t}, g \in Nat : Issued(u, g) => Issued(u, g)'
  BY DEF Inv, Issued, Back
<1>5. QED
  BY <1>1, <1>2, <1>3, <1>4

(* Init establishes the invariant. *)
LEMMA TokenInit == Init => TokenInv
<1> SUFFICES ASSUME Init PROVE TokenInv
  OBVIOUS
<1>1. Numbered
  BY DEF Init, Numbered, Unborn
<1>2. EntriesIssued
  BY DEF Init, EntriesIssued
<1>3. QED
  BY <1>1, <1>2, InitInv DEF TokenInv, Known, Init

(* What a thread's number and an issued generation say outlives every step. *)
LEMMA KnownStays ==
  ASSUME Inv, NEW token, Known(token),
         \A u \in Threads : threadToken[u] # 0 => threadToken'[u] = threadToken[u],
         \A u \in Threads, g \in Nat : Issued(u, g) => Issued(u, g)'
  PROVE  Known(token)'
<1>1. CASE token = Inactive
  BY <1>1 DEF Known
<1>2. CASE token # Inactive
  <2>1. PICK t \in Threads : /\ threadToken[t] # 0 /\ token.thread_token = threadToken[t]
                             /\ Issued(t, token.generation)
    BY <1>2 DEF Known
  <2>2. threadToken'[t] = threadToken[t] /\ Issued(t, token.generation)'
    BY <2>1 DEF Issued
  <2>3. QED
    BY <2>1, <2>2 DEF Known
<1>3. QED
  BY <1>1, <1>2

(* An attachment adds an entry whose generation is the thread's own, and its token was
   nobody's before (context.rs:306-350). *)
LEMMA AttachStep ==
  ASSUME TokenInv, NEW t \in Threads, NEW c \in Contexts, NEW s \in Scopes, attach(t, c, s)
  PROVE  /\ Numbered' /\ EntriesIssued' /\ \A r \in Scopes : Known(scope[r])'
         /\ \A u \in Threads : threadToken[u] # 0 => threadToken'[u] = threadToken[u]
         /\ \A u \in Threads \ {t} : stack'[u] = stack[u]
         /\ threadToken'[t] # 0 /\ ~Issued(t, Generation(t))
         /\ DOMAIN stack'[t] = DOMAIN stack[t] \cup {Len(stack[t]) + 1}
         /\ \A n \in DOMAIN stack[t] : stack'[t][n] = stack[t][n]
         /\ stack'[t][Len(stack[t]) + 1].generation = Generation(t)
         /\ Len(stack[t]) + 1 \notin DOMAIN stack[t]
<1> SUFFICES ASSUME NEW made, made = Generation(t),
                    NEW e, e = [generation |-> made, context |-> c, outer |-> current_data(t)],
                    NEW d, d = Len(stack[t]) + 1
             PROVE  /\ Numbered' /\ EntriesIssued' /\ \A r \in Scopes : Known(scope[r])'
                    /\ \A u \in Threads : threadToken[u] # 0 => threadToken'[u] = threadToken[u]
                    /\ \A u \in Threads \ {t} : stack'[u] = stack[u]
                    /\ threadToken'[t] # 0 /\ ~Issued(t, made)
                    /\ DOMAIN stack'[t] = DOMAIN stack[t] \cup {d}
                    /\ \A n \in DOMAIN stack[t] : stack'[t][n] = stack[t][n]
                    /\ stack'[t][d].generation = made
                    /\ d \notin DOMAIN stack[t]
  OBVIOUS
<1>1. /\ Inv /\ Numbered /\ EntriesIssued /\ \A r \in Scopes : Known(scope[r])
      /\ EnsureStack(t) /\ attaches[t] < MaxAttaches
      /\ stack' = [stack EXCEPT ![t] = Append(@, e)]
      /\ nextGeneration' = [nextGeneration EXCEPT ![t] = NextGeneration(t)]
      /\ scope' = [scope EXCEPT ![s] = [thread_token |-> Token(t), generation |-> made]]
      /\ attaches' = [attaches EXCEPT ![t] = @ + 1]
  BY DEF TokenInv, attach
<1>2. /\ Numbered' /\ threadToken'[t] = Token(t) /\ threadToken'[t] # 0
      /\ \A u \in Threads : threadToken[u] # 0 => threadToken'[u] = threadToken[u]
  BY <1>1, StackMade
<1>3. /\ made \in 1..MaxGeneration /\ Issued(t, made)' /\ ~Issued(t, made)
      /\ \A u \in Threads, g \in Nat : Issued(u, g) => Issued(u, g)'
  <2>1. Generation(t) \in 1..MaxGeneration
    BY <1>1, GenerationTaken
  <2>2. /\ \A g \in Nat : g = Generation(t) => Issued(t, g)' /\ ~Issued(t, g)
        /\ \A u \in Threads, g \in Nat : Issued(u, g) => Issued(u, g)'
    BY <1>1, GenerationTaken
  <2>3. made \in 1..MaxGeneration /\ made \in Nat /\ made = Generation(t)
    BY <2>1, ContextStackAssumption DEF ContextStackAssumption
  <2>4. QED
    BY <2>2, <2>3
<1>4. /\ \A u \in Threads \ {t} : stack'[u] = stack[u]
      /\ DOMAIN stack'[t] = DOMAIN stack[t] \cup {d} /\ d \notin DOMAIN stack[t]
      /\ \A n \in DOMAIN stack[t] : stack'[t][n] = stack[t][n]
      /\ stack'[t][d] = e
  <2>1. stack[t] \in Seq(EntryType) /\ stack'[t] = Append(stack[t], e)
        /\ \A u \in Threads \ {t} : stack'[u] = stack[u]
    BY <1>1 DEF Inv
  <2>2. QED
    BY <2>1
<1>5. stack'[t][d].generation = made
  BY <1>4
<1>6. EntriesIssued'
  <2>1. ASSUME NEW u \in Threads \ {t}
        PROVE  /\ stack'[u] # <<>> => threadToken'[u] # 0
               /\ \A n \in DOMAIN stack'[u] : Issued(u, stack[u][n].generation)'
               /\ \A m, n \in DOMAIN stack'[u] :
                    stack'[u][m].generation = stack'[u][n].generation => m = n
    <3>1. /\ stack[u] # <<>> => threadToken[u] # 0
          /\ \A n \in DOMAIN stack[u] : Issued(u, stack[u][n].generation)
          /\ \A m, n \in DOMAIN stack[u] :
               stack[u][m].generation = stack[u][n].generation => m = n
      BY <1>1 DEF EntriesIssued
    <3>2. \A n \in DOMAIN stack[u] : Issued(u, stack[u][n].generation)'
      <4>1. ASSUME NEW g, Issued(u, g) PROVE Issued(u, g)'
        BY <1>3, <4>1 DEF Issued
      <4>2. stack' = stack' /\ stack'[u] = stack[u]
        BY <1>4
      <4>3. ASSUME NEW n \in DOMAIN stack[u], NEW g, g = stack[u][n].generation
            PROVE  Issued(u, g)'
        BY <3>1, <4>1, <4>3
      <4>4. QED
        BY <4>2, <4>3
    <3>3. QED
      BY <1>2, <1>4, <3>1, <3>2
  <2>2. ASSUME NEW n \in DOMAIN stack'[t] PROVE Issued(t, stack[t][n].generation)'
    <3>1. ASSUME NEW g, g = stack[t][n].generation, n \in DOMAIN stack[t]
          PROVE  Issued(t, g)'
      <4>1. Issued(t, g)
        BY <1>1, <3>1 DEF EntriesIssued
      <4>2. QED
        BY <1>3, <4>1 DEF Issued
    <3>2. QED
      BY <1>3, <1>4, <1>5, <3>1
  <2>3. ASSUME NEW m \in DOMAIN stack'[t], NEW n \in DOMAIN stack'[t],
               stack'[t][m].generation = stack'[t][n].generation
        PROVE  m = n
    <3>1. \A n1 \in DOMAIN stack[t] : stack[t][n1].generation # made
      BY <1>1, <1>3 DEF EntriesIssued
    <3>2. QED
      BY <1>1, <1>4, <1>5, <2>3, <3>1 DEF EntriesIssued
  <2>4. QED
    BY <1>2, <2>1, <2>2, <2>3 DEF EntriesIssued
<1>7. ASSUME NEW r \in Scopes
      PROVE  Known(scope[r])'
  <2>1. CASE r = s
    <3>1. scope'[r] = [thread_token |-> Token(t), generation |-> made]
      BY <1>1, <2>1 DEF Inv
    <3>2. QED
      BY <1>2, <1>3, <3>1 DEF Known
  <2>2. CASE r # s
    <3>1. scope'[r] = scope[r]
      BY <1>1, <2>2 DEF Inv
    <3>2. ASSUME NEW token, token = scope[r] PROVE Known(token)'
      BY <1>1, <1>2, <1>3, <3>2, KnownStays
    <3>3. QED
      BY <3>1, <3>2
  <2>3. QED
    BY <2>1, <2>2
<1>8. QED
  BY <1>2, <1>3, <1>4, <1>5, <1>6, <1>7

(* A step that takes no generation, adds no entry and writes no token but one it has or
   the inactive one keeps the invariant. *)
LEMMA QuietStep ==
  ASSUME TokenInv, UNCHANGED <<nextGeneration, attaches>>, Numbered',
         \A u \in Threads : threadToken[u] # 0 => threadToken'[u] = threadToken[u],
         \A u \in Threads : /\ DOMAIN stack'[u] \subseteq DOMAIN stack[u]
                            /\ stack'[u] # <<>> => stack[u] # <<>>
                            /\ \A n \in DOMAIN stack'[u] : stack'[u][n] = stack[u][n],
         \A r \in Scopes : scope'[r] = Inactive \/ \E s \in Scopes : scope'[r] = scope[s]
  PROVE  EntriesIssued' /\ \A r \in Scopes : Known(scope[r])'
<1>1. Inv /\ EntriesIssued /\ \A s \in Scopes : Known(scope[s])
  BY DEF TokenInv
<1>2. \A u \in Threads : \A g : Issued(u, g)' <=> Issued(u, g)
  BY DEF Issued, Back
<1>3. EntriesIssued'
  <2>1. ASSUME NEW u \in Threads
        PROVE  /\ stack'[u] # <<>> => threadToken'[u] # 0
               /\ \A n \in DOMAIN stack'[u] : Issued(u, stack[u][n].generation)'
               /\ \A m, n \in DOMAIN stack'[u] :
                    stack'[u][m].generation = stack'[u][n].generation => m = n
    <3>1. /\ stack[u] # <<>> => threadToken[u] # 0
          /\ \A n \in DOMAIN stack[u] : Issued(u, stack[u][n].generation)
          /\ \A m, n \in DOMAIN stack[u] :
               stack[u][m].generation = stack[u][n].generation => m = n
      BY <1>1 DEF EntriesIssued
    <3>2. ASSUME NEW n \in DOMAIN stack'[u] PROVE Issued(u, stack[u][n].generation)'
      <4>1. ASSUME NEW g, g = stack[u][n].generation PROVE Issued(u, g)'
        BY <1>2, <3>1, <4>1
      <4>2. stack'[u][n] = stack[u][n]
        OBVIOUS
      <4>3. QED
        BY <4>1, <4>2
    <3>3. QED
      BY <3>1, <3>2
  <2>2. QED
    BY <2>1 DEF EntriesIssued
<1>4. ASSUME NEW r \in Scopes PROVE Known(scope[r])'
  <2>1. ASSUME NEW token, token = scope'[r] PROVE Known(token)'
    <3>1. CASE token = Inactive
      BY <3>1 DEF Known
    <3>2. ASSUME NEW s \in Scopes, token = scope[s] PROVE Known(token)'
      <4>1. Known(token)
        BY <1>1, <3>2
      <4>2. QED
        BY <1>1, <1>2, <4>1, KnownStays
    <3>3. QED
      BY <2>1, <3>1, <3>2
  <2>2. QED
    BY <2>1
<1>5. QED
  BY <1>3, <1>4

(* What every step does to numbers, entries and tokens: an attachment adds one entry, and
   every other step adds none. *)
LEMMA TokenSteps ==
  ASSUME TokenInv, [Next]_vars
  PROVE  \/ \E t \in Threads, c \in Contexts, s \in Scopes : attach(t, c, s)
         \/ /\ UNCHANGED <<nextGeneration, attaches>> /\ Numbered'
            /\ \A u \in Threads : threadToken[u] # 0 => threadToken'[u] = threadToken[u]
            /\ \A u \in Threads : /\ DOMAIN stack'[u] \subseteq DOMAIN stack[u]
                                  /\ stack'[u] # <<>> => stack[u] # <<>>
                                  /\ \A n \in DOMAIN stack'[u] : stack'[u][n] = stack[u][n]
            /\ \A r \in Scopes : scope'[r] = Inactive \/ \E s \in Scopes : scope'[r] = scope[s]
<1> DEFINE numbers == /\ Numbered'
                      /\ \A u \in Threads : threadToken[u] # 0 => threadToken'[u] = threadToken[u]
           entries == \A u \in Threads : /\ DOMAIN stack'[u] \subseteq DOMAIN stack[u]
                                         /\ stack'[u] # <<>> => stack[u] # <<>>
                                         /\ \A n \in DOMAIN stack'[u] : stack'[u][n] = stack[u][n]
           tokens == \A r \in Scopes : scope'[r] = Inactive \/ \E s \in Scopes : scope'[r] = scope[s]
           quiet == UNCHANGED <<nextGeneration, attaches>> /\ numbers /\ entries /\ tokens
<1>1. Inv /\ Numbered
  BY DEF TokenInv
<1>2. UNCHANGED stackVars => numbers
  BY <1>1 DEF stackVars, Numbered, Ahead, FirstToken, Unborn
<1>3. \A t \in Threads : EnsureStack(t) => numbers
  BY <1>1, StackMade
<1>4. UNCHANGED stack => entries
  OBVIOUS
<1>5. UNCHANGED scope => tokens
  OBVIOUS
<1>6. \A s \in Scopes : scope' = [scope EXCEPT ![s] = Inactive] => tokens
  BY <1>1 DEF Inv
<1> HIDE DEF numbers
<1>7. ASSUME NEW t \in Threads, current(t) PROVE quiet
  BY <1>3, <1>4, <1>5, <1>7 DEF current
<1>8. ASSUME NEW t \in Threads, ThreadExit(t) PROVE quiet
  <2>1. entries
    BY <1>1, <1>8 DEF ThreadExit, Inv
  <2>2. QED
    BY <1>2, <1>5, <1>8, <2>1 DEF ThreadExit
<1>9. ASSUME NEW t \in Threads, NEW s \in Scopes, attach_refused(t, s) PROVE quiet
  BY <1>2, <1>3, <1>4, <1>6, <1>9 DEF attach_refused
<1>10. ASSUME NEW t \in Threads, NEW s \in Scopes, scope_detach(t, s) PROVE quiet
  <2>1. entries
    <3>1. /\ stack[t] \in Seq(EntryType) /\ stack[t] # <<>>
          /\ stack'[t] = SubSeq(stack[t], 1, Len(stack[t]) - 1)
          /\ \A u \in Threads \ {t} : stack'[u] = stack[u]
      BY <1>1, <1>10 DEF scope_detach, Inv
    <3>2. Len(stack[t]) \in Nat \ {0} /\ DOMAIN stack[t] = 1..Len(stack[t])
      BY <3>1
    <3>3. /\ DOMAIN stack'[t] = 1..(Len(stack[t]) - 1)
          /\ \A n \in 1..(Len(stack[t]) - 1) : stack'[t][n] = stack[t][n]
      BY <3>1, <3>2
    <3>4. DOMAIN stack'[t] \subseteq DOMAIN stack[t]
      BY <3>2, <3>3
    <3>5. QED
      BY <3>1, <3>3, <3>4
  <2>2. QED
    BY <1>2, <1>6, <1>10, <2>1 DEF scope_detach
<1>11. ASSUME NEW from \in Scopes, NEW to \in Scopes, copy_token(from, to) PROVE quiet
  <2>1. tokens
    BY <1>1, <1>11 DEF copy_token, Inv
  <2>2. QED
    BY <1>2, <1>4, <1>11, <2>1 DEF copy_token
<1>12. ASSUME UNCHANGED vars PROVE quiet
  BY <1>2, <1>4, <1>5, <1>12 DEF vars
<1> HIDE DEF quiet
<1>13. (\E t \in Threads, c \in Contexts, s \in Scopes : attach(t, c, s)) \/ quiet
  BY <1>7, <1>8, <1>9, <1>10, <1>11, <1>12 DEF Next
<1>14. QED
  BY <1>13 DEF quiet, numbers

(* Every action keeps the invariant. *)
LEMMA TokenStep == TokenInv /\ [Next]_vars => TokenInv'
<1> SUFFICES ASSUME TokenInv, [Next]_vars PROVE TokenInv'
  OBVIOUS
<1>1. Inv'
  BY StepInv DEF TokenInv
<1>2. ASSUME NEW t \in Threads, NEW c \in Contexts, NEW s \in Scopes, attach(t, c, s)
      PROVE  Numbered' /\ EntriesIssued' /\ \A r \in Scopes : Known(scope[r])'
  BY <1>2, AttachStep
<1>3. Numbered' /\ EntriesIssued' /\ \A r \in Scopes : Known(scope[r])'
  BY <1>2, TokenSteps, QuietStep
<1>4. QED
  BY <1>1, <1>3 DEF TokenInv

(* The invariant holds in every reachable state. *)
LEMMA TokenInvariant == Spec => []TokenInv
BY TokenInit, TokenStep, PTL DEF Spec

(* Every attachment can be undone, and alone, even after a counter has wrapped
   (context.rs:72, 84, 391, 397). *)
THEOREM TokensIdentifyHolds == Spec => []TokensIdentify
<1>1. ASSUME TokenInv PROVE TokensIdentify
  <2>1. ASSUME NEW e \in Entries
        PROVE  /\ e[1] \in Threads /\ e[2] \in DOMAIN stack[e[1]] /\ e = <<e[1], e[2]>>
               /\ TokenOf(e).thread_token = threadToken[e[1]] /\ threadToken[e[1]] # 0
               /\ TokenOf(e).generation = stack[e[1]][e[2]].generation
               /\ TokenOf(e).generation # 0
    <3>1. e[1] \in Threads /\ e[2] \in DOMAIN stack[e[1]] /\ e = <<e[1], e[2]>>
      BY DEF Entries
    <3>2. threadToken[e[1]] # 0 /\ Issued(e[1], stack[e[1]][e[2]].generation)
      BY <1>1, <3>1 DEF TokenInv, EntriesIssued
    <3>3. QED
      BY <3>1, <3>2 DEF TokenOf, Issued
  <2>2. ASSUME NEW d \in Entries, NEW e \in Entries, TokenOf(d) = TokenOf(e) PROVE d = e
    <3>1. d[1] = e[1]
      BY <1>1, <2>1, <2>2 DEF TokenInv, Numbered
    <3>2. d[2] = e[2]
      BY <1>1, <2>1, <2>2, <3>1 DEF TokenInv, EntriesIssued
    <3>3. QED
      BY <2>1, <3>1, <3>2
  <2>3. QED
    BY <2>1, <2>2 DEF TokensIdentify
<1>2. QED
  BY <1>1, TokenInvariant, PTL

(* A token that is no attachment's stays so: a step that attaches takes a number and a
   generation that no token of the caller has. *)
LEMMA DeadTokens ==
  ASSUME TokenInv, [Next]_vars, NEW s \in Scopes, NEW token, token = scope[s], ~Attached(token)
  PROVE  ~Attached(token)'
<1> SUFFICES ASSUME NEW e \in Entries', TokenOf(e)' = token PROVE FALSE
  BY DEF Attached
<1> SUFFICES ASSUME NEW u, u = e[1], NEW n, n = e[2] PROVE FALSE
  OBVIOUS
<1>1. /\ u \in Threads /\ n \in 1..MaxDepth /\ n \in DOMAIN stack'[u] /\ e = <<u, n>>
      /\ token.thread_token = threadToken'[u] /\ token.generation = stack'[u][n].generation
  BY DEF Entries, TokenOf
<1>2. stack'[u] # <<>>
  BY <1>1
<1>3. TokenInv' /\ threadToken'[u] # 0
  BY <1>1, <1>2, TokenStep DEF TokenInv, EntriesIssued
<1>4. ASSUME n \in DOMAIN stack[u], stack'[u][n] = stack[u][n],
             threadToken[u] # 0 => threadToken'[u] = threadToken[u]
      PROVE  FALSE
  <2>1. stack[u] # <<>>
    BY <1>4
  <2>2. threadToken'[u] = threadToken[u]
    BY <1>1, <1>4, <2>1 DEF TokenInv, EntriesIssued
  <2>3. token = [thread_token |-> threadToken'[u], generation |-> stack'[u][n].generation]
    BY <1>1 DEF TokenOf
  <2>4. e \in Entries /\ TokenOf(e) = token
    BY <1>1, <1>4, <2>2, <2>3 DEF Entries, TokenOf
  <2>5. QED
    BY <2>4 DEF Attached
<1>5. ASSUME NEW t \in Threads, NEW c \in Contexts, NEW r \in Scopes, attach(t, c, r)
      PROVE  FALSE
  <2>1. u = t /\ n = Len(stack[t]) + 1
    <3>1. /\ \A v \in Threads : threadToken[v] # 0 => threadToken'[v] = threadToken[v]
          /\ \A v \in Threads \ {t} : stack'[v] = stack[v]
          /\ DOMAIN stack'[t] = DOMAIN stack[t] \cup {Len(stack[t]) + 1}
          /\ \A m \in DOMAIN stack[t] : stack'[t][m] = stack[t][m]
      BY <1>5, AttachStep
    <3>2. u = t
      BY <1>1, <1>4, <3>1
    <3>3. QED
      BY <1>1, <1>4, <3>1, <3>2
  <2>2. token.generation = Generation(t) /\ ~Issued(t, Generation(t))
    BY <1>1, <1>5, <2>1, AttachStep
  <2>3. token # Inactive
    BY <1>1, <1>3 DEF Inactive
  <2>4. PICK v \in Threads : /\ threadToken[v] # 0 /\ token.thread_token = threadToken[v]
                             /\ Issued(v, token.generation)
    BY <2>3 DEF TokenInv, Known
  <2>5. threadToken'[v] = threadToken[v]
    BY <1>5, <2>4, AttachStep
  <2>6. v = t
    BY <1>1, <1>3, <2>1, <2>4, <2>5 DEF TokenInv, Numbered
  <2>7. QED
    BY <2>2, <2>4, <2>6
<1>6. QED
  BY <1>1, <1>4, <1>5, TokenSteps

(* A token that was used, or whose entry went with its thread, never becomes good again,
   and neither does a copy of it (context.rs:400). *)
THEOREM UsedTokensStayDeadHolds == Spec => UsedTokensStayDead
<1> DEFINE stays == \A s, r \in Scopes :
                      ~Attached(scope[s]) /\ scope'[r] = scope[s] => ~Attached(scope[r])'
<1>1. TokenInv /\ [Next]_vars => stays
  <2> SUFFICES ASSUME TokenInv, [Next]_vars, NEW s \in Scopes, NEW r \in Scopes,
                      ~Attached(scope[s]), scope'[r] = scope[s]
               PROVE  ~Attached(scope[r])'
    OBVIOUS
  <2>1. ASSUME NEW token, token = scope[s] PROVE ~Attached(token)'
    BY <2>1, DeadTokens
  <2>2. QED
    BY <2>1 DEF Attached
<1>2. QED
  BY <1>1, TokenInvariant, PTL DEF Spec, UsedTokensStayDead
================================================================================
