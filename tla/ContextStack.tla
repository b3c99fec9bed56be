------------------------------ MODULE ContextStack ------------------------------
(***************************************************************************)
(* The attachment stack of the cross-signal context                        *)
(* (api/src/context.rs): every thread has a stack of attached contexts,    *)
(* and an attachment is undone with a token the caller keeps in memory of  *)
(* its own, free to copy it, to carry it to another thread, to use it      *)
(* twice or to attach over it.                                             *)
(*                                                                         *)
(* A token is the thread's number and a generation; both are 64-bit        *)
(* counters that wrap and skip 0, the value of an inactive token.  Calls   *)
(* that are refused and leave memory alone are not steps.                  *)
(***************************************************************************)
EXTENDS Naturals, Sequences, FiniteSets

CONSTANTS
  Threads,         (* threads, each of which runs once                    *)
  Scopes,          (* the caller's otel_context_scope_t objects           *)
  Contexts,        (* what contexts hold                                  *)
  NoContext,       (* nothing is attached                                 *)
  MaxDepth,        (* MAX_CONTEXT_DEPTH                                   *)
  MaxGeneration,   (* the largest generation, 2^64 - 1                    *)
  MaxThreadToken,  (* the largest thread token, 2^64 - 1                  *)
  MaxAttaches      (* bound: attachments each thread makes                *)

ASSUME ContextStackAssumption ==
  /\ NoContext \notin Contexts
  /\ MaxDepth \in Nat /\ MaxAttaches \in Nat
  /\ MaxGeneration \in Nat \ {0} /\ MaxThreadToken \in Nat \ {0}

(* Far fewer threads and attachments than 2^64. *)
ASSUME TokenAssumption ==
  /\ MaxAttaches <= MaxGeneration
  /\ IsFiniteSet(Threads) /\ Cardinality(Threads) <= MaxThreadToken

VARIABLES
  nextThreadToken,   (* NEXT_THREAD_TOKEN                                  *)
  threadToken,       (* ContextStack.thread_token, 0 before it is made     *)
  nextGeneration,    (* ContextStack.next_generation                       *)
  stack,             (* ContextStack.entries, the current context last     *)
  scope,             (* the tokens in the caller's memory                  *)
  exited,            (* threads that have ended                            *)
  attaches           (* attachments made so far, for the bound             *)

stackVars == <<nextThreadToken, threadToken>>
vars == <<stackVars, nextGeneration, stack, scope, exited, attaches>>

Inactive == [thread_token |-> 0, generation |-> 0]

(* Fault: threads do not share the counter. *)
FirstTokenLocal == 1

(* NEXT_THREAD_TOKEN.fetch_add, and once more if it gave 0. *)
FirstToken == IF nextThreadToken = 0 THEN 1 ELSE nextThreadToken

(* Threads whose stack is not made yet. *)
Unborn == {t \in Threads : threadToken[t] = 0}

(* How many numbers are given out before n is. *)
Ahead(n) == IF n >= FirstToken THEN n - FirstToken ELSE n + MaxThreadToken - FirstToken

(* A program that has run for a while: threads that have ended and attachments
   that were undone have moved the counters on, up to a wrap perhaps.  No number
   a thread will get has come round to one still in use. *)
Init ==
  /\ nextThreadToken \in 0..MaxThreadToken
  /\ threadToken \in [Threads -> 0..MaxThreadToken]
  /\ \A t, u \in Threads : threadToken[t] = threadToken[u] => t = u \/ threadToken[t] = 0
  /\ \A t \in Threads \ Unborn : Ahead(threadToken[t]) >= Cardinality(Unborn)
  /\ nextGeneration \in [Threads -> {1, MaxGeneration}]
  /\ \A t \in Threads : threadToken[t] = 0 => nextGeneration[t] = 1
  /\ stack = [t \in Threads |-> <<>>]
  /\ scope = [s \in Scopes |-> Inactive]
  /\ exited = {}
  /\ attaches = [t \in Threads |-> 0]

(* The counters: 64-bit addition that wraps to 0. *)
WrappingAdd(n, max) == IF n = max THEN 0 ELSE n + 1

(* ContextStack::new, run by the first access to the thread's stack. *)
EnsureStack(t) ==
  IF threadToken[t] # 0 THEN UNCHANGED stackVars
  ELSE /\ threadToken' = [threadToken EXCEPT ![t] = FirstToken]
       /\ nextThreadToken' = WrappingAdd(FirstToken, MaxThreadToken)

Token(t) == IF threadToken[t] # 0 THEN threadToken[t] ELSE FirstToken

(* allocate_generation: what it leaves for the next attachment ... *)
NextGeneration(t) ==
  IF WrappingAdd(nextGeneration[t], MaxGeneration) = 0 THEN 1
  ELSE nextGeneration[t] + 1

(* Fault: the depth serves as the generation. *)
GenerationByDepth(t) == Len(stack[t]) + 1

(* ... and what it returns. *)
Generation(t) == nextGeneration[t]

HasRoom(t) == Len(stack[t]) < MaxDepth

current_data(t) == IF stack[t] = <<>> THEN NoContext ELSE stack[t][Len(stack[t])].context

--------------------------------------------------------------------------------
(* otel_context_current and the signals that read the ambient context. *)
current(t) ==
  /\ t \notin exited
  /\ EnsureStack(t)
  /\ UNCHANGED <<nextGeneration, stack, scope, exited, attaches>>

(* otel_context_attach: the token is made inactive, a new entry is pushed and
   its token written.  `outer`, which the code does not keep, remembers what was
   current before. *)
attach(t, c, s) ==
  /\ t \notin exited
  /\ HasRoom(t)
  /\ attaches[t] < MaxAttaches
  /\ EnsureStack(t)
  /\ stack' = [stack EXCEPT ![t] =
       Append(@, [generation |-> Generation(t), context |-> c,
                  outer |-> current_data(t)])]
  /\ nextGeneration' = [nextGeneration EXCEPT ![t] = NextGeneration(t)]
  /\ scope' = [scope EXCEPT ![s] =
       [thread_token |-> Token(t), generation |-> Generation(t)]]
  /\ attaches' = [attaches EXCEPT ![t] = @ + 1]
  /\ UNCHANGED exited

(* The handle is not a context, or the stack is full: the token stays inactive. *)
attach_refused(t, s) ==
  /\ t \notin exited
  /\ \/ UNCHANGED stackVars
     \/ ~HasRoom(t) /\ EnsureStack(t)
  /\ scope' = [scope EXCEPT ![s] = Inactive]
  /\ UNCHANGED <<nextGeneration, stack, exited, attaches>>

(* Fault: the entry is looked for anywhere in the stack. *)
scope_detach_anywhere(t, s) ==
  /\ t \notin exited
  /\ scope[s].thread_token = threadToken[t] /\ scope[s].thread_token # 0
  /\ \E n \in DOMAIN stack[t] :
       /\ stack[t][n].generation = scope[s].generation
       /\ stack' = [stack EXCEPT ![t] = SubSeq(@, 1, n - 1) \o SubSeq(@, n + 1, Len(@))]
  /\ scope' = [scope EXCEPT ![s] = Inactive]
  /\ UNCHANGED <<stackVars, nextGeneration, exited, attaches>>

(* otel_context_scope_detach: an active token of this thread's innermost entry.
   Every other token is refused and changes no memory. *)
scope_detach(t, s) ==
  /\ t \notin exited
  /\ scope[s].thread_token # 0 /\ scope[s].generation # 0
  /\ scope[s].thread_token = threadToken[t]
  /\ stack[t] # <<>>
  /\ stack[t][Len(stack[t])].generation = scope[s].generation
  /\ stack' = [stack EXCEPT ![t] = SubSeq(@, 1, Len(@) - 1)]
  /\ scope' = [scope EXCEPT ![s] = Inactive]
  /\ UNCHANGED <<stackVars, nextGeneration, exited, attaches>>

(* The caller copies a token, to another thread perhaps. *)
copy_token(from, to) ==
  /\ scope' = [scope EXCEPT ![to] = scope[from]]
  /\ UNCHANGED <<stackVars, nextGeneration, stack, exited, attaches>>

(* The thread-local stack goes with its thread, attachments left on it too. *)
ThreadExit(t) ==
  /\ t \notin exited
  /\ exited' = exited \cup {t}
  /\ stack' = [stack EXCEPT ![t] = <<>>]
  /\ UNCHANGED <<stackVars, nextGeneration, scope, attaches>>

Next ==
  \/ \E t \in Threads : current(t) \/ ThreadExit(t)
  \/ \E t \in Threads, s \in Scopes :
       \/ \E c \in Contexts : attach(t, c, s)
       \/ attach_refused(t, s)
       \/ scope_detach(t, s)
  \/ \E from, to \in Scopes : copy_token(from, to)

Spec == Init /\ [][Next]_vars

--------------------------------------------------------------------------------
(* Properties. *)

TokenType == [thread_token : Nat, generation : Nat]

(* Every variable holds a value of its kind, and no stack is deeper than 64
   (context.rs:18, 61). *)
TypeOK ==
  /\ nextThreadToken \in 0..MaxThreadToken
  /\ threadToken \in [Threads -> 0..MaxThreadToken]
  /\ nextGeneration \in [Threads -> 1..MaxGeneration]
  /\ \A t \in Threads :
       /\ Len(stack[t]) <= MaxDepth
       /\ \A n \in DOMAIN stack[t] :
            stack[t][n] \in [generation : 1..MaxGeneration, context : Contexts,
                             outer : Contexts \cup {NoContext}]
  /\ scope \in [Scopes -> TokenType]
  /\ exited \subseteq Threads
  /\ attaches \in [Threads -> 0..MaxAttaches]

Entries == {e \in Threads \X (1..MaxDepth) : e[2] \in DOMAIN stack[e[1]]}
TokenOf(e) ==
  [thread_token |-> threadToken[e[1]], generation |-> stack[e[1]][e[2]].generation]

(* Every attachment can be undone, and alone: its token is not the inactive one, even
   after a counter has wrapped (context.rs:72, 84, 391), and no other attachment, of its
   thread or of another, answers to it (context.rs:397). *)
TokensIdentify ==
  /\ \A e \in Entries : TokenOf(e).thread_token # 0 /\ TokenOf(e).generation # 0
  /\ \A d, e \in Entries : TokenOf(d) = TokenOf(e) => d = e

(* Attached(k): some thread's detach would still accept token k sooner or later. *)
Attached(k) == \E e \in Entries : TokenOf(e) = k

(* A token that was used, whose entry was dropped with its thread, or that is a
   copy of such a token, never becomes good again: detaching twice is refused
   for ever (context.rs:400). *)
UsedTokensStayDead ==
  [][\A s, r \in Scopes :
       ~Attached(scope[s]) /\ scope'[r] = scope[s] => ~Attached(scope[r])']_vars

(* Undoing an attachment brings back what was current before it, however other
   attachments came and went meanwhile (context.rs:403). *)
ScopesNest ==
  \A t \in Threads : \A n \in DOMAIN stack[t] :
    stack[t][n].outer = IF n = 1 THEN NoContext ELSE stack[t][n - 1].context
===============================================================================
