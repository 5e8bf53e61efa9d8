--------------------------- MODULE KernelRegistry ---------------------------
(***************************************************************************)
(* Registration of the ImageDecoder kernel (register_image_kernels.cc and  *)
(* the Python binding _imgpy_kernels.cc) and its resolution by onnx-light. *)
(*                                                                         *)
(* A caller registers the kernel either in the global dispatch table, once *)
(* per process behind a plain static flag, or in one RuntimeContext.  A    *)
(* context resolves its kernel at its first run and keeps it; a subgraph's *)
(* context inherits what its enclosing contexts registered.                *)
(***************************************************************************)
EXTENDS Naturals, FiniteSets

CONSTANTS
  Callers,     \* threads that call a registration function
  Contexts,    \* runtime contexts
  Parent,      \* Parent[c]: the context that encloses c, or None
  None,        \* no context
  Global,      \* the target of a registration without a context
  Serialized,  \* TRUE when calls exclude each other (one caller, or the GIL)
  MayThrow     \* TRUE when onnx-light's global RegisterKernelFn may throw

ASSUME ParentAssumption == Parent \in [Contexts -> Contexts \cup {None}]
ASSUME TargetAssumption == None \notin Contexts /\ Global \notin Contexts
ASSUME FlagAssumption == Serialized \in BOOLEAN /\ MayThrow \in BOOLEAN

Targets == Contexts \cup {Global}

VARIABLES
  registered,  \* the function's `static bool registered`
  global,      \* kernel the global dispatch table holds
  local,       \* contexts with a kernel registered on them
  resolved,    \* resolved[c]: the kernel context c runs, "none" before its first run
  call,        \* call[t]: where caller t is
  target,      \* target[t]: what caller t registers on
  completed,   \* targets of the calls that have returned normally
  threw        \* an earlier call has thrown

vars == <<registered, global, local, resolved, call, target, completed, threw>>

Inside == {"checking", "claimed", "publishing"}

TypeOK ==
  /\ registered \in BOOLEAN
  /\ global \in {"upstream", "legacy"}
  /\ local \subseteq Contexts
  /\ resolved \in [Contexts -> {"none", "upstream", "legacy"}]
  /\ call \in [Callers -> Inside \cup {"outside"}]
  /\ target \in [Callers -> Targets]
  /\ completed \subseteq Targets
  /\ threw \in BOOLEAN

Init ==
  /\ registered = FALSE
  /\ global = "upstream"
  /\ local = {}
  /\ resolved = [c \in Contexts |-> "none"]
  /\ call = [t \in Callers |-> "outside"]
  /\ target = [t \in Callers |-> Global]
  /\ completed = {}
  /\ threw = FALSE

-----------------------------------------------------------------------------

\* Caller t enters RegisterImageKernels(): with the GIL, or one calling
\* thread, nobody else is in it.
Call(t) ==
  /\ call[t] = "outside"
  /\ Serialized => \A u \in Callers : call[u] = "outside"
  /\ call' = [call EXCEPT ![t] = "checking"]
  /\ target' = [target EXCEPT ![t] = Global]
  /\ UNCHANGED <<registered, global, local, resolved, completed, threw>>

Leave(t) ==
  /\ call' = [call EXCEPT ![t] = "outside"]
  /\ completed' = completed \cup {target[t]}

\* `if (registered) return;`
ReturnEarly(t) ==
  /\ call[t] = "checking" /\ registered
  /\ Leave(t)
  /\ UNCHANGED <<registered, global, local, resolved, target, threw>>

\* The flag was read FALSE ...
SeeUnregistered(t) ==
  /\ call[t] = "checking" /\ ~registered
  /\ call' = [call EXCEPT ![t] = "claimed"]
  /\ UNCHANGED <<registered, global, local, resolved, target, completed, threw>>

ClaimForgotten(t) ==     \* mutant: the flag is never set
  /\ call[t] = "claimed"
  /\ call' = [call EXCEPT ![t] = "publishing"]
  /\ UNCHANGED <<registered, global, local, resolved, target, completed, threw>>

\* ... and is set, before the table is written.
Claim(t) ==
  /\ call[t] = "claimed"
  /\ registered' = TRUE
  /\ call' = [call EXCEPT ![t] = "publishing"]
  /\ UNCHANGED <<global, local, resolved, target, completed, threw>>

\* RegisterKernelFn("ai.onnx", "ImageDecoder", kCPU, ...) and the return.
Publish(t) ==
  /\ call[t] = "publishing"
  /\ global' = "legacy"
  /\ Leave(t)
  /\ UNCHANGED <<registered, local, resolved, target, threw>>

\* RegisterKernelFn throws: the caller sees the exception and may call again.
Throw(t) ==
  /\ MayThrow
  /\ call[t] = "publishing"
  /\ call' = [call EXCEPT ![t] = "outside"]
  /\ threw' = TRUE
  /\ UNCHANGED <<registered, global, local, resolved, target, completed>>

RegisterLocalOnce(t, c) ==       \* mutant: uses up the process-wide registration
  /\ call[t] = "outside"
  /\ Serialized => \A u \in Callers : call[u] = "outside"
  /\ registered' = TRUE
  /\ local' = local \cup {c}
  /\ target' = [target EXCEPT ![t] = c]
  /\ completed' = completed \cup {c}
  /\ UNCHANGED <<global, resolved, call, threw>>

RegisterLocalGlobally(t, c) ==   \* mutant: writes the table of the process
  /\ call[t] = "outside"
  /\ global' = "legacy"
  /\ UNCHANGED <<registered, local, resolved, call, target, completed, threw>>

RegisterLocalOnParent(t, c) ==   \* mutant: the enclosing context, if any
  /\ call[t] = "outside"
  /\ local' = local \cup {Parent[c]}
  /\ UNCHANGED <<registered, global, resolved, call, target, completed, threw>>

\* RegisterImageKernels(context): one call on the context's own table.
RegisterLocal(t, c) ==
  /\ call[t] = "outside"
  /\ Serialized => \A u \in Callers : call[u] = "outside"
  /\ local' = local \cup {c}
  /\ target' = [target EXCEPT ![t] = c]
  /\ completed' = completed \cup {c}
  /\ UNCHANGED <<registered, global, resolved, call, threw>>

\* Context c and the contexts that enclose it.
Enclosing(c) ==
  LET Up(S) == S \cup ({Parent[d] : d \in S} \ {None})
  IN  Up(Up({c}))

\* A local registration wins, otherwise the global table decides.  (onnx-light)
Kernel(c) == IF Enclosing(c) \cap local # {} THEN "legacy" ELSE global

\* The first run of context c resolves its ImageDecoder kernel.  (onnx-light)
Resolve(c) ==
  /\ resolved[c] = "none"
  /\ resolved' = [resolved EXCEPT ![c] = Kernel(c)]
  /\ UNCHANGED <<registered, global, local, call, target, completed, threw>>

Next ==
  \/ \E t \in Callers :
       \/ Call(t) \/ ReturnEarly(t) \/ SeeUnregistered(t)
       \/ Claim(t) \/ Publish(t) \/ Throw(t)
       \/ \E c \in Contexts : RegisterLocal(t, c)
  \/ \E c \in Contexts : Resolve(c)

Spec == Init /\ [][Next]_vars

-----------------------------------------------------------------------------

\* Context c is about to run its first kernel after a registration for it, for
\* a context around it or for the process has returned.
FirstRunAfterRegistration(c) ==
  /\ resolved[c] = "none" /\ resolved'[c] # "none"
  /\ Global \in completed \/ Enclosing(c) \cap completed # {}

\* A registration that returned before a context's first run is the one the
\* context runs: registered globally, on it, or on a context enclosing it
\* (README "Python usage": "Register before the first run"), as long as no call
\* has thrown.
RegistrationTakesEffect ==
  [][\A c \in Contexts :
       FirstRunAfterRegistration(c) /\ ~threw => resolved'[c] = "legacy"]_vars

\* The same after a call that threw, when the caller calls again ("calling this
\* function more than once is safe", register_image_kernels.h:48).
RepeatedCallTakesEffect ==
  [][\A c \in Contexts :
       FirstRunAfterRegistration(c) => resolved'[c] = "legacy"]_vars

\* Registering on a context reaches neither the global table nor another
\* context: the package's kernel runs only where it was asked for, and the
\* global table changes only for a caller inside the global function
\* (test_registration_does_not_leak).
RegistrationDoesNotLeak ==
  /\ \A c \in Contexts : resolved[c] = "legacy" =>
       registered \/ Enclosing(c) \cap local # {}
  /\ global = "legacy" => Global \in completed

\* The global table is written at most once in the life of the process, however
\* often and from wherever the function is called ("safe and cheap").
PublishedOnce ==
  [][(\E t \in Callers : Publish(t)) => global = "upstream"]_vars
=============================================================================
