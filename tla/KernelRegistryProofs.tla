------------------------ MODULE KernelRegistryProofs ------------------------
(***************************************************************************)
(* KernelRegistry, for any callers, contexts and nesting, whether or not   *)
(* calls exclude each other and whether or not onnx-light throws.          *)
(***************************************************************************)
EXTENDS KernelRegistry, TLAPS

\* What a call has already done at each place in it, and what a published
\* table says of the calls before.
CallsKnown ==
  \A t \in Callers :
    /\ call[t] \in Inside => target[t] = Global
    /\ call[t] = "publishing" => registered

TableKnown == global = "legacy" => registered

RegistryInvariant ==
  TypeOK /\ CallsKnown /\ TableKnown /\ RegistrationDoesNotLeak

LEMMA InitHolds == Init => RegistryInvariant
<1> SUFFICES ASSUME Init PROVE RegistryInvariant
  OBVIOUS
<1>1. TypeOK
  BY DEF Init, TypeOK, Targets, Inside
<1>2. CallsKnown /\ TableKnown /\ RegistrationDoesNotLeak
  BY DEF Init, CallsKnown, TableKnown, RegistrationDoesNotLeak, Inside
<1> QED BY <1>1, <1>2 DEF RegistryInvariant

\* A context's enclosing contexts do not depend on the state, and its kernel is
\* the package's only when a table around it says so.
LEMMA KernelKnown ==
  ASSUME RegistryInvariant, NEW c \in Contexts
  PROVE  /\ Kernel(c) \in {"none", "upstream", "legacy"}
         /\ Kernel(c) = "legacy" => registered \/ Enclosing(c) \cap local # {}
<1>1. global \in {"upstream", "legacy"} /\ (global = "legacy" => registered)
  BY DEF RegistryInvariant, TypeOK, TableKnown
<1> QED BY <1>1 DEF Kernel

LEMMA StepPreserves ==
  RegistryInvariant /\ [Next]_vars => RegistryInvariant'
<1> SUFFICES ASSUME RegistryInvariant, [Next]_vars PROVE RegistryInvariant'
  OBVIOUS
<1>1. TypeOK /\ CallsKnown /\ TableKnown /\ RegistrationDoesNotLeak
  BY DEF RegistryInvariant
<1>2. \A c \in Contexts : Enclosing(c)' = Enclosing(c)
  BY DEF Enclosing
<1>3. ASSUME NEW t \in Callers, Call(t) PROVE RegistryInvariant'
  <2>1. TypeOK'
    BY <1>1, <1>3 DEF Call, TypeOK, Inside, Targets
  <2>2. CallsKnown'
    BY <1>1, <1>3 DEF Call, TypeOK, CallsKnown
  <2>3. TableKnown' /\ RegistrationDoesNotLeak'
    BY <1>1, <1>2, <1>3 DEF Call, TableKnown, RegistrationDoesNotLeak
  <2> QED BY <2>1, <2>2, <2>3 DEF RegistryInvariant
<1>4. ASSUME NEW t \in Callers, ReturnEarly(t) PROVE RegistryInvariant'
  <2>1. TypeOK'
    BY <1>1, <1>4 DEF ReturnEarly, Leave, TypeOK, Inside, Targets
  <2>2. CallsKnown'
    BY <1>1, <1>4 DEF ReturnEarly, Leave, TypeOK, CallsKnown, Inside
  <2>3. TableKnown' /\ RegistrationDoesNotLeak'
    BY <1>1, <1>2, <1>4 DEF ReturnEarly, Leave, TableKnown, RegistrationDoesNotLeak
  <2> QED BY <2>1, <2>2, <2>3 DEF RegistryInvariant
<1>5. ASSUME NEW t \in Callers, SeeUnregistered(t) PROVE RegistryInvariant'
  <2>1. TypeOK'
    BY <1>1, <1>5 DEF SeeUnregistered, TypeOK, Inside
  <2>2. CallsKnown'
    BY <1>1, <1>5 DEF SeeUnregistered, TypeOK, CallsKnown, Inside
  <2>3. TableKnown' /\ RegistrationDoesNotLeak'
    BY <1>1, <1>2, <1>5 DEF SeeUnregistered, TableKnown, RegistrationDoesNotLeak
  <2> QED BY <2>1, <2>2, <2>3 DEF RegistryInvariant
<1>6. ASSUME NEW t \in Callers, Claim(t) PROVE RegistryInvariant'
  <2>1. TypeOK'
    BY <1>1, <1>6 DEF Claim, TypeOK, Inside
  <2>2. CallsKnown'
    BY <1>1, <1>6 DEF Claim, TypeOK, CallsKnown, Inside
  <2>3. TableKnown' /\ RegistrationDoesNotLeak'
    BY <1>1, <1>2, <1>6 DEF Claim, TableKnown, RegistrationDoesNotLeak
  <2> QED BY <2>1, <2>2, <2>3 DEF RegistryInvariant
<1>7. ASSUME NEW t \in Callers, Publish(t) PROVE RegistryInvariant'
  <2>1. target[t] = Global /\ registered
    BY <1>1, <1>7 DEF Publish, CallsKnown, Inside
  <2>2. TypeOK'
    BY <1>1, <1>7 DEF Publish, Leave, TypeOK, Inside, Targets
  <2>3. CallsKnown'
    BY <1>1, <1>7 DEF Publish, Leave, TypeOK, CallsKnown, Inside
  <2>4. TableKnown' /\ RegistrationDoesNotLeak'
    BY <1>1, <1>2, <1>7, <2>1 DEF Publish, Leave, TableKnown, RegistrationDoesNotLeak
  <2> QED BY <2>2, <2>3, <2>4 DEF RegistryInvariant
<1>8. ASSUME NEW t \in Callers, Throw(t) PROVE RegistryInvariant'
  <2>1. TypeOK'
    BY <1>1, <1>8 DEF Throw, TypeOK, Inside
  <2>2. CallsKnown'
    BY <1>1, <1>8 DEF Throw, TypeOK, CallsKnown, Inside
  <2>3. TableKnown' /\ RegistrationDoesNotLeak'
    BY <1>1, <1>2, <1>8 DEF Throw, TableKnown, RegistrationDoesNotLeak
  <2> QED BY <2>1, <2>2, <2>3 DEF RegistryInvariant
<1>9. ASSUME NEW t \in Callers, NEW c \in Contexts, RegisterLocal(t, c)
      PROVE  RegistryInvariant'
  <2>1. TypeOK'
    BY <1>1, <1>9 DEF RegisterLocal, TypeOK, Targets
  <2>2. CallsKnown'
    BY <1>1, <1>9 DEF RegisterLocal, TypeOK, CallsKnown, Inside
  <2>3. TableKnown' /\ RegistrationDoesNotLeak'
    BY <1>1, <1>2, <1>9 DEF RegisterLocal, TableKnown, RegistrationDoesNotLeak
  <2> QED BY <2>1, <2>2, <2>3 DEF RegistryInvariant
<1>10. ASSUME NEW c \in Contexts, Resolve(c) PROVE RegistryInvariant'
  <2>1. /\ Kernel(c) \in {"none", "upstream", "legacy"}
        /\ Kernel(c) = "legacy" => registered \/ Enclosing(c) \cap local # {}
    BY KernelKnown
  <2>2. TypeOK'
    BY <1>1, <1>10, <2>1 DEF Resolve, TypeOK
  <2>3. CallsKnown' /\ TableKnown'
    BY <1>1, <1>10 DEF Resolve, CallsKnown, TableKnown
  <2>4. RegistrationDoesNotLeak'
    BY <1>1, <1>2, <1>10, <2>1 DEF Resolve, RegistrationDoesNotLeak, TypeOK
  <2> QED BY <2>2, <2>3, <2>4 DEF RegistryInvariant
<1>11. CASE UNCHANGED vars
  BY <1>1, <1>2, <1>11
     DEF vars, RegistryInvariant, TypeOK, CallsKnown, TableKnown, RegistrationDoesNotLeak
<1> QED
  BY <1>3, <1>4, <1>5, <1>6, <1>7, <1>8, <1>9, <1>10, <1>11 DEF Next

\* Type correctness of the registry for any callers, contexts and nesting.
THEOREM RegistryTypeCorrect == Spec => []TypeOK
<1>1. RegistryInvariant => TypeOK
  BY DEF RegistryInvariant
<1> QED BY InitHolds, StepPreserves, <1>1, PTL DEF Spec

\* Registering on a context reaches neither the global table nor another
\* context, however calls overlap and whether or not one of them throws.
THEOREM NoLeak == Spec => []RegistrationDoesNotLeak
<1>1. RegistryInvariant => RegistrationDoesNotLeak
  BY DEF RegistryInvariant
<1> QED BY InitHolds, StepPreserves, <1>1, PTL DEF Spec

-----------------------------------------------------------------------------
(* Calls that exclude each other: one calling thread, or Python's GIL.     *)

\* Nobody has published while somebody is about to, what was registered on is
\* in its table, and the flag says what the table holds, unless a call is
\* between the two or has thrown there.
SerialInvariant ==
  /\ \A t, u \in Callers : call[t] \in Inside /\ call[u] \in Inside => t = u
  /\ \A t \in Callers : call[t] = "claimed" => ~registered
  /\ \A t \in Callers : call[t] = "publishing" => global = "upstream"
  /\ completed \cap Contexts \subseteq local
  /\ registered /\ ~threw /\ (\A t \in Callers : call[t] # "publishing") => global = "legacy"
  /\ Global \in completed /\ ~threw => global = "legacy"

LEMMA SerialInit == Init => SerialInvariant
BY DEF Init, SerialInvariant, Inside

LEMMA SerialStep ==
  ASSUME Serialized PROVE RegistryInvariant /\ SerialInvariant /\ [Next]_vars => SerialInvariant'
<1> SUFFICES ASSUME RegistryInvariant, SerialInvariant, [Next]_vars PROVE SerialInvariant'
  OBVIOUS
<1>1. TypeOK /\ CallsKnown /\ TableKnown
  BY DEF RegistryInvariant
<1> USE DEF SerialInvariant
<1>2. ASSUME NEW t \in Callers, Call(t) PROVE SerialInvariant'
  BY <1>1, <1>2 DEF Call, TypeOK, Inside
<1>3. ASSUME NEW t \in Callers, ReturnEarly(t) PROVE SerialInvariant'
  <2>1. target[t] = Global /\ \A u \in Callers : u # t => call[u] = "outside"
    BY <1>1, <1>3 DEF ReturnEarly, CallsKnown, TypeOK, Inside
  <2>2. \A u \in Callers : call'[u] = "outside"
    BY <1>1, <1>3, <2>1 DEF ReturnEarly, Leave, TypeOK
  <2>3. completed' = completed \cup {Global} /\ registered
        /\ \A u \in Callers : call[u] # "publishing"
    BY <1>3, <2>1 DEF ReturnEarly, Leave
  <2> QED
    BY <1>3, <2>2, <2>3, TargetAssumption DEF ReturnEarly, Inside
<1>4. ASSUME NEW t \in Callers, SeeUnregistered(t) PROVE SerialInvariant'
  BY <1>1, <1>4 DEF SeeUnregistered, TypeOK, Inside
<1>5. ASSUME NEW t \in Callers, Claim(t) PROVE SerialInvariant'
  <2>1. global = "upstream"
    BY <1>1, <1>5 DEF Claim, TypeOK, TableKnown
  <2>2. \A u \in Callers : u # t => call[u] = "outside"
    BY <1>1, <1>5 DEF Claim, TypeOK, Inside
  <2>3. call'[t] = "publishing" /\ \A u \in Callers : u # t => call'[u] = "outside"
    BY <1>1, <1>5, <2>2 DEF Claim, TypeOK
  <2> QED
    BY <1>5, <2>1, <2>3 DEF Claim, Inside
<1>6. ASSUME NEW t \in Callers, Publish(t) PROVE SerialInvariant'
  <2>1. target[t] = Global /\ \A u \in Callers : u # t => call[u] = "outside"
    BY <1>1, <1>6 DEF Publish, CallsKnown, TypeOK, Inside
  <2>2. \A u \in Callers : call'[u] = "outside"
    BY <1>1, <1>6, <2>1 DEF Publish, Leave, TypeOK
  <2> QED
    BY <1>6, <2>1, <2>2, TargetAssumption DEF Publish, Leave, Inside
<1>7. ASSUME NEW t \in Callers, Throw(t) PROVE SerialInvariant'
  BY <1>1, <1>7 DEF Throw, TypeOK, Inside
<1>8. ASSUME NEW t \in Callers, NEW c \in Contexts, RegisterLocal(t, c) PROVE SerialInvariant'
  BY <1>1, <1>8, TargetAssumption DEF RegisterLocal, TypeOK, Inside
<1>9. ASSUME NEW c \in Contexts, Resolve(c) PROVE SerialInvariant'
  BY <1>9 DEF Resolve
<1>10. CASE UNCHANGED vars
  BY <1>10 DEF vars
<1> QED
  BY <1>2, <1>3, <1>4, <1>5, <1>6, <1>7, <1>8, <1>9, <1>10 DEF Next

LEMMA SerialHolds == ASSUME Serialized PROVE Spec => [](RegistryInvariant /\ SerialInvariant)
<1>1. Init => RegistryInvariant /\ SerialInvariant
  BY InitHolds, SerialInit
<1>2. (RegistryInvariant /\ SerialInvariant) /\ [Next]_vars
        => (RegistryInvariant /\ SerialInvariant)'
  BY StepPreserves, SerialStep
<1> QED
  BY <1>1, <1>2, PTL DEF Spec

\* When calls of RegisterImageKernels() exclude each other, the dispatch table
\* of the process is written once at most, even when calls have thrown.
THEOREM SerializedPublishesOnce == ASSUME Serialized PROVE Spec => PublishedOnce
<1>1. SerialInvariant /\ [Next]_vars
        => [(\E t \in Callers : Publish(t)) => global = "upstream"]_vars
  BY DEF SerialInvariant, Publish
<1> QED
  BY <1>1, SerialHolds, PTL DEF Spec, PublishedOnce

\* When calls exclude each other, a registration that returned, on a context, on
\* one around it or for the process, is what a context resolves later.
THEOREM SerializedTakesEffect == ASSUME Serialized PROVE Spec => RegistrationTakesEffect
<1>1. RegistryInvariant /\ SerialInvariant /\ [Next]_vars
        => [\A c \in Contexts :
              FirstRunAfterRegistration(c) /\ ~threw => resolved'[c] = "legacy"]_vars
  <2> SUFFICES ASSUME RegistryInvariant, SerialInvariant, [Next]_vars, NEW c \in Contexts,
                      FirstRunAfterRegistration(c), ~threw
               PROVE  resolved'[c] = "legacy"
    OBVIOUS
  <2>1. TypeOK
    BY DEF RegistryInvariant
  <2>2. resolved[c] = "none" /\ resolved'[c] # "none"
    BY DEF FirstRunAfterRegistration
  <2>3. PICK d \in Contexts : Resolve(d)
    BY <2>2 DEF Next, vars, Call, ReturnEarly, SeeUnregistered, Claim, Publish, Throw,
                RegisterLocal
  <2>4. d = c /\ resolved'[c] = Kernel(c)
    BY <2>1, <2>2, <2>3 DEF Resolve, TypeOK
  <2>5. CASE Global \in completed
    <3>1. global = "legacy"
      BY <2>5 DEF SerialInvariant
    <3> QED
      BY <2>4, <3>1 DEF Kernel
  <2>6. CASE Enclosing(c) \cap completed # {} /\ Global \notin completed
    <3>1. completed \subseteq local
      BY <2>1, <2>6 DEF SerialInvariant, TypeOK, Targets
    <3> QED
      BY <2>4, <2>6, <3>1 DEF Kernel
  <2> QED
    BY <2>5, <2>6 DEF FirstRunAfterRegistration
<1> QED
  BY <1>1, SerialHolds, PTL DEF Spec, RegistrationTakesEffect
=============================================================================
