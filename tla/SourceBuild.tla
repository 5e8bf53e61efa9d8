----------------------------- MODULE SourceBuild -----------------------------
(***************************************************************************)
(* What `setup.py build_ext --onnx-light-source` builds against:           *)
(* _onnx_light_source_build_info of setup.py takes the headers from one of *)
(* the onnx-light package directories it finds, and the libraries from     *)
(* what the imported package says of itself.                               *)
(*                                                                         *)
(* A file or directory goes by the package directory it belongs to.        *)
(***************************************************************************)
EXTENDS Naturals, Sequences

CONSTANTS Places,    \* the onnx_light package directories of a machine
          None

VARIABLES
  env,        \* environment variables and files, fixed for the call
  pc,         \* the part of the function that runs
  include,    \* include_dir
  info,       \* the libraries to link with
  answer

vars == <<env, pc, include, info, answer>>

Maybe == Places \cup {None}

\* What the imported onnx-light may say of itself: where its headers, its native
\* extension and the directory of its libraries are, and whether these exist.
Reports == [include : Maybe, extension : Maybe, runtime : Places, libraries : BOOLEAN]

Environments ==
  [path : UNION {[1..n -> Places] : n \in 0..2},   \* PYTHONPATH
   configured : Maybe,   \* ONNX_LIGHT_KERNEL_IMAGES_ONNX_LIGHT_SOURCE_DIR
   sibling : Places,     \* ../onnx-light/onnx_light
   site : Places,        \* onnx_light of site-packages
   headers : SUBSET Places,   \* directories with kernel_dispatch_table.h
   report : Reports,
   implib : {None, "incomplete"} \cup Places]   \* ..._ONNX_LIGHT_IMPLIB_DIR

\* import onnx_light: PYTHONPATH comes before site-packages.
Imported == Head(env.path \o <<env.site>>)

Init ==
  /\ env \in Environments
  /\ pc = "headers" /\ include = None
  /\ info = [core |-> None, imports |-> None] /\ answer = "none"

Raise == pc' = "done" /\ answer' = "raised" /\ UNCHANGED <<include, info>>

WithHeaders == {k \in DOMAIN env.path : env.path[k] \in env.headers}

\* _onnx_light_from_pythonpath: the first entry that has the header.
FromPath ==
  IF WithHeaders = {} THEN None
  ELSE env.path[CHOOSE k \in WithHeaders : \A j \in WithHeaders : k <= j]

Chosen ==
  CASE FromPath # None -> FromPath
    [] FromPath = None /\ env.configured # None -> env.configured
    [] OTHER -> IF env.sibling \in env.headers THEN env.sibling ELSE Imported

ChooseHeaders ==
  /\ pc = "headers"
  /\ \/ /\ Chosen \in env.headers
        /\ include' = Chosen /\ pc' = "runtime" /\ UNCHANGED <<info, answer>>
     \/ Chosen \notin env.headers /\ Raise
  /\ UNCHANGED env

\* The imported package is compared with the headers only here.
Consistent ==
  /\ Imported = include
  /\ env.report.include = include
  /\ env.report.extension = env.report.runtime

CompareRuntime ==
  /\ pc = "runtime" /\ FromPath # None
  /\ \/ Consistent /\ pc' = "libraries" /\ UNCHANGED <<include, info, answer>>
     \/ ~Consistent /\ Raise
  /\ UNCHANGED env

TakeRuntime ==
  /\ pc = "runtime" /\ FromPath = None
  /\ pc' = "libraries"
  /\ UNCHANGED <<env, include, info, answer>>

\* core_library and proto_library, and the import libraries of Windows.
TakeLibraries ==
  /\ pc = "libraries"
  /\ \/ /\ env.report.libraries /\ env.implib # "incomplete"
        /\ info' = [core |-> env.report.runtime, imports |-> env.implib]
        /\ pc' = "done" /\ answer' = "linked" /\ UNCHANGED include
     \/ ~(env.report.libraries /\ env.implib # "incomplete") /\ Raise
  /\ UNCHANGED env

Next == ChooseHeaders \/ CompareRuntime \/ TakeRuntime \/ TakeLibraries

Spec == Init /\ [][Next]_vars

-----------------------------------------------------------------------------

\* What the imported package says of itself is true: everything it has is its own.
Honest ==
  env.report.include = Imported /\ env.report.extension = Imported /\ env.report.runtime = Imported

\* A build goes through only if the imported package, the headers and the
\* libraries are of the same onnx-light.  README.md:101 says that the option
\* "rejects mixed installations".
MixedRejected ==
  answer = "linked" /\ Honest => include = Imported /\ info.core = Imported
=============================================================================
