------------------------- MODULE ImageKernelProofs -------------------------
(***************************************************************************)
(* ImageKernel for any number of threads, any images and any integer       *)
(* widths.                                                                 *)
(***************************************************************************)
EXTENDS ImageKernel, TLAPS

Loading(t) == pc(t) \in {"open", "symbols"}
Undecoded(t) == pc(t) \notin {"publish", "jpeg2000 cleanup"}

\* The format a place belongs to.
KindAt(place, kind) ==
  /\ place \in {"open", "symbols"} => kind \in Format
  /\ place \in {"webp", "webp pixels"} => kind = "webp"
  /\ place \in InLibrary \ {"webp", "webp pixels"} => kind = "jpeg2000"

PlaceKnown(t) ==
  /\ pc(t) # "idle" \/ output[t] # None => call[t].input \in Input
  /\ pc(t) # "idle" => KindAt(pc(t), Of(t))

\* What a thread calls, or took a picture from, is usable.
LibraryKnown(t) ==
  /\ Inside(t) => api[Of(t)] = "usable"
  /\ pc(t) # "idle" /\ call[t].decoded /\ Of(t) \in Format => api[Of(t)] = "usable"

\* The OpenJPEG objects alive at each place.
ObjectsAt(place, live) ==
  /\ place \in {"run", "open", "symbols", "webp", "webp pixels", "jpeg2000", "publish"} =>
       live = {}
  /\ place = "jpeg2000 stream" => live = {"codec"}
  /\ place = "jpeg2000 parameters" => live = {"codec", "stream"}
  /\ place \in {"jpeg2000 header", "jpeg2000 cleanup"} => {"codec", "stream"} \subseteq live
  /\ place \in {"jpeg2000 decode", "jpeg2000 end", "jpeg2000 convert"} => live = Objects

ObjectsKnown(t) ==
  /\ ObjectsAt(pc(t), call[t].live)
  /\ pc(t) = "idle" /\ output[t] # None => call[t].live = {}

\* The sizes that were checked, and what follows from them.
SizesKnown(t) ==
  /\ pc(t) = "webp pixels" =>
       /\ WebpFits(t, call[t].height, call[t].width)
       /\ call[t].rgb = call[t].width * call[t].height * 3
  /\ pc(t) # "idle" /\ call[t].decoded =>
       /\ pc(t) \in {"publish", "jpeg2000 cleanup"}
       /\ call[t].height > 0 /\ call[t].width > 0
       /\ call[t].bytes = call[t].height * call[t].width * call[t].input.channels

\* What was published.
OutputKnown(t) ==
  /\ pc(t) # "idle" => output[t] = None
  /\ output[t] # None =>
       /\ output[t].bytes = output[t].height * output[t].width * call[t].input.channels
       /\ (output[t].height = 0) = (output[t].width = 0)
       /\ output[t].height > 0 /\ Of(t) \in Format => api[Of(t)] = "usable"

ThreadInv(t) ==
  PlaceKnown(t) /\ LibraryKnown(t) /\ ObjectsKnown(t) /\ SizesKnown(t) /\ OutputKnown(t)

\* One thread at most initialises a library's static, and only that thread
\* may hold a handle before the library is usable.
LoadKnown(f) ==
  /\ \A t \in Thread : Loading(t) /\ Of(t) = f => api[f] = "loading"
  /\ \A t, u \in Thread : Loading(t) /\ Of(t) = f /\ Loading(u) /\ Of(u) = f => t = u

KernelInv ==
  /\ TypeOK
  /\ \A t \in Thread : ThreadInv(t)
  /\ \A f \in Format : LoadKnown(f)
  /\ OneHandlePerUsableLibrary

-----------------------------------------------------------------------------

LEMMA InitHolds == Init => KernelInv
<1> SUFFICES ASSUME Init PROVE KernelInv
  OBVIOUS
<1>1. \A t \in Thread : call[t] = [Start(None) EXCEPT !.pc = "idle"] /\ output[t] = None
  BY DEF Init
<1>2. \A t \in Thread : pc(t) = "idle" /\ output[t] = None
  BY <1>1 DEF pc, Start
<1>3. [Start(None) EXCEPT !.pc = "idle"] \in Locals
  <2>1. 0 \in 0 .. StreamSize
    BY NumbersAssumption
  <2>2. "idle" \in Place /\ None \in Input \cup {None} /\ {} \in SUBSET Objects
    BY DEF Place
  <2> QED BY <2>1, <2>2 DEF Start, Locals
<1>4. TypeOK
  BY <1>1, <1>3 DEF Init, TypeOK, Pictures
<1>5. \A t \in Thread : ThreadInv(t)
  BY <1>2 DEF ThreadInv, PlaceKnown, LibraryKnown, ObjectsKnown, SizesKnown, OutputKnown,
              ObjectsAt, Inside, InLibrary, Place, Decoding
<1>6. \A f \in Format : LoadKnown(f)
  BY <1>2 DEF LoadKnown, Loading
<1>7. OneHandlePerUsableLibrary
  BY <1>2 DEF Init, OneHandlePerUsableLibrary
<1> QED BY <1>4, <1>5, <1>6, <1>7 DEF KernelInv

\* A step of one thread that leaves the libraries alone: only that thread's
\* own invariant has to be looked at.
LEMMA OwnStep ==
  ASSUME KernelInv, NEW t \in Thread, UNCHANGED library,
         NEW locals \in Locals, call' = [call EXCEPT ![t] = locals],
         NEW published \in Pictures \cup {None}, output' = [output EXCEPT ![t] = published],
         ~Loading(t), ~Loading(t)', ThreadInv(t)'
  PROVE  KernelInv'
<1>1. TypeOK /\ OneHandlePerUsableLibrary /\ api' = api /\ handles' = handles
  BY DEF KernelInv, library
<1>2. TypeOK'
  BY <1>1 DEF TypeOK
<1>3. \A u \in Thread : u # t => call'[u] = call[u] /\ output'[u] = output[u]
  BY <1>1 DEF TypeOK
<1>4. ASSUME NEW u \in Thread PROVE ThreadInv(u)'
  <2>1. CASE u = t BY <2>1
  <2>2. CASE u # t
    <3>1. ThreadInv(u) /\ call'[u] = call[u] /\ output'[u] = output[u]
      BY <1>3, <2>2 DEF KernelInv
    <3> QED BY <3>1, <1>1 DEF ThreadInv, PlaceKnown, LibraryKnown, ObjectsKnown, SizesKnown,
                 OutputKnown, Inside, pc, Of, WebpFits
  <2> QED BY <2>1, <2>2
<1>5. \A u \in Thread : Loading(u)' => Loading(u) /\ call'[u] = call[u]
  BY <1>3 DEF Loading, pc
<1>6. ASSUME NEW f \in Format PROVE LoadKnown(f)'
  BY <1>1, <1>5 DEF KernelInv, LoadKnown, Of
<1>7. OneHandlePerUsableLibrary'
  <2>1. \A u \in Thread : u # t => call'[u] = call[u]
    BY <1>3
  <2>2. pc(t) # "symbols" /\ pc(t)' # "symbols"
    BY DEF Loading
  <2> QED BY <1>1, <2>1, <2>2 DEF OneHandlePerUsableLibrary, pc, Of
<1> QED BY <1>2, <1>4, <1>6, <1>7 DEF KernelInv

\* What KernelInv says of one thread.
LEMMA ThreadFacts ==
  ASSUME KernelInv, NEW t \in Thread
  PROVE  /\ call[t] \in Locals /\ output[t] \in Pictures \cup {None}
         /\ PlaceKnown(t) /\ LibraryKnown(t) /\ ObjectsKnown(t) /\ SizesKnown(t) /\ OutputKnown(t)
  BY DEF KernelInv, TypeOK, ThreadInv

\* A step that changes where the thread is, its OpenJPEG objects and its place
\* in the stream, nothing else.
LEMMA MoveStep ==
  ASSUME KernelInv, NEW t \in Thread, UNCHANGED <<library, output>>,
         NEW place \in Place \ {"idle", "open", "symbols", "webp pixels"},
         NEW live \in SUBSET Objects, NEW pos \in 0 .. StreamSize,
         call' = [call EXCEPT ![t] = [call[t] EXCEPT !.pc = place, !.live = live, !.pos = pos]],
         pc(t) # "idle", ~Loading(t), place = "publish" \/ Undecoded(t),
         KindAt(place, Of(t)), place \in InLibrary => api[Of(t)] = "usable",
         ObjectsAt(place, live)
  PROVE  KernelInv'
<1> DEFINE locals == [call[t] EXCEPT !.pc = place, !.live = live, !.pos = pos]
<1>1. /\ call[t] \in Locals /\ output[t] \in Pictures \cup {None}
      /\ PlaceKnown(t) /\ LibraryKnown(t) /\ SizesKnown(t) /\ OutputKnown(t)
  BY ThreadFacts
<1>2. locals \in Locals
  BY <1>1 DEF Locals
<1>3. call' = [call EXCEPT ![t] = locals] /\ call'[t] = locals
  BY DEF KernelInv, TypeOK
<1>4. output' = [output EXCEPT ![t] = output[t]] /\ output'[t] = output[t] /\ api' = api
  BY DEF KernelInv, TypeOK, library
<1>5. /\ pc(t)' = place /\ Of(t)' = Of(t)
      /\ call'[t].live = live /\ call'[t].decoded = call[t].decoded
      /\ call'[t].height = call[t].height /\ call'[t].width = call[t].width
      /\ call'[t].bytes = call[t].bytes /\ call'[t].input = call[t].input
  BY <1>1, <1>3 DEF pc, Of, Locals
<1> HIDE DEF locals
<1>6. SizesKnown(t)'
  BY <1>1, <1>5 DEF SizesKnown, Undecoded
<1>7. PlaceKnown(t)'
  BY <1>1, <1>5 DEF PlaceKnown, KindAt
<1>8. LibraryKnown(t)'
  BY <1>1, <1>4, <1>5 DEF LibraryKnown, Inside
<1>9. ObjectsKnown(t)'
  BY <1>5 DEF ObjectsKnown, ObjectsAt
<1>10. OutputKnown(t)'
  BY <1>1, <1>4, <1>5 DEF OutputKnown
<1>11. ThreadInv(t)' /\ ~Loading(t)'
  BY <1>5, <1>6, <1>7, <1>8, <1>9, <1>10 DEF ThreadInv, Loading
<1> QED BY <1>1, <1>2, <1>3, <1>4, <1>11, OwnStep

LEMMA GotoStep ==
  ASSUME KernelInv, NEW t \in Thread, UNCHANGED <<library, output>>,
         NEW place \in Place \ {"idle", "open", "symbols", "webp pixels"},
         Goto(t, place), pc(t) # "idle", ~Loading(t), place = "publish" \/ Undecoded(t),
         KindAt(place, Of(t)), place \in InLibrary => api[Of(t)] = "usable",
         ObjectsAt(place, call[t].live)
  PROVE  KernelInv'
<1>1. call[t] \in Locals
  BY ThreadFacts
<1>2. /\ call[t].live \in SUBSET Objects /\ call[t].pos \in 0 .. StreamSize
      /\ [call[t] EXCEPT !.pc = place, !.live = call[t].live, !.pos = call[t].pos]
           = [call[t] EXCEPT !.pc = place]
  BY <1>1 DEF Locals
<1>3. call' = [call EXCEPT ![t] = [call[t] EXCEPT !.pc = place, !.live = call[t].live, !.pos = call[t].pos]]
  BY <1>2 DEF Goto
<1> QED BY <1>2, <1>3, MoveStep

LEMMA CreateStep ==
  ASSUME KernelInv, NEW t \in Thread, UNCHANGED <<library, output>>,
         NEW place \in Place \ {"idle", "open", "symbols", "webp pixels"},
         NEW object \in Objects, Create(t, object, place), pc(t) # "idle", ~Loading(t),
         place = "publish" \/ Undecoded(t),
         KindAt(place, Of(t)), place \in InLibrary => api[Of(t)] = "usable",
         ObjectsAt(place, call[t].live \cup {object})
  PROVE  KernelInv'
<1>1. call[t] \in Locals
  BY ThreadFacts
<1> DEFINE live == call[t].live \cup {object}
<1>2. /\ live \in SUBSET Objects /\ call[t].pos \in 0 .. StreamSize
      /\ [call[t] EXCEPT !.pc = place, !.live = live, !.pos = call[t].pos]
           = [call[t] EXCEPT !.pc = place, !.live = live]
  BY <1>1 DEF Locals
<1>3. call' = [call EXCEPT ![t] = [call[t] EXCEPT !.pc = place, !.live = live, !.pos = call[t].pos]]
  BY <1>2 DEF Create
<1> HIDE DEF live
<1>4. ObjectsAt(place, live)
  BY DEF live
<1> QED BY <1>2, <1>3, <1>4, MoveStep

LEMMA ReleaseStep ==
  ASSUME KernelInv, NEW t \in Thread, UNCHANGED <<library, output>>,
         ReturnReleasing(t), pc(t) # "idle", ~Loading(t)
  PROVE  KernelInv'
<1>1. call[t] \in Locals
  BY ThreadFacts
<1>2. {} \in SUBSET Objects /\ 0 \in 0 .. StreamSize
  BY NumbersAssumption
<1>3. call' = [call EXCEPT ![t] = [call[t] EXCEPT !.pc = "publish", !.live = {}, !.pos = 0]]
  BY <1>1 DEF ReturnReleasing, Locals
<1>4. /\ "publish" \in Place \ {"idle", "open", "symbols", "webp pixels"}
      /\ "publish" \notin InLibrary /\ KindAt("publish", Of(t)) /\ ObjectsAt("publish", {})
  BY DEF Place, InLibrary, KindAt, ObjectsAt
<1> QED BY <1>2, <1>3, <1>4, MoveStep

\* Giving up before any object exists.
LEMMA FailStep ==
  ASSUME KernelInv, NEW t \in Thread, UNCHANGED <<library, output>>,
         Fail(t), pc(t) \in {"run", "webp", "webp pixels", "jpeg2000"}
  PROVE  KernelInv'
<1>1. ObjectsAt(pc(t), call[t].live)
  BY ThreadFacts DEF ObjectsKnown
<1>2. ObjectsAt("publish", call[t].live) /\ KindAt("publish", Of(t)) /\ "publish" \notin InLibrary
  BY <1>1 DEF ObjectsAt, KindAt, InLibrary
<1>3. "publish" \in Place \ {"idle", "open", "symbols", "webp pixels"} /\ Goto(t, "publish")
  BY DEF Place, Fail
<1> QED BY <1>2, <1>3, GotoStep DEF Loading

LEMMA InputFacts ==
  ASSUME KernelInv, NEW t \in Thread, pc(t) # "idle"
  PROVE  /\ call[t].input \in Input /\ Of(t) \in Kind
         /\ call[t].input.channels \in {1, 3} /\ call[t].input.channels \in Nat
<1>1. call[t].input \in [kind : Kind, valid : BOOLEAN, channels : {1, 3}]
  BY ThreadFacts, InputAssumption DEF PlaceKnown
<1> QED BY <1>1, ThreadFacts DEF PlaceKnown, Of

\* A size that was checked does not wrap.
LEMMA ProductNat ==
  ASSUME NEW m \in Nat, NEW n \in Nat PROVE m * n \in Nat
OBVIOUS

LEMMA NoWrap ==
  ASSUME NEW n \in Nat, n <= SizeMax
  PROVE  n % (SizeMax + 1) = n
BY NumbersAssumption

\* A decoder has its picture, of the size it checked.
LEMMA DeliverStep ==
  ASSUME KernelInv, NEW t \in Thread, UNCHANGED <<library, output>>,
         NEW place \in {"publish", "jpeg2000 cleanup"},
         NEW h \in Nat, NEW w \in Nat, h > 0, w > 0, Deliver(t, h, w, place),
         h * w * call[t].input.channels <= SizeMax,
         pc(t) # "idle", ~Loading(t), KindAt(place, Of(t)),
         Of(t) \in Format => api[Of(t)] = "usable", ObjectsAt(place, call[t].live)
  PROVE  KernelInv'
<1> DEFINE bytes == (h * w * call[t].input.channels) % (SizeMax + 1)
           locals == [call[t] EXCEPT !.pc = place, !.decoded = TRUE, !.height = h, !.width = w,
                                     !.bytes = bytes]
<1>1. /\ call[t] \in Locals /\ output[t] \in Pictures \cup {None}
      /\ PlaceKnown(t) /\ OutputKnown(t) /\ call[t].input.channels \in Nat
  BY ThreadFacts, InputFacts
<1>2. /\ h * w \in Nat
      /\ bytes = h * w * call[t].input.channels /\ bytes \in Nat
  <2>1. h * w \in Nat
    BY ProductNat
  <2>2. call[t].input.channels \in Nat
    BY <1>1
  <2>3. h * w * call[t].input.channels \in Nat
    BY <2>1, <2>2, ProductNat
  <2> QED BY <2>1, <2>3, NoWrap
<1> HIDE DEF bytes
<1>3. locals \in Locals
  BY <1>1, <1>2 DEF Locals, Place
<1>4. call' = [call EXCEPT ![t] = locals] /\ call'[t] = locals
  BY <1>1 DEF KernelInv, TypeOK, Deliver, bytes, Locals
<1>5. output' = [output EXCEPT ![t] = output[t]] /\ output'[t] = output[t] /\ api' = api
  BY DEF KernelInv, TypeOK, library
<1>6. /\ pc(t)' = place /\ Of(t)' = Of(t)
      /\ call'[t].live = call[t].live /\ call'[t].decoded = TRUE
      /\ call'[t].height = h /\ call'[t].width = w
      /\ call'[t].bytes = bytes /\ call'[t].input = call[t].input
  <2>1. /\ locals.pc = place /\ locals.decoded = TRUE /\ locals.height = h /\ locals.width = w
        /\ locals.bytes = bytes /\ locals.live = call[t].live /\ locals.input = call[t].input
    BY <1>1 DEF Locals
  <2> HIDE DEF locals
  <2> QED BY <1>4, <2>1 DEF pc, Of
<1> HIDE DEF locals
<1>7. SizesKnown(t)'
  BY <1>2, <1>6 DEF SizesKnown
<1>8. PlaceKnown(t)'
  BY <1>1, <1>6 DEF PlaceKnown
<1>9. LibraryKnown(t)'
  <2>1. Inside(t)' => Of(t) = "jpeg2000"
    BY <1>6 DEF Inside, KindAt, InLibrary
  <2> QED BY <1>5, <1>6, <2>1 DEF LibraryKnown, Format
<1>10. ObjectsKnown(t)' /\ OutputKnown(t)'
  BY <1>1, <1>5, <1>6 DEF ObjectsKnown, OutputKnown
<1>11. ThreadInv(t)' /\ ~Loading(t)'
  BY <1>6, <1>7, <1>8, <1>9, <1>10 DEF ThreadInv, Loading
<1> QED BY <1>1, <1>3, <1>4, <1>5, <1>11, OwnStep

\* Run ends, with or without something published.
LEMMA LeaveStep ==
  ASSUME KernelInv, NEW t \in Thread, UNCHANGED library, Leave(t),
         NEW published \in Pictures \cup {None}, output' = [output EXCEPT ![t] = published],
         pc(t) # "idle", ~Loading(t),
         published # None =>
           /\ published.bytes = published.height * published.width * call[t].input.channels
           /\ (published.height = 0) = (published.width = 0)
           /\ published.height > 0 /\ Of(t) \in Format => api[Of(t)] = "usable"
           /\ call[t].live = {}
  PROVE  KernelInv'
<1> DEFINE locals == [Start(call[t].input) EXCEPT !.pc = "idle", !.live = call[t].live]
<1>1. call[t] \in Locals /\ PlaceKnown(t) /\ call[t].input \in Input
  BY ThreadFacts, InputFacts
<1>2. locals \in Locals
  <2>1. 0 \in 0 .. StreamSize /\ "idle" \in Place
    BY NumbersAssumption DEF Place
  <2> QED BY <1>1, <2>1 DEF Locals, Start
<1>3. call' = [call EXCEPT ![t] = locals] /\ call'[t] = locals /\ output'[t] = published /\ api' = api
  BY DEF KernelInv, TypeOK, Leave, library
<1>4. /\ pc(t)' = "idle" /\ Of(t)' = Of(t)
      /\ call'[t].live = call[t].live /\ call'[t].input = call[t].input
  <2>1. locals.pc = "idle" /\ locals.live = call[t].live /\ locals.input = call[t].input
    BY DEF Start
  <2> QED BY <1>3, <2>1 DEF pc, Of
<1> HIDE DEF locals
<1>5. PlaceKnown(t)' /\ LibraryKnown(t)' /\ SizesKnown(t)'
  BY <1>1, <1>4 DEF PlaceKnown, LibraryKnown, SizesKnown, Inside, InLibrary
<1>6. ObjectsKnown(t)' /\ OutputKnown(t)'
  BY <1>3, <1>4 DEF ObjectsKnown, OutputKnown, ObjectsAt
<1>7. ThreadInv(t)' /\ ~Loading(t)'
  BY <1>4, <1>5, <1>6 DEF ThreadInv, Loading
<1> QED BY <1>2, <1>3, <1>7, OwnStep

-----------------------------------------------------------------------------
(* Run.                                                                    *)

LEMMA CallInv ==
  ASSUME KernelInv, NEW t \in Thread, Call(t)
  PROVE  KernelInv'
<1>1. PICK input \in Input : /\ pc(t) = "idle" /\ UNCHANGED library
                             /\ call' = [call EXCEPT ![t] = Start(input)]
                             /\ output' = [output EXCEPT ![t] = None]
  BY DEF Call
<1>2. Start(input) \in Locals
  <2>1. 0 \in 0 .. StreamSize /\ "run" \in Place
    BY NumbersAssumption DEF Place
  <2> QED BY <2>1 DEF Start, Locals
<1>3. call'[t] = Start(input) /\ output'[t] = None /\ api' = api
  BY <1>1 DEF KernelInv, TypeOK, library
<1>4. /\ pc(t)' = "run" /\ call'[t].input = input
      /\ call'[t].live = {} /\ call'[t].decoded = FALSE
  BY <1>3 DEF pc, Start
<1>5. PlaceKnown(t)' /\ LibraryKnown(t)' /\ ObjectsKnown(t)'
  BY <1>3, <1>4 DEF PlaceKnown, KindAt, LibraryKnown, ObjectsKnown, ObjectsAt, Inside, InLibrary
<1>6. SizesKnown(t)' /\ OutputKnown(t)'
  BY <1>3, <1>4 DEF SizesKnown, OutputKnown
<1>7. ThreadInv(t)' /\ ~Loading(t) /\ ~Loading(t)'
  BY <1>1, <1>4, <1>5, <1>6 DEF ThreadInv, Loading
<1> QED BY <1>1, <1>2, <1>7, OwnStep

LEMMA UpstreamInv ==
  ASSUME KernelInv, NEW t \in Thread, Upstream(t)
  PROVE  KernelInv'
<1>1. PICK h, w \in Dimension :
        /\ pc(t) = "run" /\ Of(t) = "other" /\ (h = 0) = (w = 0) /\ Leave(t)
        /\ output' = [output EXCEPT ![t] =
             [height |-> h, width |-> w, bytes |-> h * w * call[t].input.channels]]
        /\ UNCHANGED library
  BY DEF Upstream
<1> DEFINE published == [height |-> h, width |-> w, bytes |-> h * w * call[t].input.channels]
<1>2. h \in Nat /\ w \in Nat /\ call[t].input.channels \in Nat
  BY <1>1, NumbersAssumption, InputFacts
<1>3. h * w * call[t].input.channels \in Nat
  BY <1>2, ProductNat
<1>4. published \in Pictures
  BY <1>2, <1>3 DEF Pictures
<1>5. call[t].live = {}
  BY <1>1, ThreadFacts DEF ObjectsKnown, ObjectsAt
<1>6. /\ published.bytes = published.height * published.width * call[t].input.channels
      /\ (published.height = 0) = (published.width = 0)
  BY <1>1
<1> HIDE DEF published
<1>7. output' = [output EXCEPT ![t] = published]
  BY <1>1 DEF published
<1> QED BY <1>1, <1>4, <1>5, <1>6, <1>7, LeaveStep DEF Format, Loading

LEMMA RejectOrThrowInv ==
  ASSUME KernelInv, NEW t \in Thread, Reject(t) \/ Throw(t)
  PROVE  KernelInv'
<1>1. pc(t) # "idle" /\ ~Loading(t) /\ Leave(t) /\ UNCHANGED <<library, output>>
  BY DEF Reject, Throw, WebpThrows, Jpeg2000Throws, RunThrows, Accepted, Loading
<1>2. /\ output[t] = None
      /\ output' = [output EXCEPT ![t] = None]
  BY <1>1, ThreadFacts DEF KernelInv, TypeOK, OutputKnown
<1> QED BY <1>1, <1>2, LeaveStep

LEMMA PublishInv ==
  ASSUME KernelInv, NEW t \in Thread, Publish(t)
  PROVE  KernelInv'
<1> DEFINE published ==
      IF call[t].decoded
      THEN [height |-> call[t].height, width |-> call[t].width, bytes |-> call[t].bytes]
      ELSE [height |-> 0, width |-> 0, bytes |-> 0]
<1>1. /\ pc(t) = "publish" /\ ~Loading(t) /\ Leave(t) /\ UNCHANGED library
      /\ output' = [output EXCEPT ![t] = published]
  BY DEF Publish, Loading
<1>2. call[t] \in Locals /\ LibraryKnown(t) /\ ObjectsKnown(t) /\ SizesKnown(t)
  BY ThreadFacts
<1>3. call[t].input.channels \in Nat
  BY <1>1, InputFacts
<1>4. CASE call[t].decoded
  <2>1. published = [height |-> call[t].height, width |-> call[t].width, bytes |-> call[t].bytes]
    BY <1>4
  <2>2. published \in Pictures
    BY <1>2, <2>1 DEF Locals, Pictures
  <2>3. /\ call[t].height > 0 /\ call[t].width > 0
        /\ call[t].bytes = call[t].height * call[t].width * call[t].input.channels
        /\ Of(t) \in Format => api[Of(t)] = "usable"
        /\ call[t].live = {}
    BY <1>1, <1>2, <1>4 DEF SizesKnown, LibraryKnown, ObjectsKnown, ObjectsAt
  <2>4. /\ published.bytes = published.height * published.width * call[t].input.channels
        /\ (published.height = 0) = (published.width = 0)
    BY <1>2, <2>1, <2>3 DEF Locals
  <2> HIDE DEF published
  <2> QED BY <1>1, <2>2, <2>3, <2>4, LeaveStep
<1>5. CASE ~call[t].decoded
  <2>1. published = [height |-> 0, width |-> 0, bytes |-> 0]
    BY <1>5
  <2>2. call[t].live = {}
    BY <1>1, <1>2 DEF ObjectsKnown, ObjectsAt
  <2>3. published \in Pictures /\ published.height = 0 /\ published.width = 0
    BY <2>1 DEF Pictures
  <2>4. /\ published.bytes = published.height * published.width * call[t].input.channels
        /\ (published.height = 0) = (published.width = 0)
    BY <1>3, <2>1
  <2>5. ~(published.height > 0)
    BY <2>3
  <2> HIDE DEF published
  <2>6. pc(t) # "idle" /\ published \in Pictures \cup {None}
    BY <1>1, <2>3
  <2> QED BY <1>1, <2>2, <2>4, <2>5, <2>6, LeaveStep, Zenon
<1> QED BY <1>4, <1>5

LEMMA TiffInv ==
  ASSUME KernelInv, NEW t \in Thread, Tiff(t)
  PROVE  KernelInv'
<1>1. pc(t) = "run" /\ Of(t) = "tiff" /\ ~Loading(t) /\ UNCHANGED <<library, output>>
  BY DEF Tiff, Accepted, Loading
<1>2. CASE Fail(t)
  BY <1>1, <1>2, FailStep
<1>3. CASE \E h, w \in Dimension \ {0} :
             /\ h * w * call[t].input.channels <= SizeMax
             /\ Deliver(t, h, w, "publish")
  <2>1. PICK h, w \in Dimension \ {0} :
               /\ h * w * call[t].input.channels <= SizeMax
               /\ Deliver(t, h, w, "publish")
    BY <1>3
  <2>2. h \in Nat /\ w \in Nat /\ h > 0 /\ w > 0
    BY NumbersAssumption
  <2>3. ObjectsAt("publish", call[t].live) /\ KindAt("publish", Of(t)) /\ Of(t) \notin Format
    BY <1>1, ThreadFacts DEF ObjectsKnown, ObjectsAt, KindAt, InLibrary, Format
  <2>4. pc(t) # "idle" /\ "publish" \in {"publish", "jpeg2000 cleanup"}
    BY <1>1
  <2> QED BY <1>1, <2>1, <2>2, <2>3, <2>4, DeliverStep, Zenon
<1> QED BY <1>2, <1>3 DEF Tiff

-----------------------------------------------------------------------------
(* The WebP and JPEG2000 decoders.                                         *)

LEMMA UseLoadInv ==
  ASSUME KernelInv, NEW t \in Thread, UseLoad(t)
  PROVE  KernelInv'
<1>1. PICK f \in Format :
        /\ pc(t) = "run" /\ Of(t) = f /\ api[f] \in {"usable", "missing"}
        /\ IF api[f] = "usable" THEN Goto(t, f) ELSE Fail(t)
        /\ UNCHANGED <<library, output>>
  BY DEF UseLoad, Accepted
<1>2. CASE api[f] = "usable"
  <2>1. /\ f \in Place \ {"idle", "open", "symbols", "webp pixels"} /\ KindAt(f, Of(t))
        /\ pc(t) # "idle" /\ ~Loading(t)
    BY <1>1 DEF Format, Place, KindAt, InLibrary, Loading
  <2>2. ObjectsAt(f, call[t].live) /\ Undecoded(t)
    BY <1>1, ThreadFacts DEF ObjectsKnown, ObjectsAt, Format, Undecoded
  <2> QED BY <1>1, <1>2, <2>1, <2>2, GotoStep
<1>3. CASE api[f] # "usable"
  BY <1>1, <1>3, FailStep
<1> QED BY <1>2, <1>3

LEMMA WebpInfoInv ==
  ASSUME KernelInv, NEW t \in Thread, WebpInfo(t)
  PROVE  KernelInv'
<1>1. pc(t) = "webp" /\ ~Loading(t) /\ UNCHANGED <<library, output>>
  BY DEF WebpInfo, Loading
<1>2. CASE Fail(t)
  BY <1>1, <1>2, FailStep
<1>3. CASE ~Fail(t)
  <2>1. PICK h, w \in Dimension :
          /\ WebpFits(t, h, w)
          /\ call' = [call EXCEPT ![t].pc = "webp pixels", ![t].height = h, ![t].width = w,
                                  ![t].rgb = (w * h * 3) % (SizeMax + 1)]
    BY <1>3 DEF WebpInfo
  <2> DEFINE rgb == (w * h * 3) % (SizeMax + 1)
             locals == [call[t] EXCEPT !.pc = "webp pixels", !.height = h, !.width = w, !.rgb = rgb]
  <2>2. /\ call[t] \in Locals /\ output[t] \in Pictures \cup {None} /\ call[t].input \in Input
        /\ PlaceKnown(t) /\ LibraryKnown(t) /\ ObjectsKnown(t) /\ OutputKnown(t) /\ SizesKnown(t)
    BY <1>1, ThreadFacts, InputFacts
  <2>3. h \in Nat /\ w \in Nat /\ w * h \in Nat
    BY ProductNat, NumbersAssumption
  <2>4. w * h * 3 \in Nat /\ w * h * 3 <= SizeMax
    <3>1. w * h <= SizeMax \div 3
      BY <2>1 DEF WebpFits
    <3> QED BY <2>3, <3>1, NumbersAssumption
  <2>5. rgb = w * h * 3 /\ rgb \in Nat
    BY <2>4, NoWrap
  <2> HIDE DEF rgb
  <2>6. locals \in Locals
    BY <2>2, <2>3, <2>5 DEF Locals, Place
  <2>7. call' = [call EXCEPT ![t] = locals] /\ call'[t] = locals
    BY <2>1, <2>2 DEF KernelInv, TypeOK, Locals, rgb
  <2>8. output' = [output EXCEPT ![t] = output[t]] /\ output'[t] = output[t] /\ api' = api
    BY <1>1 DEF KernelInv, TypeOK, library
  <2>9. /\ locals.pc = "webp pixels" /\ locals.height = h /\ locals.width = w /\ locals.rgb = rgb
        /\ locals.live = call[t].live /\ locals.input = call[t].input
        /\ locals.decoded = call[t].decoded
    BY <2>2 DEF Locals
  <2> HIDE DEF locals
  <2>10. pc(t)' = "webp pixels" /\ Of(t)' = Of(t)
    BY <2>7, <2>9 DEF pc, Of
  <2>11. PlaceKnown(t)' /\ LibraryKnown(t)' /\ ObjectsKnown(t)' /\ OutputKnown(t)'
    BY <1>1, <2>2, <2>7, <2>8, <2>9, <2>10
       DEF PlaceKnown, KindAt, LibraryKnown, ObjectsKnown, ObjectsAt, OutputKnown, Inside, InLibrary,
           Place
  <2>12. SizesKnown(t)'
    <3>1. ~call[t].decoded
      BY <1>1, <2>2 DEF SizesKnown
    <3>2. WebpFits(t, h, w)'
      BY <2>1, <2>7, <2>9 DEF WebpFits
    <3> QED BY <2>5, <2>7, <2>9, <2>10, <3>1, <3>2 DEF SizesKnown, WebpFits
  <2> QED BY <2>6, <2>7, <2>8, <2>10, <2>11, <2>12, <1>1, <2>2, OwnStep DEF ThreadInv, Loading
<1> QED BY <1>2, <1>3

\* What a decoder knows wherever it stands.
LEMMA InsideFacts ==
  ASSUME KernelInv, NEW t \in Thread, Inside(t)
  PROVE  /\ pc(t) # "idle" /\ ~Loading(t)
         /\ api[Of(t)] = "usable"
         /\ ObjectsAt(pc(t), call[t].live) /\ KindAt(pc(t), Of(t))
         /\ call[t].input.channels \in {1, 3}
         /\ KindAt("publish", Of(t))
<1>1. pc(t) # "idle" /\ ~Loading(t)
  BY DEF Inside, InLibrary, Loading
<1>2. PlaceKnown(t) /\ LibraryKnown(t) /\ ObjectsKnown(t)
  BY ThreadFacts
<1>3. KindAt("publish", Of(t))
  BY DEF KindAt, InLibrary
<1> QED BY <1>1, <1>2, <1>3, InputFacts DEF PlaceKnown, LibraryKnown, ObjectsKnown

\* A size checked by a division does not wrap when it is multiplied.
LEMMA CheckedByDivision ==
  ASSUME NEW n \in Nat, NEW c \in {1, 3}, n <= SizeMax \div c
  PROVE  n * c <= SizeMax
<1>1. CASE c = 1
  BY <1>1, NumbersAssumption
<1>2. CASE c = 3
  BY <1>2, NumbersAssumption
<1> QED BY <1>1, <1>2

LEMMA WebpDecodeInv ==
  ASSUME KernelInv, NEW t \in Thread, WebpDecode(t)
  PROVE  KernelInv'
<1>1. pc(t) = "webp pixels" /\ Inside(t) /\ UNCHANGED <<library, output>>
  BY DEF WebpDecode, Inside, InLibrary, Place
<1>2. CASE Fail(t)
  BY <1>1, <1>2, FailStep
<1>3. CASE Deliver(t, call[t].height, call[t].width, "publish")
  <2> DEFINE h == call[t].height
             w == call[t].width
  <2>1. h \in Nat /\ w \in Nat
    BY ThreadFacts DEF Locals
  <2>2. h > 0 /\ w > 0 /\ w * h <= SizeMax \div call[t].input.channels
    BY <1>1, ThreadFacts DEF SizesKnown, WebpFits
  <2>3. h * w = w * h /\ h * w \in Nat
    BY <2>1
  <2>4. call[t].input.channels \in {1, 3}
    BY <1>1, InsideFacts
  <2> HIDE DEF h, w
  <2>5. h * w * call[t].input.channels <= SizeMax
    BY <2>2, <2>3, <2>4, CheckedByDivision
  <2>6. ObjectsAt("publish", call[t].live)
    BY <1>1, InsideFacts DEF ObjectsAt
  <2>7. "publish" \in {"publish", "jpeg2000 cleanup"} /\ Deliver(t, h, w, "publish")
    BY <1>3 DEF h, w
  <2> QED BY <1>1, <2>1, <2>2, <2>5, <2>6, <2>7, InsideFacts, DeliverStep, Zenon
<1> QED BY <1>2, <1>3 DEF WebpDecode

\* A step of the JPEG2000 decoder to another of its places.
LEMMA GotoInsideStep ==
  ASSUME KernelInv, NEW t \in Thread, UNCHANGED <<library, output>>,
         NEW place \in Decoding \cup {"jpeg2000 convert", "jpeg2000 cleanup"}, Goto(t, place),
         Inside(t), Of(t) = "jpeg2000", Undecoded(t), ObjectsAt(place, call[t].live)
  PROVE  KernelInv'
<1>1. /\ place \in Place \ {"idle", "open", "symbols", "webp pixels"}
      /\ KindAt(place, Of(t))
  BY DEF Place, KindAt, Decoding
<1> QED BY <1>1, InsideFacts, GotoStep

LEMMA CreateInsideStep ==
  ASSUME KernelInv, NEW t \in Thread, UNCHANGED <<library, output>>, NEW object \in Objects,
         NEW place \in Decoding \cup {"jpeg2000 stream", "jpeg2000 parameters", "jpeg2000 cleanup"},
         Create(t, object, place),
         Inside(t), Of(t) = "jpeg2000", Undecoded(t), ObjectsAt(place, call[t].live \cup {object})
  PROVE  KernelInv'
<1>1. /\ place \in Place \ {"idle", "open", "symbols", "webp pixels"}
      /\ KindAt(place, Of(t))
  BY DEF Place, KindAt, Decoding
<1> QED BY <1>1, InsideFacts, CreateStep

\* The places of the JPEG2000 decoder.
LEMMA InJpeg2000 ==
  ASSUME KernelInv, NEW t \in Thread,
         pc(t) \in Decoding \cup {"jpeg2000", "jpeg2000 stream", "jpeg2000 parameters",
                                  "jpeg2000 convert", "jpeg2000 cleanup"}
  PROVE  /\ Inside(t) /\ Of(t) = "jpeg2000" /\ pc(t) # "idle" /\ ~Loading(t)
         /\ ObjectsAt(pc(t), call[t].live)
<1>1. pc(t) \in InLibrary \ {"webp", "webp pixels"}
  BY DEF InLibrary, Place, Decoding
<1>2. Inside(t)
  BY <1>1 DEF Inside
<1> QED BY <1>1, <1>2, InsideFacts DEF KindAt

LEMMA CreateCodecInv ==
  ASSUME KernelInv, NEW t \in Thread, CreateCodec(t)
  PROVE  KernelInv'
<1>1. pc(t) = "jpeg2000" /\ UNCHANGED <<library, output>> /\ Undecoded(t)
  BY DEF CreateCodec, Undecoded
<1>2. Inside(t) /\ Of(t) = "jpeg2000" /\ call[t].live = {}
  BY <1>1, InJpeg2000 DEF ObjectsAt
<1>3. CASE Create(t, "codec", "jpeg2000 stream")
  <2>1. ObjectsAt("jpeg2000 stream", call[t].live \cup {"codec"}) /\ "codec" \in Objects
    BY <1>2 DEF ObjectsAt, Objects
  <2> QED BY <1>1, <1>2, <1>3, <2>1, CreateInsideStep
<1>4. CASE Fail(t)
  BY <1>1, <1>4, FailStep
<1> QED BY <1>3, <1>4 DEF CreateCodec

LEMMA CreateStreamInv ==
  ASSUME KernelInv, NEW t \in Thread, CreateStream(t)
  PROVE  KernelInv'
<1>1. pc(t) = "jpeg2000 stream" /\ UNCHANGED <<library, output>> /\ Undecoded(t)
  BY DEF CreateStream, Undecoded
<1>2. /\ Inside(t) /\ Of(t) = "jpeg2000" /\ pc(t) # "idle" /\ ~Loading(t)
      /\ call[t].live = {"codec"}
  BY <1>1, InJpeg2000 DEF ObjectsAt
<1>3. CASE Create(t, "stream", "jpeg2000 parameters")
  <2>1. ObjectsAt("jpeg2000 parameters", call[t].live \cup {"stream"}) /\ "stream" \in Objects
    BY <1>2 DEF ObjectsAt, Objects
  <2> QED BY <1>1, <1>2, <1>3, <2>1, CreateInsideStep
<1>4. CASE ReturnReleasing(t)
  BY <1>1, <1>2, <1>4, ReleaseStep
<1> QED BY <1>3, <1>4 DEF CreateStream

LEMMA SetupInv ==
  ASSUME KernelInv, NEW t \in Thread, Setup(t)
  PROVE  KernelInv'
<1>1. PICK next \in {"jpeg2000 header", "jpeg2000 cleanup"} :
        Goto(t, next) /\ pc(t) = "jpeg2000 parameters" /\ UNCHANGED <<library, output>>
  BY DEF Setup
<1>2. Inside(t) /\ Of(t) = "jpeg2000" /\ Undecoded(t) /\ ObjectsAt(next, call[t].live)
  BY <1>1, InJpeg2000 DEF ObjectsAt, Undecoded
<1> QED BY <1>1, <1>2, GotoInsideStep DEF Decoding

LEMMA ReadHeaderInv ==
  ASSUME KernelInv, NEW t \in Thread, ReadHeader(t)
  PROVE  KernelInv'
<1>1. pc(t) = "jpeg2000 header" /\ UNCHANGED <<library, output>> /\ Undecoded(t)
  BY DEF ReadHeader, Undecoded
<1>2. /\ Inside(t) /\ Of(t) = "jpeg2000" /\ {"codec", "stream"} \subseteq call[t].live
      /\ call[t].live \subseteq Objects
  BY <1>1, InJpeg2000, ThreadFacts DEF ObjectsAt, Decoding, Locals
<1>3. ASSUME NEW next \in {"jpeg2000 decode", "jpeg2000 cleanup"}, Create(t, "image", next)
      PROVE  KernelInv'
  <2>1. call[t].live \cup {"image"} = Objects /\ "image" \in Objects
    BY <1>2 DEF Objects
  <2>2. ObjectsAt(next, call[t].live \cup {"image"})
    BY <2>1 DEF ObjectsAt, Objects
  <2> QED BY <1>1, <1>2, <1>3, <2>1, <2>2, CreateInsideStep DEF Decoding
<1>4. CASE Goto(t, "jpeg2000 cleanup")
  <2>1. ObjectsAt("jpeg2000 cleanup", call[t].live)
    BY <1>2 DEF ObjectsAt
  <2> QED BY <1>1, <1>2, <1>4, <2>1, GotoInsideStep
<1> QED BY <1>3, <1>4 DEF ReadHeader

LEMMA DecodeInv ==
  ASSUME KernelInv, NEW t \in Thread, Decode(t) \/ EndDecompress(t)
  PROVE  KernelInv'
<1>1. PICK next \in {"jpeg2000 end", "jpeg2000 convert", "jpeg2000 cleanup"} :
        /\ Goto(t, next) /\ pc(t) \in {"jpeg2000 decode", "jpeg2000 end"}
        /\ UNCHANGED <<library, output>>
  BY DEF Decode, EndDecompress
<1>2. Inside(t) /\ Of(t) = "jpeg2000" /\ Undecoded(t) /\ call[t].live = Objects
  BY <1>1, InJpeg2000 DEF ObjectsAt, Undecoded, Decoding
<1>3. ObjectsAt(next, call[t].live)
  BY <1>1, <1>2 DEF ObjectsAt, Objects
<1> QED BY <1>1, <1>2, <1>3, GotoInsideStep DEF Decoding

LEMMA ConvertInv ==
  ASSUME KernelInv, NEW t \in Thread, Convert(t)
  PROVE  KernelInv'
<1>1. PICK numcomps \in {0, 1, 3}, uniform \in BOOLEAN, h \in Dimension, w \in Dimension :
        /\ pc(t) = "jpeg2000 convert" /\ UNCHANGED <<library, output>>
        /\ IF Convertible(t, numcomps, uniform, h, w)
           THEN Deliver(t, h, w, "jpeg2000 cleanup")
           ELSE Goto(t, "jpeg2000 cleanup")
  BY DEF Convert
<1>2. Inside(t) /\ Of(t) = "jpeg2000" /\ Undecoded(t) /\ call[t].live = Objects
  BY <1>1, InJpeg2000 DEF ObjectsAt, Undecoded
<1>3. ObjectsAt("jpeg2000 cleanup", call[t].live)
  BY <1>2 DEF ObjectsAt, Objects
<1>4. CASE Convertible(t, numcomps, uniform, h, w)
  <2>1. h \in Nat /\ w \in Nat
    BY NumbersAssumption
  <2>2. h > 0 /\ w > 0 /\ w * h <= SizeMax \div call[t].input.channels
    BY <1>4 DEF Convertible
  <2>3. h * w = w * h /\ h * w \in Nat
    BY <2>1
  <2>4. call[t].input.channels \in {1, 3}
    BY <1>2, InsideFacts
  <2>5. h * w * call[t].input.channels <= SizeMax
    BY <2>2, <2>3, <2>4, CheckedByDivision
  <2>6. KindAt("jpeg2000 cleanup", Of(t))
    BY <1>2 DEF KindAt
  <2>7. "jpeg2000 cleanup" \in {"publish", "jpeg2000 cleanup"} /\ Deliver(t, h, w, "jpeg2000 cleanup")
    BY <1>1, <1>4
  <2> QED BY <1>1, <1>2, <1>3, <2>1, <2>2, <2>5, <2>6, <2>7, InsideFacts, DeliverStep, Zenon
<1>5. CASE ~Convertible(t, numcomps, uniform, h, w)
  BY <1>1, <1>2, <1>3, <1>5, GotoInsideStep
<1> QED BY <1>4, <1>5

LEMMA CleanupInv ==
  ASSUME KernelInv, NEW t \in Thread, Cleanup(t)
  PROVE  KernelInv'
<1>1. pc(t) = "jpeg2000 cleanup" /\ ReturnReleasing(t) /\ UNCHANGED <<library, output>>
  BY DEF Cleanup
<1> QED BY <1>1, ReleaseStep DEF Loading

\* The callbacks never move past the end of the stream, so `size - pos` does
\* not wrap.
LEMMA MoveStays ==
  ASSUME NEW pos \in 0 .. StreamSize, NEW n \in Nat
  PROVE  /\ (StreamSize + SizeMax + 1 - pos) % (SizeMax + 1) = StreamSize - pos
         /\ (pos + Least(n, StreamSize - pos)) % (SizeMax + 1) \in 0 .. StreamSize
<1>1. StreamSize - pos \in Nat /\ StreamSize - pos <= SizeMax /\ SizeMax \in Nat
  BY NumbersAssumption
<1>2. StreamSize + SizeMax + 1 - pos = (StreamSize - pos) + (SizeMax + 1)
  BY NumbersAssumption
<1>3. ASSUME NEW m \in Nat, m <= SizeMax PROVE (m + (SizeMax + 1)) % (SizeMax + 1) = m
  BY <1>1, <1>3
<1>4. pos + Least(n, StreamSize - pos) \in 0 .. StreamSize
  BY NumbersAssumption DEF Least
<1> QED BY <1>1, <1>2, <1>3, <1>4, NoWrap, NumbersAssumption

LEMMA CallbackInv ==
  ASSUME KernelInv, NEW t \in Thread, Callback(t)
  PROVE  KernelInv'
<1>1. PICK n \in 0 .. StreamSize + 1 :
        /\ pc(t) \in Decoding /\ UNCHANGED <<library, output>>
        /\ Read(t, n) \/ Skip(t, n) \/ Seek(t, n)
  BY DEF Callback
<1>2. /\ call[t] \in Locals /\ call[t].pos \in 0 .. StreamSize /\ call[t].live \in SUBSET Objects
      /\ n \in Nat
  BY ThreadFacts, NumbersAssumption DEF Locals
<1>3. PICK pos \in 0 .. StreamSize : call' = [call EXCEPT ![t].pos = pos]
  <2>1. CASE Seek(t, n)
    <3>1. n \in 0 .. StreamSize /\ call' = [call EXCEPT ![t].pos = n]
      BY <1>2, <2>1, NumbersAssumption DEF Seek
    <3> QED BY <3>1
  <2>2. CASE Move(t, n)
    BY <1>2, <2>2, MoveStays DEF Move, Left
  <2> QED BY <1>1, <2>1, <2>2 DEF Read, Skip
<1>4. [call[t] EXCEPT !.pc = pc(t), !.live = call[t].live, !.pos = pos] = [call[t] EXCEPT !.pos = pos]
  BY <1>2 DEF Locals, pc
<1>5. call' = [call EXCEPT ![t] = [call[t] EXCEPT !.pc = pc(t), !.live = call[t].live, !.pos = pos]]
  BY <1>3, <1>4
<1>6. /\ Inside(t) /\ pc(t) # "idle" /\ ~Loading(t)
      /\ ObjectsAt(pc(t), call[t].live)
  BY <1>1, InJpeg2000
<1>7. /\ pc(t) \in Place \ {"idle", "open", "symbols", "webp pixels"}
      /\ Undecoded(t)
  BY <1>1 DEF Place, Decoding, Undecoded
<1>8. KindAt(pc(t), Of(t)) /\ api[Of(t)] = "usable"
  BY <1>6, InsideFacts
<1> QED BY <1>1, <1>2, <1>3, <1>5, <1>6, <1>7, <1>8, MoveStep

-----------------------------------------------------------------------------
(* The loading of a library.                                               *)

\* A thread moves on with the loading of its format's library, which never
\* becomes unusable.
Loads(t, f, found, count, place) ==
  /\ Of(t) = f /\ output' = output
  /\ pc(t) \in {"run", "open", "symbols"} /\ place \in {"run", "open", "symbols"}
  /\ Goto(t, place)
  /\ found \in {"unset", "loading", "usable", "missing"} /\ count \in Nat
  /\ api' = [api EXCEPT ![f] = found] /\ handles' = [handles EXCEPT ![f] = count]
  /\ api[f] = "usable" => found = "usable"

Loaded(t, f, found, count, place) ==
  /\ TypeOK' /\ \A u \in Thread : ThreadInv(u)'
  /\ api'[f] = found /\ handles'[f] = count
  /\ \A g \in Format : g # f => api'[g] = api[g] /\ handles'[g] = handles[g]
  /\ pc(t)' = place /\ Of(t)' = f
  /\ \A u \in Thread : u # t => pc(u)' = pc(u) /\ Of(u)' = Of(u)

LEMMA LoadStep ==
  ASSUME KernelInv, NEW t \in Thread, NEW f \in Format, NEW found, NEW count, NEW place,
         Loads(t, f, found, count, place)
  PROVE  Loaded(t, f, found, count, place)
<1> USE DEF Loads
<1> DEFINE locals == [call[t] EXCEPT !.pc = place]
<1>1. /\ call[t] \in Locals
      /\ PlaceKnown(t) /\ ObjectsKnown(t) /\ SizesKnown(t) /\ OutputKnown(t)
  BY ThreadFacts
<1>2. locals \in Locals
  BY <1>1 DEF Locals, Place
<1>3. call' = [call EXCEPT ![t] = locals] /\ call'[t] = locals
  BY DEF Goto, KernelInv, TypeOK
<1>4. /\ locals.pc = place /\ locals.live = call[t].live /\ locals.input = call[t].input
      /\ locals.decoded = call[t].decoded
  BY <1>1 DEF Locals
<1> HIDE DEF locals
<1>5. \A u \in Thread : u # t => call'[u] = call[u]
  BY <1>3 DEF KernelInv, TypeOK
<1>6. /\ api'[f] = found /\ handles'[f] = count
      /\ \A g \in Format : g # f => api'[g] = api[g] /\ handles'[g] = handles[g]
  BY DEF KernelInv, TypeOK
<1>7. TypeOK'
  BY <1>2, <1>3 DEF KernelInv, TypeOK
<1>8. \A g \in Format : api[g] = "usable" => api'[g] = "usable"
  BY <1>6
<1>9. pc(t)' = place /\ Of(t)' = f
  BY <1>3, <1>4 DEF pc, Of
<1>10. ThreadInv(t)'
  <2>1. ~call[t].decoded
    BY <1>1 DEF SizesKnown
  <2>2. call[t].live = {} /\ output[t] = None /\ call[t].input \in Input
    BY <1>1 DEF ObjectsKnown, ObjectsAt, OutputKnown, PlaceKnown
  <2>3. PlaceKnown(t)' /\ LibraryKnown(t)' /\ SizesKnown(t)'
    BY <1>3, <1>4, <1>9, <2>1, <2>2
       DEF PlaceKnown, KindAt, LibraryKnown, SizesKnown, Inside, InLibrary
  <2>4. ObjectsKnown(t)' /\ OutputKnown(t)'
    BY <1>3, <1>4, <1>9, <2>2 DEF ObjectsKnown, ObjectsAt, OutputKnown
  <2> QED BY <2>3, <2>4 DEF ThreadInv
<1>11. ASSUME NEW u \in Thread, u # t PROVE ThreadInv(u)'
  <2>1. /\ PlaceKnown(u) /\ LibraryKnown(u) /\ ObjectsKnown(u) /\ SizesKnown(u) /\ OutputKnown(u)
        /\ call'[u] = call[u] /\ output'[u] = output[u]
    BY <1>5, <1>11, ThreadFacts
  <2>2. Inside(u) => Of(u) \in Format
    BY <2>1 DEF PlaceKnown, KindAt, Inside, InLibrary, Format
  <2>3. LibraryKnown(u)' /\ OutputKnown(u)'
    BY <1>8, <2>1, <2>2 DEF LibraryKnown, OutputKnown, Inside, pc, Of
  <2>4. PlaceKnown(u)' /\ ObjectsKnown(u)' /\ SizesKnown(u)'
    BY <2>1 DEF PlaceKnown, ObjectsKnown, SizesKnown, pc, Of, WebpFits
  <2> QED BY <2>3, <2>4 DEF ThreadInv
<1>12. \A u \in Thread : u # t => pc(u)' = pc(u) /\ Of(u)' = Of(u)
  BY <1>5 DEF pc, Of
<1> QED BY <1>6, <1>7, <1>9, <1>10, <1>11, <1>12 DEF Loaded

\* What KernelInv says of a library.
LEMMA FormatFacts ==
  ASSUME KernelInv, NEW f \in Format
  PROVE  /\ LoadKnown(f)
         /\ api[f] \in {"unset", "loading", "usable", "missing"} /\ handles[f] \in Nat
         /\ api = [api EXCEPT ![f] = api[f]] /\ handles = [handles EXCEPT ![f] = handles[f]]
         /\ handles[f] = IF api[f] = "usable" \/ \E t \in Thread : pc(t) = "symbols" /\ Of(t) = f
                         THEN 1 ELSE 0
BY DEF KernelInv, TypeOK, OneHandlePerUsableLibrary

\* The thread that loads a library is alone, and has its handle once it looks
\* for the functions.
LEMMA LoaderFacts ==
  ASSUME KernelInv, NEW t \in Thread, Loading(t)
  PROVE  /\ Of(t) \in Format /\ api[Of(t)] = "loading"
         /\ \A u \in Thread : Loading(u) /\ Of(u) = Of(t) => u = t
         /\ handles[Of(t)] = IF pc(t) = "symbols" THEN 1 ELSE 0
<1>1. Of(t) \in Format
  BY ThreadFacts DEF PlaceKnown, KindAt, Loading
<1>2. api[Of(t)] = "loading" /\ \A u \in Thread : Loading(u) /\ Of(u) = Of(t) => u = t
  BY <1>1, FormatFacts DEF LoadKnown
<1> QED BY <1>1, <1>2, FormatFacts DEF Loading

\* The last facts of a step of loading: the other format is untouched.
LEMMA OtherLibrary ==
  ASSUME KernelInv, NEW t \in Thread, NEW f \in Format, Of(t) = f,
         \A g \in Format : g # f => api'[g] = api[g] /\ handles'[g] = handles[g],
         Of(t)' = f, \A u \in Thread : u # t => pc(u)' = pc(u) /\ Of(u)' = Of(u),
         NEW g \in Format, g # f
  PROVE  /\ LoadKnown(g)'
         /\ handles'[g] = IF api'[g] = "usable" \/ \E u \in Thread : pc(u)' = "symbols" /\ Of(u)' = g
                          THEN 1 ELSE 0
<1>1. \A u \in Thread : Of(u) = g => u # t
  OBVIOUS
<1>2. \A u \in Thread : Of(u)' = g => u # t
  OBVIOUS
<1>3. LoadKnown(g)'
  BY <1>1, <1>2, FormatFacts DEF LoadKnown, Loading
<1>4. (\E u \in Thread : pc(u)' = "symbols" /\ Of(u)' = g)
        <=> \E u \in Thread : pc(u) = "symbols" /\ Of(u) = g
  BY <1>1, <1>2
<1> QED BY <1>3, <1>4, FormatFacts

LEMMA BeginLoadInv ==
  ASSUME KernelInv, NEW t \in Thread, BeginLoad(t)
  PROVE  KernelInv'
<1>1. PICK f \in Format :
        /\ pc(t) = "run" /\ Of(t) = f /\ api[f] = "unset"
        /\ api' = [api EXCEPT ![f] = "loading"] /\ Goto(t, "open")
        /\ handles' = handles /\ output' = output
  BY DEF BeginLoad, Accepted
<1>2. handles' = [handles EXCEPT ![f] = handles[f]] /\ handles[f] \in Nat
  BY <1>1, FormatFacts
<1>3. /\ TypeOK' /\ \A u \in Thread : ThreadInv(u)'
      /\ api'[f] = "loading" /\ handles'[f] = handles[f]
      /\ \A g \in Format : g # f => api'[g] = api[g] /\ handles'[g] = handles[g]
      /\ pc(t)' = "open" /\ Of(t)' = f
      /\ \A u \in Thread : u # t => pc(u)' = pc(u) /\ Of(u)' = Of(u)
  <2>1. Loads(t, f, "loading", handles[f], "open")
    BY <1>1, <1>2 DEF Loads
  <2>2. Loaded(t, f, "loading", handles[f], "open")
    BY <2>1, LoadStep
  <2> QED BY <2>2 DEF Loaded
<1>4. \A u \in Thread : ~(Loading(u) /\ Of(u) = f)
  BY <1>1, FormatFacts DEF LoadKnown
<1>5. LoadKnown(f)'
  BY <1>3, <1>4 DEF LoadKnown, Loading
<1>6. handles'[f] = 0 /\ \A u \in Thread : ~(pc(u)' = "symbols" /\ Of(u)' = f)
  BY <1>1, <1>3, <1>4, FormatFacts DEF Loading
<1>7. \A g \in Format : g # f =>
        /\ LoadKnown(g)'
        /\ handles'[g] = IF api'[g] = "usable" \/ \E u \in Thread : pc(u)' = "symbols" /\ Of(u)' = g
                         THEN 1 ELSE 0
  BY <1>1, <1>3, OtherLibrary
<1> QED BY <1>3, <1>5, <1>6, <1>7 DEF KernelInv, OneHandlePerUsableLibrary

LEMMA OpenInv ==
  ASSUME KernelInv, NEW t \in Thread, Open(t)
  PROVE  KernelInv'
<1>0. PICK f \in Format : Of(t) = f
  BY LoaderFacts DEF Open, Loading
<1>1. pc(t) = "open" /\ Loading(t) /\ output' = output
  BY DEF Open, Loading
<1>2. /\ f \in Format /\ api[f] = "loading" /\ handles[f] = 0
      /\ \A u \in Thread : Loading(u) /\ Of(u) = f => u = t
  BY <1>0, <1>1, LoaderFacts
<1>3. api = [api EXCEPT ![f] = "loading"] /\ handles = [handles EXCEPT ![f] = 0]
  BY <1>2, FormatFacts
<1>4. PICK found \in {"loading", "missing"}, count \in {0, 1}, place \in {"symbols", "run"} :
        /\ api' = [api EXCEPT ![f] = found] /\ handles' = [handles EXCEPT ![f] = count]
        /\ Goto(t, place)
        /\ count = (IF place = "symbols" THEN 1 ELSE 0)
        /\ place = "symbols" => found = "loading"
  <2>1. CASE /\ handles' = [handles EXCEPT ![f] = @ + 1] /\ Goto(t, "symbols") /\ UNCHANGED api
    BY <1>0, <1>2, <1>3, <2>1
  <2>2. CASE /\ api' = [api EXCEPT ![f] = "missing"] /\ Goto(t, "run") /\ UNCHANGED handles
    BY <1>0, <1>2, <1>3, <2>2
  <2> QED BY <1>0, <2>1, <2>2 DEF Open
<1>5. Loaded(t, f, found, count, place)
  <2>1. Loads(t, f, found, count, place)
    BY <1>0, <1>1, <1>2, <1>4 DEF Loads
  <2> QED BY <2>1, LoadStep
<1>6. /\ TypeOK' /\ \A u \in Thread : ThreadInv(u)'
      /\ api'[f] = found /\ handles'[f] = count
      /\ \A g \in Format : g # f => api'[g] = api[g] /\ handles'[g] = handles[g]
      /\ pc(t)' = place /\ Of(t)' = f
      /\ \A u \in Thread : u # t => pc(u)' = pc(u) /\ Of(u)' = Of(u)
  BY <1>5 DEF Loaded
<1>7. \A u \in Thread : Loading(u)' /\ Of(u)' = f => u = t
  BY <1>2, <1>6 DEF Loading
<1>8. LoadKnown(f)'
  BY <1>4, <1>6, <1>7 DEF LoadKnown, Loading
<1>9. handles'[f] = IF api'[f] = "usable" \/ \E u \in Thread : pc(u)' = "symbols" /\ Of(u)' = f
                    THEN 1 ELSE 0
  BY <1>4, <1>6, <1>7 DEF Loading
<1>10. \A g \in Format : g # f =>
        /\ LoadKnown(g)'
        /\ handles'[g] = IF api'[g] = "usable" \/ \E u \in Thread : pc(u)' = "symbols" /\ Of(u)' = g
                         THEN 1 ELSE 0
  BY <1>0, <1>6, OtherLibrary
<1>11. (\A g \in Format : LoadKnown(g)') /\ OneHandlePerUsableLibrary'
  BY <1>8, <1>9, <1>10 DEF OneHandlePerUsableLibrary
<1> QED BY <1>6, <1>11 DEF KernelInv

LEMMA SymbolsInv ==
  ASSUME KernelInv, NEW t \in Thread, Symbols(t)
  PROVE  KernelInv'
<1>0. PICK f \in Format : Of(t) = f
  BY LoaderFacts DEF Symbols, Loading
<1>1. pc(t) = "symbols" /\ Loading(t) /\ output' = output /\ Goto(t, "run")
  BY DEF Symbols, Loading
<1>2. /\ f \in Format /\ api[f] = "loading" /\ handles[f] = 1
      /\ \A u \in Thread : Loading(u) /\ Of(u) = f => u = t
  BY <1>0, <1>1, LoaderFacts
<1>3. handles = [handles EXCEPT ![f] = 1]
  BY <1>2, FormatFacts
<1>4. PICK found \in {"usable", "missing"}, count \in {0, 1} :
        /\ api' = [api EXCEPT ![f] = found] /\ handles' = [handles EXCEPT ![f] = count]
        /\ count = (IF found = "usable" THEN 1 ELSE 0)
  <2>1. CASE api' = [api EXCEPT ![f] = "usable"] /\ UNCHANGED handles
    BY <1>0, <1>3, <2>1
  <2>2. CASE api' = [api EXCEPT ![f] = "missing"] /\ handles' = [handles EXCEPT ![f] = @ - 1]
    BY <1>0, <1>2, <2>2
  <2> QED BY <1>0, <2>1, <2>2 DEF Symbols
<1>5. Loaded(t, f, found, count, "run")
  <2>1. Loads(t, f, found, count, "run")
    BY <1>0, <1>1, <1>2, <1>4 DEF Loads
  <2> QED BY <2>1, LoadStep
<1>6. /\ TypeOK' /\ \A u \in Thread : ThreadInv(u)'
      /\ api'[f] = found /\ handles'[f] = count
      /\ \A g \in Format : g # f => api'[g] = api[g] /\ handles'[g] = handles[g]
      /\ pc(t)' = "run" /\ Of(t)' = f
      /\ \A u \in Thread : u # t => pc(u)' = pc(u) /\ Of(u)' = Of(u)
  BY <1>5 DEF Loaded
<1>7. \A u \in Thread : ~(Loading(u)' /\ Of(u)' = f)
  BY <1>2, <1>6 DEF Loading
<1>8. LoadKnown(f)'
  BY <1>7 DEF LoadKnown
<1>9. handles'[f] = IF api'[f] = "usable" \/ \E u \in Thread : pc(u)' = "symbols" /\ Of(u)' = f
                    THEN 1 ELSE 0
  BY <1>4, <1>6, <1>7 DEF Loading
<1>10. \A g \in Format : g # f =>
        /\ LoadKnown(g)'
        /\ handles'[g] = IF api'[g] = "usable" \/ \E u \in Thread : pc(u)' = "symbols" /\ Of(u)' = g
                         THEN 1 ELSE 0
  BY <1>0, <1>6, OtherLibrary
<1>11. (\A g \in Format : LoadKnown(g)') /\ OneHandlePerUsableLibrary'
  BY <1>8, <1>9, <1>10 DEF OneHandlePerUsableLibrary
<1> QED BY <1>6, <1>11 DEF KernelInv

-----------------------------------------------------------------------------
(* Every step, and the theorems.                                           *)

LEMMA StepPreserves ==
  ASSUME KernelInv, [Next]_vars
  PROVE  KernelInv'
<1>1. CASE UNCHANGED vars
  <2>1. \A t \in Thread : ThreadInv(t)'
    BY <1>1 DEF vars, KernelInv, ThreadInv, PlaceKnown, LibraryKnown, ObjectsKnown, SizesKnown,
                OutputKnown, Inside, pc, Of, WebpFits
  <2>2. (\A f \in Format : LoadKnown(f)') /\ OneHandlePerUsableLibrary' /\ TypeOK'
    BY <1>1 DEF vars, KernelInv, LoadKnown, OneHandlePerUsableLibrary, TypeOK, Loading, pc, Of
  <2> QED BY <2>1, <2>2 DEF KernelInv
<1>2. ASSUME NEW t \in Thread, Step(t) PROVE KernelInv'
  <2>1. CASE Upstream(t) \/ Reject(t) \/ Tiff(t) \/ Publish(t) \/ Throw(t)
    BY <2>1, UpstreamInv, RejectOrThrowInv, TiffInv, PublishInv
  <2>2. CASE BeginLoad(t) \/ UseLoad(t) \/ Open(t) \/ Symbols(t)
    BY <2>2, BeginLoadInv, UseLoadInv, OpenInv, SymbolsInv
  <2>3. CASE WebpInfo(t) \/ WebpDecode(t)
    BY <2>3, WebpInfoInv, WebpDecodeInv
  <2>4. CASE CreateCodec(t) \/ CreateStream(t) \/ Setup(t) \/ ReadHeader(t)
    BY <2>4, CreateCodecInv, CreateStreamInv, SetupInv, ReadHeaderInv
  <2>5. CASE Decode(t) \/ EndDecompress(t) \/ Convert(t) \/ Cleanup(t)
    BY <2>5, DecodeInv, ConvertInv, CleanupInv
  <2> QED BY <1>2, <2>1, <2>2, <2>3, <2>4, <2>5 DEF Step
<1> QED BY <1>1, <1>2, CallInv, CallbackInv DEF Next

\* KernelInv, the inductive invariant the theorems below rest on: what
\* every thread, every library and every output keep, whatever the step.
THEOREM KernelInvariant == Spec => []KernelInv
<1>1. Init => KernelInv
  BY InitHolds
<1>2. KernelInv /\ [Next]_vars => KernelInv'
  BY StepPreserves
<1> QED BY <1>1, <1>2, PTL DEF Spec

\* The state is well formed; a position in the encoded stream (OpjMemRead,
\* OpjMemSkip, OpjMemSeek) never passes its end.
THEOREM TypeCorrect == Spec => []TypeOK
<1>1. KernelInv => TypeOK
  BY DEF KernelInv
<1> QED BY <1>1, KernelInvariant, PTL

\* A library is open exactly while its functions may be looked up or called,
\* and once, however many threads ask for it (LoadWebpDecodeApi,
\* LoadOpenJpegApi).
THEOREM OneHandle == Spec => []OneHandlePerUsableLibrary
<1>1. KernelInv => OneHandlePerUsableLibrary
  BY DEF KernelInv
<1> QED BY <1>1, KernelInvariant, PTL

\* No thread runs TryDecodeWebp or TryDecodeJpeg2000 past its check without
\* the library it calls.
THEOREM OnlyUsable == Spec => []OnlyUsableLibrariesAreCalled
<1>1. KernelInv => OnlyUsableLibrariesAreCalled
  BY DEF KernelInv, ThreadInv, LibraryKnown, OnlyUsableLibrariesAreCalled
<1> QED BY <1>1, KernelInvariant, PTL

\* TryDecodeJpeg2000 passes OpenJPEG objects that exist and returns with all
\* of them destroyed, unless it throws.
THEOREM ObjectsExist == Spec => []ObjectsOfACall
<1>1. KernelInv => ObjectsOfACall
  BY DEF KernelInv, ThreadInv, ObjectsKnown, ObjectsAt, ObjectsOfACall
<1> QED BY <1>1, KernelInvariant, PTL

LEMMA RowsOfThree ==
  ASSUME NEW h \in Nat, NEW w \in Nat, w <= IntMax \div 3
  PROVE  w * 3 <= IntMax /\ h * (w * 3) <= w * h * 3
<1>1. w * 3 <= IntMax
  BY NumbersAssumption
<1>2. w * h \in Nat /\ w * h = h * w
  OBVIOUS
<1>3. h * (w * 3) = (h * w) * 3
  OBVIOUS
<1> QED BY <1>1, <1>2, <1>3

\* What WebPDecodeRGBInto is given, a stride and a buffer, hold the rows of the
\* picture WebPGetInfo announced, for every width of int and of size_t.
THEOREM RowsFit == Spec => []RowsFitTheBuffer
<1>1. ASSUME KernelInv PROVE RowsFitTheBuffer
  <2> SUFFICES ASSUME NEW t \in Thread, pc(t) = "webp pixels"
               PROVE  /\ call[t].width * 3 <= IntMax
                      /\ call[t].height * (call[t].width * 3) <= call[t].rgb
    BY DEF RowsFitTheBuffer
  <2> DEFINE h == call[t].height
             w == call[t].width
  <2>1. h \in Nat /\ w \in Nat
    BY <1>1, ThreadFacts DEF Locals
  <2>2. w <= IntMax \div 3 /\ call[t].rgb = w * h * 3
    BY <1>1, ThreadFacts DEF SizesKnown, WebpFits
  <2> HIDE DEF h, w
  <2> QED BY <2>1, <2>2, RowsOfThree DEF h, w
<1> QED BY <1>1, KernelInvariant, PTL

\* Whatever the decoder, what Run published has as many bytes as its shape
\* says, and is empty in both directions or in none.
THEOREM ShapeMatches == Spec => []ShapeMatchesBytes
<1>1. KernelInv => ShapeMatchesBytes
  BY DEF KernelInv, ThreadInv, OutputKnown, ShapeMatchesBytes
<1> QED BY <1>1, KernelInvariant, PTL

\* README.md:34: an empty matrix is what a missing library gives.
THEOREM EmptyWithout == Spec => []EmptyWithoutLibrary
<1>1. ASSUME KernelInv PROVE EmptyWithoutLibrary
  <2> SUFFICES ASSUME NEW t \in Thread, output[t] # None, Of(t) \in Format,
                      api[Of(t)] = "missing"
               PROVE  output[t].height = 0 /\ output[t].bytes = 0
    BY DEF EmptyWithoutLibrary
  <2>1. output[t] \in Pictures /\ OutputKnown(t) /\ PlaceKnown(t)
    BY <1>1, ThreadFacts
  <2>2. output[t].height \in Nat /\ output[t].width \in Nat
    BY <2>1 DEF Pictures
  <2>3. output[t].height = 0 /\ output[t].width = 0
    BY <2>1, <2>2 DEF OutputKnown
  <2>4. call[t].input.channels \in {1, 3}
    BY <2>1, InputAssumption DEF PlaceKnown
  <2>5. output[t].bytes = 0 * 0 * call[t].input.channels
    BY <2>1, <2>3 DEF OutputKnown
  <2> QED BY <2>3, <2>4, <2>5
<1> QED BY <1>1, KernelInvariant, PTL

\* A function-local static is initialised once: what a load found is what
\* every later call of the process is told.
THEOREM LoadStays == Spec => LoadIsFinal
<1>1. ASSUME KernelInv, [Next]_vars
      PROVE  [\A f \in Format : api[f] \in {"usable", "missing"} => api'[f] = api[f]]_vars
  <2>1. SUFFICES ASSUME NEW f \in Format, api[f] \in {"usable", "missing"}
                 PROVE  api'[f] = api[f]
    OBVIOUS
  <2>2. api \in [Format -> {"unset", "loading", "usable", "missing"}]
    BY <1>1 DEF KernelInv, TypeOK
  <2>3. ASSUME NEW t \in Thread, Open(t) \/ Symbols(t) PROVE api'[f] = api[f]
    <3>1. api[Of(t)] = "loading"
      BY <1>1, <2>3, LoaderFacts DEF Open, Symbols, Loading
    <3> QED BY <2>1, <2>2, <2>3, <3>1 DEF Open, Symbols
  <2>4. ASSUME NEW t \in Thread, BeginLoad(t) PROVE api'[f] = api[f]
    BY <2>1, <2>2, <2>4 DEF BeginLoad
  <2>5. ASSUME NEW t \in Thread, Call(t) \/ Step(t) \/ Callback(t),
               ~(Open(t) \/ Symbols(t) \/ BeginLoad(t))
        PROVE  api' = api
    BY <2>5 DEF Step, Call, Callback, Upstream, Reject, Tiff, Publish, Throw, UseLoad, WebpInfo,
                WebpDecode, CreateCodec, CreateStream, Setup, ReadHeader, Decode, EndDecompress,
                Convert, Cleanup, library
  <2> QED BY <1>1, <2>3, <2>4, <2>5 DEF Next, vars
<1> QED BY <1>1, KernelInvariant, PTL DEF Spec, LoadIsFinal
=============================================================================
