---------------------------- MODULE ImageKernel ----------------------------
(***************************************************************************)
(* The ImageDecoder kernel run by several threads: the choice of decoder   *)
(* by signature, the WebP and JPEG2000 decoders around their dynamically   *)
(* loaded libraries, and what is published (register_image_kernels.cc,     *)
(* legacy_image_codecs.cc).                                                *)
(*                                                                         *)
(* The TIFF branch is one step here: TiffRewrite and TiffDecode are its    *)
(* details.  Both libraries are external: a function of theirs may give    *)
(* any answer.  Every library is loaded under a C++ function-local static: *)
(* the first thread initialises it, the others wait, the value never       *)
(* changes again.                                                          *)
(***************************************************************************)
EXTENDS Integers

CONSTANTS
  Thread,
  Input,        \* what Run may be given: a signature, whether the tensor is
                \* valid, 3 channels (RGB, BGR) or 1 (Grayscale)
  Dimension,    \* widths and heights an image may claim
  StreamSize,   \* bytes of the encoded stream
  SizeMax,      \* largest size_t
  IntMax,       \* largest int
  None

Format == {"webp", "jpeg2000"}                       \* those with a library
Kind == Format \cup {"tiff", "other"}

ASSUME InputAssumption == Input \subseteq [kind : Kind, valid : BOOLEAN, channels : {1, 3}]
ASSUME NumbersAssumption == /\ Dimension \subseteq Nat
                            /\ {StreamSize, SizeMax, IntMax} \subseteq Nat
                            /\ StreamSize <= SizeMax
ASSUME NoneAssumption == None \notin Input \cup [height : Nat, width : Nat, bytes : Nat]

Decoding == {"jpeg2000 header", "jpeg2000 decode", "jpeg2000 end"}

VARIABLES
  api,       \* api[f]: the static of format f
  handles,   \* handles[f]: open handles of the library of f
  call,      \* call[t]: the local state of thread t's current Run
  output     \* output[t]: what its last Run published

vars == <<api, handles, call, output>>
library == <<api, handles>>

Start(input) == [pc |-> "run", input |-> input, live |-> {}, pos |-> 0,
                 rgb |-> 0, height |-> 0, width |-> 0, bytes |-> 0, decoded |-> FALSE]

Init ==
  /\ api = [f \in Format |-> "unset"]
  /\ handles = [f \in Format |-> 0]
  /\ call = [t \in Thread |-> [Start(None) EXCEPT !.pc = "idle"]]
  /\ output = [t \in Thread |-> None]

pc(t) == call[t].pc
Of(t) == call[t].input.kind
Goto(t, place) == call' = [call EXCEPT ![t].pc = place]

\* Run ends, and its locals with it; OpenJPEG objects still alive are lost.
Leave(t) == call' = [call EXCEPT ![t] =
  [Start(call[t].input) EXCEPT !.pc = "idle", !.live = call[t].live]]

-----------------------------------------------------------------------------
(* TiffAwareImageDecoder::Run *)

Call(t) == \E input \in Input :
  /\ pc(t) = "idle"
  /\ call' = [call EXCEPT ![t] = Start(input)]
  /\ output' = [output EXCEPT ![t] = None]
  /\ UNCHANGED library

\* No signature matches: the upstream decoder runs and publishes by itself.
Upstream(t) == \E h, w \in Dimension :
  /\ pc(t) = "run" /\ Of(t) = "other"
  /\ (h = 0) = (w = 0)
  /\ Leave(t)
  /\ output' = [output EXCEPT ![t] =
       [height |-> h, width |-> w, bytes |-> h * w * call[t].input.channels]]
  /\ UNCHANGED library

\* EXT_ENFORCE_INVALID: not UINT8, not one-dimensional, or of another size; or
\* a pixel_format ChannelCount does not know.
Reject(t) ==
  /\ pc(t) = "run" /\ Of(t) # "other" /\ ~call[t].input.valid
  /\ Leave(t)
  /\ UNCHANGED <<library, output>>

Accepted(t, kind) == pc(t) = "run" /\ Of(t) = kind /\ call[t].input.valid

\* A decoder returns to Run: without, or with, a picture.
Fail(t) == Goto(t, "publish")
Deliver(t, h, w, place) ==
  call' = [call EXCEPT ![t].pc = place, ![t].decoded = TRUE, ![t].height = h, ![t].width = w,
                       ![t].bytes = (h * w * call[t].input.channels) % (SizeMax + 1)]

Tiff(t) ==
  /\ Accepted(t, "tiff")
  /\ \/ Fail(t)
     \/ \E h, w \in Dimension \ {0} :
          /\ h * w * call[t].input.channels <= SizeMax
          /\ Deliver(t, h, w, "publish")
  /\ UNCHANGED <<library, output>>

PublishThreeChannels(t) ==       \* mutant: publishes every picture as three channels
  /\ pc(t) = "publish"
  /\ Leave(t)
  /\ output' = [output EXCEPT ![t] = [height |-> call[t].height, width |-> call[t].width,
                                      bytes |-> 3 * call[t].height * call[t].width]]
  /\ UNCHANGED library

\* A failure empties everything; the output tensor is made and filled.
Publish(t) ==
  /\ pc(t) = "publish"
  /\ Leave(t)
  /\ output' = [output EXCEPT ![t] =
       IF call[t].decoded
       THEN [height |-> call[t].height, width |-> call[t].width, bytes |-> call[t].bytes]
       ELSE [height |-> 0, width |-> 0, bytes |-> 0]]
  /\ UNCHANGED library

\* The temporary buffer, the pixels or a worker of ParallelFor of a decoder.
WebpThrows(t) == pc(t) \in {"webp", "webp pixels"}
Jpeg2000Throws(t) == pc(t) \in {"jpeg2000 parameters", "jpeg2000 convert"}

\* The upstream decoder, the TIFF decoder with its rewriter, the output tensor.
RunThrows(t) ==
  \/ pc(t) = "run" /\ Of(t) = "other"
  \/ Accepted(t, "tiff")
  \/ pc(t) = "publish"

\* An exception passes through Run.
Throw(t) ==
  /\ WebpThrows(t) \/ Jpeg2000Throws(t) \/ RunThrows(t)
  /\ Leave(t)
  /\ UNCHANGED <<library, output>>

-----------------------------------------------------------------------------
(* static const ... api = load_...(): *)

BeginLoadRacy(t) == \E f \in Format :     \* mutant: nothing keeps two threads from loading
  /\ Accepted(t, f) /\ api[f] = "unset"
  /\ Goto(t, "open")
  /\ UNCHANGED <<library, output>>

\* Entering the branch of f: initialise the static, or read it.  A thread
\* that finds it "loading" waits.
BeginLoad(t) == \E f \in Format :
  /\ Accepted(t, f) /\ api[f] = "unset"
  /\ api' = [api EXCEPT ![f] = "loading"]
  /\ Goto(t, "open")
  /\ UNCHANGED <<handles, output>>

UseLoadEarly(t) == \E f \in Format :     \* mutant: a flag set before the library is there
  /\ Accepted(t, f) /\ api[f] # "unset"
  /\ IF api[f] # "missing" THEN Goto(t, f) ELSE Fail(t)
  /\ UNCHANGED <<library, output>>

UseLoadUnchecked(t) == \E f \in Format :   \* mutant: the functions are not looked at
  /\ Accepted(t, f) /\ api[f] \in {"usable", "missing"}
  /\ Goto(t, f)
  /\ UNCHANGED <<library, output>>

UseLoad(t) == \E f \in Format :
  /\ Accepted(t, f) /\ api[f] \in {"usable", "missing"}
  /\ IF api[f] = "usable" THEN Goto(t, f) ELSE Fail(t)
  /\ UNCHANGED <<library, output>>

\* dlopen, of the versioned and then of the plain name.
Open(t) ==
  /\ pc(t) = "open"
  /\ \/ /\ handles' = [handles EXCEPT ![Of(t)] = @ + 1]
        /\ Goto(t, "symbols")
        /\ UNCHANGED api
     \/ /\ api' = [api EXCEPT ![Of(t)] = "missing"]
        /\ Goto(t, "run")
        /\ UNCHANGED handles
  /\ UNCHANGED output

SymbolsKept(t) ==      \* mutant: an incomplete library stays open
  /\ pc(t) = "symbols"
  /\ \E found \in {"usable", "missing"} : api' = [api EXCEPT ![Of(t)] = found]
  /\ Goto(t, "run")
  /\ UNCHANGED <<handles, output>>

\* dlsym of every function; an incomplete library is closed again.
Symbols(t) ==
  /\ pc(t) = "symbols"
  /\ \/ api' = [api EXCEPT ![Of(t)] = "usable"] /\ UNCHANGED handles
     \/ /\ api' = [api EXCEPT ![Of(t)] = "missing"]
        /\ handles' = [handles EXCEPT ![Of(t)] = @ - 1]
  /\ Goto(t, "run")
  /\ UNCHANGED output

-----------------------------------------------------------------------------
(* TryDecodeWebp *)

WebpFitsOutput(t, h, w) ==    \* mutant: checks what is published, not what is decoded
  /\ w > 0 /\ h > 0
  /\ w * h <= SizeMax \div call[t].input.channels
  /\ w <= IntMax \div 3

\* WebPGetInfo and the size checks.
WebpFits(t, h, w) ==
  /\ w > 0 /\ h > 0
  /\ w * h <= SizeMax \div 3
  /\ w * h <= SizeMax \div call[t].input.channels
  /\ w <= IntMax \div 3

WebpInfo(t) ==
  /\ pc(t) = "webp"
  /\ \/ Fail(t)
     \/ \E h, w \in Dimension :
          IF WebpFits(t, h, w)
          THEN call' = [call EXCEPT ![t].pc = "webp pixels", ![t].height = h, ![t].width = w,
                                    ![t].rgb = (w * h * 3) % (SizeMax + 1)]
          ELSE Fail(t)
  /\ UNCHANGED <<library, output>>

\* WebPDecodeRGBInto fills the temporary buffer; the conversion reads it.
WebpDecode(t) ==
  /\ pc(t) = "webp pixels"
  /\ \/ Fail(t)
     \/ Deliver(t, call[t].height, call[t].width, "publish")
  /\ UNCHANGED <<library, output>>

-----------------------------------------------------------------------------
(* TryDecodeJpeg2000 *)

Create(t, object, place) ==
  call' = [call EXCEPT ![t].pc = place, ![t].live = @ \cup {object}]
ReturnReleasing(t) ==
  call' = [call EXCEPT ![t].pc = "publish", ![t].live = {}, ![t].pos = 0]

CreateCodec(t) ==
  /\ pc(t) = "jpeg2000"
  /\ \/ Create(t, "codec", "jpeg2000 stream")
     \/ Fail(t)
  /\ UNCHANGED <<library, output>>

CreateStreamLeaky(t) ==     \* mutant: no stream, and the codec stays
  /\ pc(t) = "jpeg2000 stream"
  /\ \/ Create(t, "stream", "jpeg2000 parameters")
     \/ Fail(t)
  /\ UNCHANGED <<library, output>>

CreateStream(t) ==
  /\ pc(t) = "jpeg2000 stream"
  /\ \/ Create(t, "stream", "jpeg2000 parameters")
     \/ ReturnReleasing(t)
  /\ UNCHANGED <<library, output>>

\* The parameters buffer, the callbacks, opj_setup_decoder.
Setup(t) ==
  /\ pc(t) = "jpeg2000 parameters"
  /\ \E next \in {"jpeg2000 header", "jpeg2000 cleanup"} : Goto(t, next)
  /\ UNCHANGED <<library, output>>

\* opj_read_header leaves an image or not, whatever it answers.
ReadHeader(t) ==
  /\ pc(t) = "jpeg2000 header"
  /\ \/ \E next \in {"jpeg2000 decode", "jpeg2000 cleanup"} : Create(t, "image", next)
     \/ Goto(t, "jpeg2000 cleanup")
  /\ UNCHANGED <<library, output>>

DecodeRetried(t) ==      \* mutant: a failing decode starts over
  /\ pc(t) = "jpeg2000 decode"
  /\ \E next \in {"jpeg2000 end", "jpeg2000 header"} : Goto(t, next)
  /\ UNCHANGED <<library, output>>

Decode(t) ==
  /\ pc(t) = "jpeg2000 decode"
  /\ \E next \in {"jpeg2000 end", "jpeg2000 cleanup"} : Goto(t, next)
  /\ UNCHANGED <<library, output>>

EndDecompress(t) ==
  /\ pc(t) = "jpeg2000 end"
  /\ \E next \in {"jpeg2000 convert", "jpeg2000 cleanup"} : Goto(t, next)
  /\ UNCHANGED <<library, output>>

\* What the decoded image must be: enough components, all of the first one's size.
Convertible(t, numcomps, uniform, h, w) ==
  /\ numcomps >= 1
  /\ call[t].input.channels = 3 => numcomps >= 3
  /\ uniform      \* comps is not null; sizes, data and prec of the used components are right
  /\ w > 0 /\ h > 0
  /\ w * h <= SizeMax \div call[t].input.channels

Convert(t) == \E numcomps \in {0, 1, 3}, uniform \in BOOLEAN, h, w \in Dimension :
  /\ pc(t) = "jpeg2000 convert"
  /\ IF Convertible(t, numcomps, uniform, h, w)
     THEN Deliver(t, h, w, "jpeg2000 cleanup")
     ELSE Goto(t, "jpeg2000 cleanup")
  /\ UNCHANGED <<library, output>>

Cleanup(t) ==
  /\ pc(t) = "jpeg2000 cleanup"
  /\ ReturnReleasing(t)
  /\ UNCHANGED <<library, output>>

\* OpjMemRead, OpjMemSkip, OpjMemSeek: the library may call them at will while
\* it holds the stream.  n is what is asked for; negative and refused requests
\* change nothing.
Left(t) == (StreamSize + SizeMax + 1 - call[t].pos) % (SizeMax + 1)   \* size - pos
Least(m, n) == IF m < n THEN m ELSE n

Move(t, n) == call' = [call EXCEPT ![t].pos = (@ + Least(n, Left(t))) % (SizeMax + 1)]
Read(t, n) == call[t].pos < StreamSize /\ Move(t, n)
Skip(t, n) == Move(t, n)

SeekAnywhere(t, n) ==      \* mutant: no end of the stream
  call' = [call EXCEPT ![t].pos = n]

Seek(t, n) ==
  /\ n <= StreamSize
  /\ call' = [call EXCEPT ![t].pos = n]

Callback(t) == \E n \in 0 .. StreamSize + 1 :
  /\ pc(t) \in Decoding
  /\ Read(t, n) \/ Skip(t, n) \/ Seek(t, n)
  /\ UNCHANGED <<library, output>>

-----------------------------------------------------------------------------
Step(t) ==
  \/ Upstream(t) \/ Reject(t) \/ Tiff(t) \/ Publish(t) \/ Throw(t)
  \/ BeginLoad(t) \/ UseLoad(t) \/ Open(t) \/ Symbols(t)
  \/ WebpInfo(t) \/ WebpDecode(t)
  \/ CreateCodec(t) \/ CreateStream(t) \/ Setup(t) \/ ReadHeader(t)
  \/ Decode(t) \/ EndDecompress(t) \/ Convert(t) \/ Cleanup(t)

Next == \E t \in Thread : Call(t) \/ Step(t) \/ Callback(t)

Spec == Init /\ [][Next]_vars

\* A started Run keeps running and every library function returns, after any
\* number of callbacks.  Nothing makes a thread call.
FairSpec == Spec /\ \A t \in Thread : WF_vars(Step(t))

-----------------------------------------------------------------------------
Place == {"idle", "run", "publish", "open", "symbols", "webp", "webp pixels",
          "jpeg2000", "jpeg2000 stream", "jpeg2000 parameters", "jpeg2000 convert",
          "jpeg2000 cleanup"} \cup Decoding

Objects == {"codec", "stream", "image"}
Locals ==
  [pc : Place, input : Input \cup {None}, live : SUBSET Objects, pos : 0 .. StreamSize,
   rgb : Nat, height : Nat, width : Nat, bytes : Nat, decoded : BOOLEAN]
Pictures == [height : Nat, width : Nat, bytes : Nat]

\* The state is well formed; a position in the encoded stream never passes
\* its end, which OpjMemSkip's `size - pos` relies on.
TypeOK ==
  /\ api \in [Format -> {"unset", "loading", "usable", "missing"}]
  /\ handles \in [Format -> Nat]
  /\ call \in [Thread -> Locals]
  /\ output \in [Thread -> Pictures \cup {None}]

\* A library is open exactly when its functions may be called, and once,
\* however many threads decode their first image at the same time; one that
\* lacks a function is closed again.
OneHandlePerUsableLibrary == \A f \in Format :
  handles[f] = IF api[f] = "usable" \/ \E t \in Thread : pc(t) = "symbols" /\ Of(t) = f
               THEN 1 ELSE 0

InLibrary == Place \ {"idle", "run", "publish", "open", "symbols"}
Inside(t) == pc(t) \in InLibrary

\* No thread is past the static of its format before the library is usable:
\* no null or closed function is called.
OnlyUsableLibrariesAreCalled ==
  \A t \in Thread : Inside(t) => api[Of(t)] = "usable"

\* What a load found is the answer of every later call of the process.
LoadIsFinal ==
  [][\A f \in Format : api[f] \in {"usable", "missing"} => api'[f] = api[f]]_vars

\* OpenJPEG is only given objects that exist, and Run returns with all of them
\* destroyed on every path but an exception.
ObjectsOfACall == \A t \in Thread :
  /\ pc(t) \in {"jpeg2000 decode", "jpeg2000 end", "jpeg2000 convert"} =>
       call[t].live = Objects
  /\ pc(t) \in {"jpeg2000 header", "jpeg2000 cleanup"} => {"codec", "stream"} \subseteq call[t].live
  /\ pc(t) = "publish" \/ (pc(t) = "idle" /\ output[t] # None) => call[t].live = {}

\* libwebp's rows fit the temporary buffer: no size wrapped on the way.
RowsFitTheBuffer == \A t \in Thread :
  pc(t) = "webp pixels" =>
    /\ call[t].width * 3 <= IntMax
    /\ call[t].height * (call[t].width * 3) <= call[t].rgb

\* The published tensor has as many bytes as its shape says, and an image is
\* empty in both directions or in none.
ShapeMatchesBytes == \A t \in Thread : output[t] # None =>
  /\ output[t].bytes = output[t].height * output[t].width * call[t].input.channels
  /\ (output[t].height = 0) = (output[t].width = 0)

\* "When the corresponding library is not available the decoder returns an
\* empty matrix" (README.md:34).
EmptyWithoutLibrary == \A t \in Thread :
  output[t] # None /\ Of(t) \in Format /\ api[Of(t)] = "missing" =>
    output[t].height = 0 /\ output[t].bytes = 0

\* Every call of Run returns or throws, the ones that wait for a load included.
EveryRunEnds == \A t \in Thread : pc(t) # "idle" ~> pc(t) = "idle"
=============================================================================
