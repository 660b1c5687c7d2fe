------------------------- MODULE ConversionService -------------------------
(***************************************************************************)
(* One call of Service.Convert (src/internal/conversion), through the      *)
(* image engine (src/internal/imageconv) or the media engine               *)
(* (src/internal/media), down to the external commands that module Runner  *)
(* runs: detection, hardware probing, temporary files, the CPU fallback,   *)
(* verification of what the tools wrote, and publication.                  *)
(*                                                                         *)
(* Conversions run side by side and may aim at the same output path: jobs  *)
(* in the service never do, command-line calls can.  What a tool finds in  *)
(* a file is the tool's choice; what the plans and the validators make of  *)
(* it is the subject of module Planning.                                   *)
(***************************************************************************)
EXTENDS Runner, Integers

ASSUME ConversionAssumption == {"no one", "another program"} \cap Conversion = {}

VARIABLES
    conv,    \* the conversions
    target,  \* who wrote the file at the output path
    early    \* conversions whose context ended before their last look at it

vars == <<ctx, run, conv, target, early>>

-----------------------------------------------------------------------------

NoOne == "no one"
Foreign == "another program"

FailureKind == {"rejection", "configuration", "probe", "conversion", "validation", "canceled"}

\* The stages that run a command.
ProbeStage == {"imageProbe", "mediaProbe"}
ImageStage == {"decodeProbe", "transparency", "imageConvert", "imageVerify"}
VAAPIStage == {"vaapiEncode", "vaapiVerify", "vaapiDecode"}
MediaStage == {"filters", "encode", "verify"}
CommandStage == ProbeStage \cup ImageStage \cup VAAPIStage \cup MediaStage

\* The stages between a look at the context and the link that publishes.
Publishing(s) ==
    \/ s.pc \in {"stageLink", "mediaLink"}
    \/ s.pc = "imageLink" /\ s.outputIsDirectory

\* The commands that probe for transparency, and those of an image plan.
TransparencyCommands == {2, 3}
PlanCommands == 2 .. 5

\* temps: what the conversion has created beside the output; left: the commands of
\* the stage still to come; path, attempts: ExecutionMetadata; first: how the
\* first attempt ended; mode: the requested acceleration; result: Status, or the
\* FailureKind.
ConversionRecord ==
    [pc : {"idle", "select", "resolve", "stage", "imagePrepare", "imageCheck", "imageLink",
           "stageCheck", "stageLink", "accelerate", "plan", "attempt", "mediaCheck",
           "mediaLink", "returned"} \cup CommandStage,
     kind : {"none", "image", "media"}, outputIsDirectory : BOOLEAN,
     temps : SUBSET {"staging", "work", "probeDir", "temp"}, left : 0 .. 4,
     mode : {"cpu", "auto", "vaapi"}, path : {"cpu", "vaapi"}, attempts : 0 .. 2,
     first : Outcomes \cup {"none"}, result : FailureKind \cup {"none", "success"}]

NotCalled == [pc |-> "idle", kind |-> "none", outputIsDirectory |-> FALSE, temps |-> {},
              left |-> 0, mode |-> "cpu", path |-> "cpu", attempts |-> 0, first |-> "none",
              result |-> "none"]

-----------------------------------------------------------------------------
(* Steps *)

Goto(c, pc) == conv' = [conv EXCEPT ![c].pc = pc]

\* Deferred removals happen on every return, and the locals are gone.
Finished(c, result) ==
    /\ conv' = [conv EXCEPT ![c] = [NotCalled EXCEPT !.pc = "returned", !.result = result,
                                                    !.first = conv[c].first]]
    /\ run' = [run EXCEPT ![c] = NoRun]

Return(c, result) == Finished(c, result) /\ UNCHANGED target

Fails(c, kinds) == \E kind \in kinds : Return(c, kind)

\* The next command, in the state s of the conversion.
CallIn(c, s, stage) ==
    /\ conv' = [conv EXCEPT ![c] = [s EXCEPT !.pc = stage]]
    /\ run' = [run EXCEPT ![c] = Called(c)]
    /\ UNCHANGED target

Call(c, stage) == CallIn(c, conv[c], stage)

\* The first of a sequence of commands, and the next one after a success.
CallFirst(c, s, stage, counts) ==
    \E n \in counts : CallIn(c, [s EXCEPT !.left = n - 1], stage)

CallNext(c) ==
    /\ conv[c].left > 0
    /\ CallIn(c, [conv[c] EXCEPT !.left = @ - 1], conv[c].pc)

\* The command of a stage has returned with this outcome.
Ran(c, stage, outcomes) ==
    conv[c].pc = stage /\ run[c].pc = "returned" /\ run[c].outcome \in outcomes

Broken == {"exit", "wait", "start"}

Local == UNCHANGED <<run, target>>

\* contextFailure and probeContextFailure.
ContextFailure(stage, cause) ==
    IF cause = "canceled" THEN "canceled" ELSE IF stage \in ProbeStage THEN "probe" ELSE "conversion"

\* Every stage gives up when its command was stopped, hardware probing and
\* encoding included: a stopped command is never taken for a broken one.
Stopped(c) ==
    /\ conv[c].pc \in CommandStage
    /\ Ran(c, conv[c].pc, {"canceled", "timeout"})
    /\ Return(c, ContextFailure(conv[c].pc, run[c].outcome))

-----------------------------------------------------------------------------
(* Detection and choice of the operation *)

Begin(c) ==
    /\ conv[c].pc = "idle"
    /\ \/ Return(c, "configuration")
       \/ Call(c, "imageProbe")

\* A file that is no image for libvips is offered to ffprobe.
ImageProbed(c) ==
    \/ /\ Ran(c, "imageProbe", {"ok"})
       /\ conv' = [conv EXCEPT ![c].pc = "select", ![c].kind = "image"] /\ Local
    \/ /\ Ran(c, "imageProbe", {"ok"} \cup Broken)
       /\ Call(c, "mediaProbe")

\* A still image that libvips refused, no usable stream, or audio or video.
MediaProbed(c) ==
    \/ /\ Ran(c, "mediaProbe", {"ok"})
       /\ \/ conv' = [conv EXCEPT ![c].pc = "select", ![c].kind = "media"] /\ Local
          \/ Fails(c, {"configuration", "rejection", "probe", "conversion"})
    \/ /\ Ran(c, "mediaProbe", Broken)
       /\ Fails(c, {"probe", "configuration"})

Select(c) ==
    /\ conv[c].pc = "select"
    /\ \/ Fails(c, {"rejection", "configuration"})
       \/ Goto(c, "resolve") /\ Local

\* A path that exists is refused; inside a directory the name is not looked at.
ResolveOutput(c) ==
    /\ conv[c].pc = "resolve"
    /\ \/ Fails(c, {"configuration"})
       \/ target # NoOne /\ Fails(c, {"rejection"})
       \/ \E isDirectory \in BOOLEAN :
            /\ isDirectory \/ target = NoOne
            /\ conv' = [conv EXCEPT ![c].outputIsDirectory = isDirectory,
                            ![c].pc = IF conv[c].kind = "image" THEN "stage" ELSE "accelerate"]
            /\ Local

-----------------------------------------------------------------------------
(* Images *)

\* An explicit path is written through a staging directory beside it.  HEIF and
\* AVIF inputs must first be decodable.
StageImage(c) ==
    /\ conv[c].pc = "stage"
    /\ LET staged == [conv[c] EXCEPT !.temps = IF conv[c].outputIsDirectory THEN {} ELSE {"staging"}]
       IN  \/ ~conv[c].outputIsDirectory /\ Fails(c, {"configuration"})
           \/ Fails(c, {"rejection", "configuration"})
           \/ CallIn(c, [staged EXCEPT !.temps = @ \cup {"probeDir"}], "decodeProbe")
           \/ conv' = [conv EXCEPT ![c] = [staged EXCEPT !.pc = "imagePrepare"]] /\ Local

DecodeProbed(c) ==
    \/ /\ Ran(c, "decodeProbe", {"ok"})
       /\ conv' = [conv EXCEPT ![c].pc = "imagePrepare", ![c].temps = @ \ {"probeDir"}]
       /\ Local
    \/ /\ Ran(c, "decodeProbe", Broken)
       /\ Fails(c, {"rejection"})

\* The final name is looked up before the work directory is created.
PrepareImage(c) ==
    /\ conv[c].pc = "imagePrepare"
    /\ \/ conv[c].outputIsDirectory /\ target # NoOne /\ Fails(c, {"rejection"})
       \/ /\ ~conv[c].outputIsDirectory \/ target = NoOne
          /\ \/ Fails(c, {"configuration", "rejection", "probe"})
             \/ CallFirst(c, [conv[c] EXCEPT !.temps = @ \cup {"work"}], "transparency",
                          TransparencyCommands)
             \/ CallFirst(c, [conv[c] EXCEPT !.temps = @ \cup {"work"}], "imageConvert",
                          PlanCommands)

\* The last command prints the minimum, which may be unreadable.
TransparencyProbed(c) ==
    \/ Ran(c, "transparency", {"ok"}) /\ CallNext(c)
    \/ /\ Ran(c, "transparency", {"ok"}) /\ conv[c].left = 0
       /\ \/ CallFirst(c, conv[c], "imageConvert", PlanCommands)
          \/ Fails(c, {"probe", "rejection"})
    \/ /\ Ran(c, "transparency", Broken)
       /\ Fails(c, {"probe"})

ImageConverted(c) ==
    \/ Ran(c, "imageConvert", {"ok"}) /\ CallNext(c)
    \/ Ran(c, "imageConvert", {"ok"}) /\ conv[c].left = 0 /\ Call(c, "imageVerify")
    \/ Ran(c, "imageConvert", Broken) /\ Fails(c, {"conversion"})

\* A header of the output that cannot be parsed is reported as an unsupported image.
ImageVerified(c) ==
    \/ /\ Ran(c, "imageVerify", {"ok"})
       /\ \/ Goto(c, "imageCheck") /\ Local
          \/ Fails(c, {"validation", "probe", "rejection"})
    \/ /\ Ran(c, "imageVerify", Broken)
       /\ Fails(c, {"probe"})

\* A variant without a last look at the context.
LookAtContextBug(c, next) == Goto(c, next) /\ Local

\* The last look at the context before a link.
LookAtContext(c, next) ==
    \/ ctx[c] # "live" /\ Return(c, IF ctx[c] = "canceled" THEN "canceled" ELSE "conversion")
    \/ ctx[c] = "live" /\ Goto(c, next) /\ Local

ImageCheck(c) ==
    /\ conv[c].pc = "imageCheck"
    /\ LookAtContext(c, "imageLink")

\* A variant that renames over what is there.
LinkBug(c) ==
    /\ target' = c
    /\ Finished(c, "success")

\* A variant that takes a name that exists for its own output.
LinkIgnoredBug(c) ==
    \/ target = NoOne /\ target' = c /\ Finished(c, "success")
    \/ target # NoOne /\ Return(c, "success")

\* publishNoReplace: the link fails on a name that exists.
Link(c) ==
    \/ /\ target = NoOne
       /\ target' = c
       /\ Finished(c, "success")
    \/ target # NoOne /\ Fails(c, {"rejection"})
    \/ Fails(c, {"conversion"})

\* In the staging directory the name is free.
ImageLink(c) ==
    /\ conv[c].pc = "imageLink"
    /\ IF conv[c].outputIsDirectory
       THEN Link(c)
       ELSE \/ conv' = [conv EXCEPT ![c].pc = "stageCheck", ![c].temps = @ \ {"work"}] /\ Local
            \/ Fails(c, {"conversion"})

StageCheck(c) ==
    /\ conv[c].pc = "stageCheck"
    /\ LookAtContext(c, "stageLink")

StageLink(c) ==
    /\ conv[c].pc = "stageLink"
    /\ Link(c)

-----------------------------------------------------------------------------
(* Audio and video *)

\* Not ready: auto falls back to the CPU, vaapi refuses.
Unaccelerated(c, mode) ==
    IF mode = "vaapi" THEN Fails(c, {"rejection"})
    ELSE conv' = [conv EXCEPT ![c].pc = "plan", ![c].temps = {}] /\ Local

\* Audio never asks for hardware.  The service knows the readiness from its
\* start-up, the command line probes it now, with a real encode.
Accelerate(c) ==
    /\ conv[c].pc = "accelerate"
    /\ \/ Goto(c, "plan") /\ Local
       \/ conv' = [conv EXCEPT ![c].pc = "plan", ![c].path = "vaapi"] /\ Local
       \/ \E mode \in {"auto", "vaapi"} :
            \/ Unaccelerated(c, mode)
            \/ CallIn(c, [conv[c] EXCEPT !.mode = mode, !.temps = {"probeDir"}], "vaapiEncode")

\* Decoding in hardware is a bonus: without it the encoder is still used.
VAAPIProbed(c) ==
    \/ Ran(c, "vaapiEncode", {"ok"}) /\ Call(c, "vaapiVerify")
    \/ Ran(c, "vaapiVerify", {"ok"}) /\ Call(c, "vaapiDecode")
    \/ Ran(c, "vaapiVerify", {"ok"}) /\ Unaccelerated(c, conv[c].mode)
    \/ Ran(c, "vaapiEncode", Broken) /\ Unaccelerated(c, conv[c].mode)
    \/ Ran(c, "vaapiVerify", Broken) /\ Unaccelerated(c, conv[c].mode)
    \/ /\ Ran(c, "vaapiDecode", {"ok"} \cup Broken)
       /\ conv' = [conv EXCEPT ![c].pc = "plan", ![c].path = "vaapi", ![c].temps = {}]
       /\ Local

\* HDR needs filters that this FFmpeg may not have.
Plan(c) ==
    /\ conv[c].pc = "plan"
    /\ \/ Fails(c, {"rejection", "configuration"})
       \/ Call(c, "filters")
       \/ Goto(c, "attempt") /\ Local

FiltersListed(c) ==
    \/ /\ Ran(c, "filters", {"ok"})
       /\ \/ Fails(c, {"rejection"})
          \/ Goto(c, "attempt") /\ Local
    \/ /\ Ran(c, "filters", Broken)
       /\ Fails(c, {"conversion"})

Attempt(c) ==
    /\ conv[c].pc = "attempt"
    /\ \/ Fails(c, {"configuration"})
       \/ CallIn(c, [conv[c] EXCEPT !.attempts = @ + 1, !.temps = {"temp"}], "encode")

\* A variant that retries whatever went wrong.
RetriesOnCPUBug(c) ==
    conv[c].path = "vaapi" /\ run[c].outcome # "ok"

\* ClassifyVAAPIFailure: an encoder that exited by itself, on the hardware path.
RetriesOnCPU(c) ==
    conv[c].path = "vaapi" /\ run[c].outcome = "exit"

\* The retry starts from a new temporary file; whether stderr names a hardware
\* failure is the tool's choice.
Encoded(c) ==
    \/ /\ Ran(c, "encode", {"ok"})
       /\ Call(c, "verify") \/ Fails(c, {"conversion"})
    \/ /\ Ran(c, "encode", Broken)
       /\ Fails(c, {"conversion"})
    \/ /\ Ran(c, "encode", Outcomes)
       /\ RetriesOnCPU(c)
       /\ conv' = [conv EXCEPT ![c].pc = "attempt", ![c].path = "cpu", ![c].temps = {},
                               ![c].first = run[c].outcome]
       /\ Local

Verified(c) ==
    \/ /\ Ran(c, "verify", {"ok"})
       /\ \/ Fails(c, {"validation", "probe"})
          \/ Goto(c, "mediaCheck") /\ Local
    \/ /\ Ran(c, "verify", Broken)
       /\ Fails(c, {"probe"})

MediaCheck(c) ==
    /\ conv[c].pc = "mediaCheck"
    /\ LookAtContext(c, "mediaLink")

MediaLink(c) ==
    /\ conv[c].pc = "mediaLink"
    /\ Link(c)

-----------------------------------------------------------------------------

Convert(c) ==
    /\ \/ Begin(c) \/ Stopped(c)
       \/ ImageProbed(c) \/ MediaProbed(c) \/ Select(c) \/ ResolveOutput(c)
       \/ StageImage(c) \/ DecodeProbed(c) \/ PrepareImage(c) \/ TransparencyProbed(c)
       \/ ImageConverted(c) \/ ImageVerified(c)
       \/ ImageCheck(c) \/ ImageLink(c) \/ StageCheck(c) \/ StageLink(c)
       \/ Accelerate(c) \/ VAAPIProbed(c) \/ Plan(c) \/ FiltersListed(c)
       \/ Attempt(c) \/ Encoded(c) \/ Verified(c) \/ MediaCheck(c) \/ MediaLink(c)
    /\ UNCHANGED <<ctx, early>>

Command(c) ==
    /\ RunStep(c)
    /\ UNCHANGED <<conv, target, early>>

\* The child, the clock and the caller.
Surroundings(c) ==
    \/ (ChildExit(c) \/ Timeout(c)) /\ UNCHANGED <<conv, target, early>>
    \/ /\ conv[c].pc # "returned"
       /\ \E why \in {"canceled", "timeout"} : EndContext(c, why)
       /\ early' = IF Publishing(conv[c]) THEN early ELSE early \cup {c}
       /\ UNCHANGED <<conv, target>>

ForeignWrite ==
    /\ target = NoOne
    /\ target' = Foreign
    /\ UNCHANGED <<ctx, run, conv, early>>

Init ==
    /\ RunInit
    /\ conv = [c \in Conversion |-> NotCalled]
    /\ target = NoOne
    /\ early = {}

Next ==
    \/ \E c \in Conversion : Convert(c) \/ Command(c) \/ Surroundings(c)
    \/ ForeignWrite

\* The code takes its next step, and the timer of a command fires.  A child need
\* not exit by itself and nobody need cancel.
Fairness ==
    \A c \in Conversion :
        WF_vars(Convert(c)) /\ WF_vars(Command(c))
            /\ WF_vars(Timeout(c) /\ UNCHANGED <<conv, target, early>>)

Spec == Init /\ [][Next]_vars /\ Fairness

-----------------------------------------------------------------------------
(* Properties *)

TypeOK ==
    /\ RunTypes
    /\ conv \in [Conversion -> ConversionRecord]
    /\ target \in Conversion \cup {NoOne, Foreign}
    /\ early \subseteq Conversion

Returned(c) == conv[c].pc = "returned"

(* A file at the output path is never replaced, whoever wrote it           *)
(* (convert.go:308-331, converter.go:226-240, service.go:433-447).         *)
NeverReplaced ==
    [][target # NoOne => target' = target]_vars

(* A conversion reports success exactly when the file at the output path   *)
(* is its own, verified one; a failed one has published nothing.           *)
AnswerMatchesOutput ==
    \A c \in Conversion : Returned(c) => (conv[c].result = "success" <=> target = c)

(* When a conversion returns, its temporary files are gone and no child of *)
(* its last command is left: Run returns after the child was reaped, so    *)
(* nothing writes to the output or to the captured buffers any more        *)
(* (runner.go:144-168).                                                    *)
NothingLeftBehind ==
    \A c \in Conversion :
        /\ Returned(c) => conv[c].temps = {}
        /\ ~Active(c) => run[c].child # "running"
        /\ run[c].pc = "returned" /\ run[c].child # "none" => run[c].waitCh # "none"

(* "canceled" is reported only when the caller's context was canceled, and *)
(* a context that ended before the last look at it prevents success, even  *)
(* when the exit of a command won the race (service.go:698-707,            *)
(* convert.go:294-296).                                                    *)
CancelIsHonest ==
    \A c \in Conversion : Returned(c) =>
        /\ conv[c].result = "canceled" => ctx[c] = "canceled"
        /\ c \in early => conv[c].result # "success"

(* There is at most one retry, on the CPU, and only after a hardware       *)
(* encoder exited by itself: a canceled or timed out attempt is never      *)
(* repeated (convert.go:201-214).                                          *)
RetryIsJustified ==
    \A c \in Conversion :
        /\ conv[c].attempts <= 2
        /\ conv[c].attempts = 2 \/ conv[c].first # "none"
               => conv[c].first = "exit" /\ conv[c].path = "cpu"

(* Every conversion returns, also when a tool hangs: the timeout of its    *)
(* command fires, the group is terminated and reaped.                      *)
ConversionReturns ==
    \A c \in Conversion : <>Returned(c)

=============================================================================
