------------------------------ MODULE Planning ------------------------------
(***************************************************************************)
(* What becomes of one file, decision by decision: the inspection that     *)
(* offers operations after the upload (src/internal/conversion/inspect.go), *)
(* and, later, a conversion that plans one of them, runs it and validates  *)
(* the output (service.go, local.go).  Processes, failures of tools and    *)
(* files on disk are the subject of module ConversionService; here every   *)
(* tool does what it is asked, and the question is whether the decisions   *)
(* fit together.                                                           *)
(***************************************************************************)
EXTENDS MediaPlan, ImagePlan

CONSTANTS
    ImageFile,  \* headers of images, as module ImagePlan describes them
    MediaFile   \* probes of audio and video, as module MediaPlan describes them

ASSUME ImageFileAssumption == \A info \in ImageFile : info \in Header /\ AsLoaded(info)
ASSUME MediaFileAssumption == \A probe \in MediaFile : probe \in Probe

VARIABLES
    file,    \* [engine, data]: what detection made of the file
    offer,   \* the operations the inspection offers, and the default
    chosen,  \* the operation that is converted
    result   \* [stage, code, ...]: what became of the conversion

vars == <<file, offer, chosen, result>>

Modes == {"cpu", "auto", "vaapi"}
NotReady == [ready |-> FALSE, decodes |-> {}]
Readiness == {NotReady} \cup [ready : {TRUE}, decodes : {{}, {"h264", "hevc"}}]

\* Conversion-time checks, outside the content planning rules.
RuntimeRefusal ==
    {"acceleration_unavailable", "decoder_unavailable", "filters_unavailable"}

-----------------------------------------------------------------------------
(* Inspection *)

\* detectedMedia: a picture attached to audio is no video; "none" has neither.
MediaKind(probe) ==
    LET Has(Test(_)) == \E i \in DOMAIN probe.streams : Test(probe.streams[i])
    IN  IF Has(LAMBDA s : s.type = "video" /\ ~s.attachedPic) THEN "video"
        ELSE IF Has(LAMBDA s : s.type = "audio") THEN "audio" ELSE "none"

KindOf(f) == IF f.engine = "image" THEN "image" ELSE MediaKind(f.data)

\* A variant that trusts the registry.
ValidateOperationBug(operation, f) ==
    IF KindOf(f) \in Lookup(operation).accepts THEN "none" ELSE "incompatible_operation"

\* The pure plan an operation would get, without hardware.
ValidateOperation(operation, f) ==
    IF KindOf(f) \notin Lookup(operation).accepts THEN "incompatible_operation"
    ELSE IF f.engine = "image"
    THEN FirstOf(<<<<ValidateContent(f.data) # "none", ValidateContent(f.data)>>,
                   <<ImagePlanRefusal(f.data, operation) # "none",
                     ImagePlanRefusal(f.data, operation)>>>>)
    ELSE BuildMediaPlan(operation, f.data, "cpu", NotReady).refusal

\* inspectDetected: the preferred operation, or the first one that is left.
InspectDetected(f) ==
    LET kind == KindOf(f)
        valid == {operation \in Compatible(kind) : ValidateOperation(operation, f) = "none"}
    IN  [compatible |-> valid,
         recommended |-> IF valid = {} THEN "none"
                         ELSE IF Recommended(kind) \in valid THEN Recommended(kind)
                         ELSE FirstPresented(valid)]

NoOffer == [compatible |-> {}, recommended |-> "none"]
NoResult == [stage |-> "none"]

\* A file without audio or video is not identified and gets no offer.
Inspect ==
    /\ result = NoResult /\ offer = NoOffer
    /\ offer' = IF KindOf(file) = "none" THEN NoOffer ELSE InspectDetected(file)
    /\ result' = IF offer' = NoOffer THEN [stage |-> "rejected"] ELSE NoResult
    /\ UNCHANGED <<file, chosen>>

-----------------------------------------------------------------------------
(* Conversion *)

Refuse(code) == result' = [stage |-> "refused", code |-> code]
Proceed(plan) == result' = [stage |-> "planned", plan |-> plan]
PlanOrRefuse(built) == IF built.refusal = "none" THEN Proceed(built.plan) ELSE Refuse(built.refusal)

\* Any operation of the registry may be asked for, offered or not; it is validated
\* again before anything else.
Choose(operation, engine) ==
    /\ offer # NoOffer /\ result = NoResult /\ file.engine = engine
    /\ chosen' = operation
    /\ UNCHANGED <<file, offer>>

\* A HEIF or AVIF decoder may be missing; the policy is one of the converter's.
PlanImage ==
    \E operation \in Operations, policy \in {"strip", "preserve_when_safe"} :
        /\ Choose(operation, "image")
        /\ IF ValidateOperation(operation, file) # "none"
           THEN Refuse(ValidateOperation(operation, file))
           ELSE \/ PlanOrRefuse(BuildImagePlan(file.data, operation, policy))
                \/ file.data.format \in {"heif", "avif"} /\ Refuse("decoder_unavailable")

ToneMaps(built) == built.refusal = "none" /\ built.plan.args.toneMap

\* Audio is planned without hardware; tone mapping needs filters that may be missing.
PlanMedia ==
    \E operation \in Operations, mode \in Modes, readiness \in Readiness :
        /\ Choose(operation, "media")
        /\ LET built == BuildMediaPlan(operation, file.data, mode, readiness)
           IN  IF ValidateOperation(operation, file) # "none"
               THEN Refuse(ValidateOperation(operation, file))
               ELSE \/ PlanOrRefuse(built)
                    \/ ToneMaps(built) /\ Refuse("filters_unavailable")

\* The commands run, and the output is probed and validated.
RunImage ==
    /\ result.stage = "planned" /\ file.engine = "image"
    /\ LET picture == Rendered(file.data, result.plan)
       IN  result' = [stage |-> "validated", code |-> ImageIssue(result.plan.expected, picture),
                      output |-> picture]
    /\ UNCHANGED <<file, offer, chosen>>

\* A hardware encoder that fails leaves its place to the CPU, under the same contract.
RunMedia ==
    /\ result.stage = "planned" /\ file.engine = "media"
    /\ \E args \in {result.plan.args, result.plan.cpuArgs} :
         result' = [stage |-> "validated", args |-> args,
                    issues |-> MediaIssues(result.plan.expected, Encode(file.data, args))]
    /\ UNCHANGED <<file, offer, chosen>>

-----------------------------------------------------------------------------

Init ==
    /\ file \in [engine : {"image"}, data : ImageFile] \cup [engine : {"media"}, data : MediaFile]
    /\ offer = NoOffer
    /\ chosen = "none"
    /\ result = NoResult

Next == Inspect \/ PlanImage \/ PlanMedia \/ RunImage \/ RunMedia

Spec == Init /\ [][Next]_vars

-----------------------------------------------------------------------------
(* Properties *)

\* The scale a video is given keeps the shape of the upright frame, up to rounding,
\* fits the profile, and is even.
ShapeKept(args) ==
    \A i \in args.maps :
        LET stream == file.data.streams[i]
            upright == IF stream.rotation \in {90, 270} THEN <<stream.height, stream.width>>
                       ELSE <<stream.width, stream.height>>
            skew == args.size[1] * upright[2] - args.size[2] * upright[1]
            slack == 2 * (upright[1] + upright[2])
        IN  stream.type = "video" =>
                /\ skew \in -slack .. slack
                /\ args.size[1] % 2 = 0 /\ args.size[2] % 2 = 0
                /\ chosen = "smaller_video" => args.size[1] <= MaxWidth /\ args.size[2] <= MaxHeight

\* A photo keeps the shape of the upright image, up to rounding, and fits its profile.
PhotoKept(output) ==
    LET upright == IF file.data.orientation \in 5 .. 8 THEN <<file.data.height, file.data.width>>
                   ELSE <<file.data.width, file.data.height>>
        skew == output.size[1] * upright[2] - output.size[2] * upright[1]
        slack == LongestOf(upright[1], upright[2])
    IN  /\ skew \in -slack .. slack
        /\ chosen = "email_photo" =>
                output.size[1] <= MaxEmailPhotoDimension /\ output.size[2] <= MaxEmailPhotoDimension

\* FLAC holds integers of at most 24 bits.
Exact(args) ==
    \A i \in args.maps :
        LET stream == file.data.streams[i]
            bits == IF stream.bits > 0 THEN stream.bits
                    ELSE CASE stream.codec \in FloatPCM \cup WidePCM -> 64
                           [] stream.codec \in PCM32 -> 32
                           [] OTHER -> 16
        IN  chosen = "lossless_audio" => stream.codec \notin FloatPCM /\ bits <= 24

\* The probe tells how long the kept streams are: one that states its length is as
\* long as the others, up to the tolerance, or none states it and no stream, dropped
\* ones included, outlasts them in a container that states its own length.
LengthIsTold(probe, kept) ==
    LET stated == {i \in kept : probe.streams[i].stated}
        Lengths(these) == {probe.streams[i].length : i \in these}
        Cover(these, those) ==
            \A l \in those : \E k \in these : l - k <= DefaultDurationTolerance
    IN  IF stated # {} THEN Cover(Lengths(stated), Lengths(kept))
        ELSE probe.stated => Cover({1} \cup Lengths(kept), Lengths(DOMAIN probe.streams))

(* A plan keeps its promise: when the tools do what the planned commands   *)
(* ask, on the hardware path, on the CPU path and after a fallback, the    *)
(* output passes the plan's own validation, transparency has been          *)
(* flattened onto white, photos and videos keep their shape within the     *)
(* limits of the profile, and FLAC loses nothing (media/plan.go,           *)
(* imageconv/plan.go and their validators).  The length of the output is   *)
(* the one check that may fail, and it fails exactly when the probe does   *)
(* not tell how long the kept streams are: a longer one leaves its length  *)
(* out, or a longer one is dropped (media/plan.go:627-657).                *)
PlanKeepsItsPromise ==
    result.stage = "validated" =>
        /\ file.engine = "image" =>
             result.code = "none" /\ result.output.onWhite /\ PhotoKept(result.output)
        /\ file.engine = "media" =>
             /\ result.issues \subseteq {"duration"}
             /\ result.issues = {} <=> LengthIsTold(file.data, result.args.maps)
             /\ ShapeKept(result.args) /\ Exact(result.args)

(* An offer is honest: the recommended operation is one of the offered     *)
(* ones, an offered operation is later refused only for want of hardware,  *)
(* of a decoder or of a filter, never for the content, and an operation    *)
(* that was not offered never runs (inspect.go:18-22, 53-81).              *)
OfferIsHonest ==
    /\ offer # NoOffer => offer.recommended \in offer.compatible
    /\ result.stage = "refused" /\ chosen \in offer.compatible => result.code \in RuntimeRefusal
    /\ result.stage = "planned" => chosen \in offer.compatible

=============================================================================
