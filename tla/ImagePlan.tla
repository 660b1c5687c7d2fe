----------------------------- MODULE ImagePlan ------------------------------
(***************************************************************************)
(* The decisions of the still-image engine (src/internal/imageconv): which *)
(* images are accepted, the sequence of libvips commands an operation      *)
(* needs, the expectation that goes with it, and the check of the output.  *)
(* libvips itself is external: Apply says what one command does to a       *)
(* picture.                                                                *)
(*                                                                         *)
(* An image is the record of its header: format, coding, width, height,    *)
(* pages, orientation, interpretation, bandFormat, extraBands (beyond the  *)
(* colour bands), cicp, icc, exif, gps, captureDate, and transparent: its  *)
(* alpha band has a pixel that is not opaque.                              *)
(***************************************************************************)
EXTENDS Integers, Profiles

Header ==
    [format : STRING, coding : STRING, width : Nat \ {0}, height : Nat \ {0}, pages : Nat,
     orientation : 1 .. 8, interpretation : STRING, bandFormat : STRING, extraBands : Nat,
     cicp : STRING, icc : BOOLEAN, exif : BOOLEAN, gps : BOOLEAN, captureDate : BOOLEAN,
     transparent : BOOLEAN]

\* Interpretations whose white is 65535.
Wide == {"rgb16", "grey16"}

\* The headers of libvips: 16-bit samples have an interpretation of their own,
\* but for CMYK, and the capture date is a tag of EXIF.
AsLoaded(info) ==
    /\ info.bandFormat \in {"uchar", "ushort"} /\ info.interpretation # "cmyk" =>
            (info.bandFormat = "ushort" <=> info.interpretation \in Wide)
    /\ info.captureDate => info.exif

-----------------------------------------------------------------------------
(* Limits and kinds *)

MaxEmailPhotoDimension == 1920
MaxWebPDimension == 16383
Limits == [maxWidth |-> 32768, maxHeight |-> 32768, maxPixels |-> 100000000]

LongestOf(a, b) == IF a > b THEN a ELSE b

\* Interpretations that need a conversion to sRGB without an ICC profile.
Perceptual == {"lab", "lch", "xyz", "yxy", "hsv"}
Grey == {"b-w", "grey16"}
RGB == {"srgb", "rgb", "rgb16"}

HasAlpha(info) == info.extraBands = 1

\* pq and hlg: the transfers of HDR; p3: other primaries.
HDRSignal == {"pq", "hlg"}
SupportedCICP(cicp) == cicp \in {"none", "srgb"}

JPEGPhoto == {"compatible_photo", "email_photo"}

-----------------------------------------------------------------------------
(* Accepted images *)

\* The code of the first check that fails, or "none": a chain of early returns.
FirstOf(checks) ==
    LET first == SelectInSeq(checks, LAMBDA check : check[1])
    IN  IF first = 0 THEN "none" ELSE checks[first][2]

\* validateColorRepresentation.
ColorChecks(info) == <<
    <<info.coding # "none", "image-color-unsupported">>,
    <<info.interpretation = "cmyk" /\ ~info.icc, "image-color-unsupported">>,
    <<info.format \in {"heif", "avif"} /\ info.bandFormat = "ushort" /\ info.cicp = "none",
      "image-color-unsupported">>,
    <<info.bandFormat \notin {"uchar", "ushort"},
      IF HasAlpha(info) THEN "alpha-preservation-unsupported" ELSE "image-color-unsupported">>,
    <<info.interpretation \notin Perceptual \cup Grey \cup RGB \cup {"cmyk"},
      "image-color-unsupported">>,
    <<info.extraBands > 1, "alpha-preservation-unsupported">>,
    <<HasAlpha(info) /\ info.interpretation \in Perceptual, "alpha-preservation-unsupported">>>>

SignalChecks(info) == <<
    <<info.cicp \in HDRSignal, "hdr-image-unsupported">>,
    <<~SupportedCICP(info.cicp), "image-color-unsupported">>>>

ExceedsLimits(info) ==
    \/ info.width > Limits.maxWidth \/ info.height > Limits.maxHeight
    \/ info.width > Limits.maxPixels \div info.height

ValidateContent(info) ==
    FirstOf(<<<<info.pages # 1, "animated-image-unsupported">>>>
            \o SignalChecks(info) \o ColorChecks(info)
            \o <<<<ExceedsLimits(info), "decoded-dimensions-exceeded">>>>)

-----------------------------------------------------------------------------
(* Plans *)

NeedsColorNormalization(info) ==
    \/ info.interpretation \in Perceptual \cup {"cmyk"}
    \/ info.interpretation \in Grey /\ info.icc

\* White, and the full scale of alpha when the command has to be told.
PreNormalizationFlatten(info) ==
    CASE info.interpretation = "cmyk" ->
            [cmd |-> "flatten", background |-> "noInk",
             maxAlpha |-> IF info.bandFormat = "ushort" THEN 65535 ELSE 0]
      [] info.interpretation = "grey16" ->
            [cmd |-> "flatten", background |-> "65535", maxAlpha |-> 65535]
      [] OTHER -> [cmd |-> "flatten", background |-> "255", maxAlpha |-> 0]

CanFlattenFirst(info) ==
    CASE info.interpretation = "cmyk" -> info.bandFormat \in {"uchar", "ushort"}
      [] info.interpretation = "grey16" -> info.bandFormat = "ushort"
      [] OTHER -> info.bandFormat = "uchar"

FlattenBackground(info) ==
    IF info.interpretation \in {"rgb16", "grey16"} THEN "65535" ELSE "255"

ICCDepth(info, operation) ==
    IF operation = "lossless_image" /\ info.bandFormat = "ushort" THEN 16 ELSE 8

\* The command that brings the colours to sRGB, if one is needed.
ColorCommands(info, operation) ==
    CASE ~NeedsColorNormalization(info) -> <<>>
      [] info.interpretation \in Perceptual -> <<[cmd |-> "colourspace"]>>
      [] OTHER -> <<[cmd |-> "icc_transform", depth |-> ICCDepth(info, operation)]>>

\* Alpha is flattened before a colour conversion and after it otherwise.
FlattenFirst(info, operation) ==
    operation \in JPEGPhoto /\ HasAlpha(info) /\ NeedsColorNormalization(info)

FlattenLast(info, operation) ==
    operation \in JPEGPhoto /\ HasAlpha(info) /\ ~NeedsColorNormalization(info)

OrientedDimensions(info) ==
    IF info.orientation \in 5 .. 8 THEN <<info.height, info.width>>
    ELSE <<info.width, info.height>>

\* Rounded num / den, at least 1.
Scaled(num, den) == LongestOf(1, (2 * num + den) \div (2 * den))

FitWithinLongestEdge(size) ==
    LET longest == LongestOf(size[1], size[2])
    IN  IF longest <= MaxEmailPhotoDimension THEN size
        ELSE <<Scaled(size[1] * MaxEmailPhotoDimension, longest),
               Scaled(size[2] * MaxEmailPhotoDimension, longest)>>

ResizeCommands(info, operation) ==
    LET fitted == FitWithinLongestEdge(OrientedDimensions(info))
    IN  IF operation = "email_photo" /\ fitted # OrientedDimensions(info)
        THEN <<[cmd |-> "resize", size |-> fitted]>> ELSE <<>>

OutputICC(info) ==
    CASE info.interpretation \in Perceptual -> FALSE
      [] info.interpretation = "cmyk" -> TRUE
      [] OTHER -> info.icc

KeepsCaptureDate(info, policy) ==
    policy = "preserve_when_safe" /\ info.captureDate /\ ~info.gps

MetadataKeep(info, policy) ==
    (IF OutputICC(info) THEN {"icc"} ELSE {})
        \cup (IF KeepsCaptureDate(info, policy) THEN {"exif"} ELSE {})

SaveCommand(info, operation, policy) ==
    [cmd |-> "save", format |-> Lookup(operation).container, keep |-> MetadataKeep(info, policy)]

Commands(info, operation, policy) ==
    <<[cmd |-> "autorot"]>>
        \o (IF FlattenFirst(info, operation) THEN <<PreNormalizationFlatten(info)>> ELSE <<>>)
        \o ColorCommands(info, operation)
        \o (IF FlattenLast(info, operation)
            THEN <<[cmd |-> "flatten", background |-> FlattenBackground(info), maxAlpha |-> 0]>>
            ELSE <<>>)
        \o ResizeCommands(info, operation)
        \o <<SaveCommand(info, operation, policy)>>

\* WebP drops an alpha band that is opaque.
ImageExpectation(info, operation, policy) ==
    [format |-> Lookup(operation).container,
     size |-> IF operation = "email_photo" THEN FitWithinLongestEdge(OrientedDimensions(info))
              ELSE OrientedDimensions(info),
     alpha |-> CASE operation \in JPEGPhoto -> FALSE
                 [] operation = "smaller_photo" -> HasAlpha(info) /\ info.transparent
                 [] operation = "lossless_image" -> HasAlpha(info),
     bandFormat |-> IF operation = "lossless_image" THEN info.bandFormat ELSE "any",
     icc |-> OutputICC(info), captureDate |-> KeepsCaptureDate(info, policy)]

\* Alpha that cannot be kept, or flattened, through the colour conversion.
AlphaLost(info, operation) ==
    /\ NeedsColorNormalization(info) /\ HasAlpha(info)
    /\ IF operation \in JPEGPhoto THEN ~CanFlattenFirst(info) ELSE info.bandFormat # "uchar"

ImagePlanRefusal(info, operation) ==
    FirstOf(SignalChecks(info) \o ColorChecks(info)
            \o <<<<operation = "smaller_photo" /\ LongestOf(info.width, info.height) > MaxWebPDimension,
                   "decoded-dimensions-exceeded">>,
                 <<AlphaLost(info, operation), "alpha-preservation-unsupported">>>>)

BuildImagePlan(info, operation, policy) ==
    [refusal |-> ImagePlanRefusal(info, operation),
     plan |-> [commands |-> Commands(info, operation, policy),
               expected |-> ImageExpectation(info, operation, policy)]]

-----------------------------------------------------------------------------
(* libvips *)

\* A picture in memory: flattening is right when the background is white in the
\* picture's own space and alpha is read at its full scale.
Picture(info) ==
    [size |-> <<info.width, info.height>>, orientation |-> info.orientation,
     interpretation |-> info.interpretation, bandFormat |-> info.bandFormat,
     alpha |-> HasAlpha(info), onWhite |-> TRUE, icc |-> info.icc, exif |-> info.exif,
     gps |-> info.gps, captureDate |-> info.captureDate, cicp |-> info.cicp,
     format |-> info.format]

White(picture) ==
    CASE picture.interpretation = "cmyk" -> "noInk"
      [] picture.interpretation \in Wide -> "65535"
      [] OTHER -> "255"

FullScale(picture) == IF picture.bandFormat = "ushort" THEN 65535 ELSE 255

AlphaScale(picture, command) ==
    IF command.maxAlpha # 0 THEN command.maxAlpha
    ELSE IF picture.interpretation \in Wide THEN 65535 ELSE 255

Apply(picture, info, command) ==
    CASE command.cmd = "autorot" ->
            [picture EXCEPT !.size = IF picture.orientation \in 5 .. 8 THEN <<@[2], @[1]>> ELSE @,
                            !.orientation = 1]
      [] command.cmd = "flatten" ->
            [picture EXCEPT !.alpha = FALSE,
                !.onWhite = /\ command.background = White(picture)
                            /\ AlphaScale(picture, command) = FullScale(picture)]
      [] command.cmd = "icc_transform" ->
            [picture EXCEPT !.icc = TRUE,
                !.interpretation = IF command.depth = 16 THEN "rgb16" ELSE "srgb",
                !.bandFormat = IF command.depth = 16 THEN "ushort" ELSE "uchar"]
      [] command.cmd = "colourspace" ->
            [picture EXCEPT !.interpretation = "srgb", !.bandFormat = "uchar"]
      [] command.cmd = "resize" -> [picture EXCEPT !.size = command.size]
      [] command.cmd = "save" ->
            [picture EXCEPT !.format = command.format,
                !.bandFormat = IF command.format = "png" THEN @ ELSE "uchar",
                !.alpha = /\ @ /\ command.format # "jpeg"
                          /\ command.format = "webp" => info.transparent,
                !.icc = @ /\ "icc" \in command.keep,
                !.exif = @ /\ "exif" \in command.keep,
                !.gps = @ /\ "exif" \in command.keep,
                !.captureDate = @ /\ "exif" \in command.keep]

\* The pictures after each of the first n commands.
Rendering(info, commands, n) ==
    LET picture[i \in 0 .. n] ==
            IF i = 0 THEN Picture(info) ELSE Apply(picture[i - 1], info, commands[i])
    IN  picture

Rendered(info, plan) ==
    LET last == Len(plan.commands) IN Rendering(info, plan.commands, last)[last]

-----------------------------------------------------------------------------
(* Validation *)

\* ValidateOutput: the code of its first failure, or "none".
ImageIssue(expected, observed) ==
    FirstOf(<<
        <<observed.format # expected.format, "invalid-output-format">>,
        <<observed.size # expected.size, "invalid-output-dimensions">>,
        <<observed.orientation # 1, "invalid-output-orientation">>,
        <<observed.alpha # expected.alpha, "invalid-output-alpha">>,
        <<expected.bandFormat # "any" /\ observed.bandFormat # expected.bandFormat,
          "invalid-output-precision">>,
        <<~SupportedCICP(observed.cicp), "invalid-output-color">>,
        <<\/ observed.gps \/ observed.icc # expected.icc
          \/ observed.exif # expected.captureDate
          \/ observed.captureDate # expected.captureDate, "invalid-output-metadata">>>>)

=============================================================================
