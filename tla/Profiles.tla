------------------------------ MODULE Profiles ------------------------------
(***************************************************************************)
(* The registry of named conversion profiles (src/internal/profiles): which *)
(* kinds of input an operation accepts, which engine runs it, and which    *)
(* operation a kind of input gets by default.  Labels, suffixes and MIME   *)
(* types are left out; the container stands for the output format.        *)
(***************************************************************************)
EXTENDS SequencesExt

SpecOf(operation, engine, accepts, recommended, container) ==
    [operation |-> operation, engine |-> engine, accepts |-> accepts,
     recommended |-> recommended, container |-> container]

\* In presentation order.
Registry == <<
    SpecOf("compatible_photo", "image", {"image"}, {"image"}, "jpeg"),
    SpecOf("email_photo", "image", {"image"}, {}, "jpeg"),
    SpecOf("smaller_photo", "image", {"image"}, {}, "webp"),
    SpecOf("lossless_image", "image", {"image"}, {}, "png"),
    SpecOf("compatible_video", "media", {"video"}, {"video"}, "mp4"),
    SpecOf("smaller_video", "media", {"video"}, {}, "mp4"),
    SpecOf("extract_audio", "media", {"audio", "video"}, {}, "mp4"),
    SpecOf("compatible_audio", "media", {"audio"}, {"audio"}, "mp3"),
    SpecOf("lossless_audio", "media", {"audio"}, {}, "flac")>>

Lookup(operation) == Registry[SelectInSeq(Registry, LAMBDA spec : spec.operation = operation)]

Operations == {spec.operation : spec \in ToSet(Registry)}

\* The operations that accept a kind.
Compatible(kind) == {operation \in Operations : kind \in Lookup(operation).accepts}

\* The first of some operations in presentation order.
FirstPresented(operations) ==
    Registry[SelectInSeq(Registry, LAMBDA spec : spec.operation \in operations)].operation

\* Every kind has one.
Recommended(kind) ==
    Registry[SelectInSeq(Registry, LAMBDA spec : kind \in spec.recommended)].operation

=============================================================================
