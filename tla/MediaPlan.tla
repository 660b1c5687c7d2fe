----------------------------- MODULE MediaPlan ------------------------------
(***************************************************************************)
(* The decisions of the audio and video engine (src/internal/media): which *)
(* streams are kept, the FFmpeg arguments for the CPU and for VA-API, the  *)
(* output contract that goes with them, and the check of an output against *)
(* it.  FFmpeg itself is external: Encode says what the arguments ask of   *)
(* it.                                                                     *)
(*                                                                         *)
(* A probe is [stated, streams]: whether ffprobe reports a length for the  *)
(* container, and the streams in order.  A stream is a record of its real  *)
(* properties, with stated saying whether ffprobe reports its length;      *)
(* lengths are counted in ticks of half a second.                          *)
(***************************************************************************)
EXTENDS Integers, Profiles

\* A codec, pixel format, colour or channel layout that is not stated.
Unstated == ""

DefaultDurationTolerance == 2
MaxWidth == 1280
MaxHeight == 720

\* PCM is allowlisted by its prefix.
FloatPCM == {"pcm_f32le", "pcm_f64le"}
WidePCM == {"pcm_s64le"}
PCM32 == {"pcm_s32le"}
SupportedAudioCodec ==
    {"aac", "mp3", "ac3", "eac3", "alac", "flac", "opus", "vorbis", "wmav1", "wmav2", "wmapro",
     "wmalossless", "pcm_s16le"} \cup FloatPCM \cup WidePCM \cup PCM32

Stream ==
    [type : {"video"}, codec : STRING, attachedPic : BOOLEAN, width : Int, height : Int,
     rotation : Int, pixelFormat : STRING, transfer : STRING, primaries : STRING, space : STRING,
     range : STRING, length : Nat, stated : BOOLEAN]
        \cup [type : {"audio"}, codec : STRING, bits : Nat, channels : Nat, rate : Nat,
              layout : STRING, length : Nat, stated : BOOLEAN]
        \cup [type : {"subtitle", "data", "attachment"}, codec : STRING, length : Nat,
              stated : BOOLEAN]

Probe == [stated : BOOLEAN, streams : Seq(Stream)]

-----------------------------------------------------------------------------
(* Selection of streams *)

UsableVideo(stream) ==
    /\ stream.type = "video"
    /\ ~stream.attachedPic
    /\ stream.width > 0 /\ stream.height > 0
    /\ stream.codec \notin {Unstated, "unknown"}

UsableAudio(stream) == stream.type = "audio" /\ stream.codec \in SupportedAudioCodec

\* The index of the first usable stream of each type, 0 for none.  The warnings about
\* the audio streams that are dropped are left out.
SelectStreams(probe) ==
    [video |-> SelectInSeq(probe.streams, UsableVideo),
     audio |-> SelectInSeq(probe.streams, UsableAudio)]

-----------------------------------------------------------------------------
(* Dimensions, colour and length *)

DisplayedDimensions(video) ==
    IF video.rotation \in {90, 270} THEN <<video.height, video.width>>
    ELSE <<video.width, video.height>>

EvenFloor(value) == IF value <= 2 THEN 2 ELSE value - (value % 2)

\* The even number nearest to num / den, at least 2; halves go up.
NearestEven(num, den) ==
    LET even == 2 * ((num + den) \div (2 * den)) IN IF even < 2 THEN 2 ELSE even

\* The smallest of 1, MaxWidth / width and MaxHeight / height scales both sides.
FitDimensions(size) ==
    LET width == size[1]
        height == size[2]
    IN  IF width <= MaxWidth /\ height <= MaxHeight
        THEN <<NearestEven(width, 1), NearestEven(height, 1)>>
        ELSE IF MaxWidth * height <= MaxHeight * width
             THEN <<NearestEven(MaxWidth, 1), NearestEven(height * MaxWidth, width)>>
             ELSE <<NearestEven(width * MaxHeight, height), NearestEven(MaxHeight, 1)>>

OutputDimensions(video, smaller) ==
    LET size == DisplayedDimensions(video)
    IN  IF smaller THEN FitDimensions(size) ELSE <<EvenFloor(size[1]), EvenFloor(size[2])>>

HDRTransfer == {"smpte2084", "arib-std-b67"}

IsHDR(video) == video.transfer \in HDRTransfer \/ video.primaries = "bt2020"

SupportsHDRToneMapping(video) ==
    video.transfer \in HDRTransfer /\ video.primaries = "bt2020" /\ video.space = "bt2020nc"

LossyFLACSource(audio) ==
    \/ audio.codec \in FloatPCM \cup WidePCM
    \/ audio.bits > 24
    \/ audio.bits = 0 /\ audio.codec \in PCM32

Longest(lengths) == CHOOSE l \in lengths : \A other \in lengths : other <= l

\* The length of the container, dropped streams included.
ContainerLength(probe) == Longest({probe.streams[i].length : i \in DOMAIN probe.streams})

UnknownLength == -1

\* videoDuration, audioDuration: the longest of the kept streams that state their
\* length, or that of the container when none does.
ExpectedLength(probe, kept) ==
    LET lengths == {probe.streams[i].length : i \in {k \in kept : probe.streams[k].stated}}
    IN  IF lengths # {} THEN Longest(lengths)
        ELSE IF probe.stated THEN ContainerLength(probe) ELSE UnknownLength

-----------------------------------------------------------------------------
(* Plans *)

SDR == [transfer |-> "bt709", primaries |-> "bt709", space |-> "bt709", range |-> "tv"]
NoColor == [transfer |-> Unstated, primaries |-> Unstated, space |-> Unstated, range |-> Unstated]

\* The audio a profile asks for; AsSource keeps what the source has.
Stereo == [channels |-> 2, rate |-> 48000, layout |-> "stereo"]
AsSource == [channels |-> 0, rate |-> 0, layout |-> Unstated]

\* The arguments: the streams mapped, the codecs, the video filter and muxer flags.
Args(kept, vcodec, acodec, format) ==
    [maps |-> kept, vcodec |-> vcodec, acodec |-> acodec, size |-> <<0, 0>>,
     pixelFormat |-> Unstated, toneMap |-> FALSE, color |-> NoColor, hwDecode |-> FALSE,
     audio |-> Stereo, faststart |-> FALSE, format |-> format, keepsMetadata |-> FALSE]

KeptStreams(selection) == {selection.video, selection.audio} \ {0}

\* libx264: the arguments of buildVideo, and the ones buildVAAPIVideoArgs shares with it.
VideoArgs(probe, selection, smaller) ==
    LET video == probe.streams[selection.video]
        hdr == IsHDR(video)
    IN  [Args(KeptStreams(selection), "libx264", IF selection.audio = 0 THEN Unstated ELSE "aac", "mp4")
           EXCEPT !.size = OutputDimensions(video, smaller), !.pixelFormat = "yuv420p",
                  !.toneMap = hdr, !.color = IF hdr THEN SDR ELSE NoColor, !.faststart = TRUE]

\* Decoding in hardware has no software filter: no tone mapping, no rotation.
VAAPIArgs(probe, selection, smaller, hwDecode) ==
    [VideoArgs(probe, selection, smaller)
       EXCEPT !.vcodec = "h264_vaapi", !.pixelFormat = "nv12", !.hwDecode = hwDecode,
              !.toneMap = @ /\ ~hwDecode]

AudioArgs(selection, acodec, format) == Args({selection.audio}, Unstated, acodec, format)

\* A plan: the arguments, the ones to fall back to, and the output contract.
\* Colour is part of the contract only after tone mapping; an audio codec is
\* stated exactly when audio is required.
Expectation(probe, args, vcodec, acodec, audio) ==
    [container |-> args.format, vcodec |-> vcodec, acodec |-> acodec, size |-> args.size,
     pixelFormat |-> IF vcodec = Unstated THEN Unstated ELSE "yuv420p",
     color |-> args.color, audio |-> audio,
     length |-> ExpectedLength(probe, args.maps), faststart |-> args.faststart]

CPUPlan(args, expected) == [args |-> args, cpuArgs |-> args, expected |-> expected]

VideoPlan(probe, selection, smaller) ==
    LET args == VideoArgs(probe, selection, smaller)
        audio == IF selection.audio = 0 THEN AsSource ELSE Stereo
    IN  CPUPlan(args, Expectation(probe, args, "h264", args.acodec, audio))

AACPlan(probe, selection) ==
    LET args == [AudioArgs(selection, "aac", "mp4") EXCEPT !.faststart = TRUE]
    IN  CPUPlan(args, Expectation(probe, args, Unstated, "aac", Stereo))

MP3Plan(probe, selection) ==
    LET args == AudioArgs(selection, "libmp3lame", "mp3")
    IN  CPUPlan(args, Expectation(probe, args, Unstated, "mp3", Stereo))

FLACPlan(probe, selection) ==
    LET args == [AudioArgs(selection, "flac", "flac") EXCEPT !.audio = AsSource]
        source == probe.streams[selection.audio]
        audio == [channels |-> source.channels, rate |-> source.rate, layout |-> source.layout]
    IN  CPUPlan(args, Expectation(probe, args, Unstated, "flac", audio))

\* A variant that decodes every codec the device knows in hardware.
HardwareDecodeBug(video, readiness) == video.codec \in readiness.decodes

HardwareDecode(video, readiness) ==
    /\ ~IsHDR(video)
    /\ video.rotation = 0
    /\ video.pixelFormat = "yuv420p"
    /\ video.codec \in readiness.decodes

\* readiness: the functional probe of the device passed, and what it decodes.
Accelerated(plan, probe, selection, smaller, readiness) ==
    [plan EXCEPT !.cpuArgs = plan.args,
        !.args = VAAPIArgs(probe, selection, smaller,
                           HardwareDecode(probe.streams[selection.video], readiness))]

\* The plan, or the code of the refusal.
Refused(code) == [refusal |-> code]
Planned(plan) == [refusal |-> "none", plan |-> plan]

BuildVideoPlan(probe, selection, smaller, mode, readiness) ==
    LET video == probe.streams[selection.video]
        plan == VideoPlan(probe, selection, smaller)
    IN  CASE selection.video = 0 -> Refused("no_usable_video")
          [] selection.video # 0 /\ IsHDR(video) /\ ~SupportsHDRToneMapping(video) ->
                Refused("unsupported_hdr")
          [] OTHER ->
                IF mode = "cpu" THEN Planned(plan)
                ELSE IF readiness.ready
                THEN Planned(Accelerated(plan, probe, selection, smaller, readiness))
                ELSE IF mode = "vaapi" THEN Refused("acceleration_unavailable") ELSE Planned(plan)

BuildMediaPlan(operation, probe, mode, readiness) ==
    LET selection == SelectStreams(probe)
    IN  CASE operation \in {"compatible_video", "smaller_video"} ->
                BuildVideoPlan(probe, selection, operation = "smaller_video", mode, readiness)
          [] operation \notin {"compatible_video", "smaller_video"} /\ selection.audio = 0 ->
                Refused("no_supported_audio")
          [] operation = "extract_audio" /\ selection.audio # 0 -> Planned(AACPlan(probe, selection))
          [] operation = "compatible_audio" /\ selection.audio # 0 -> Planned(MP3Plan(probe, selection))
          [] operation = "lossless_audio" /\ selection.audio # 0 ->
                IF LossyFLACSource(probe.streams[selection.audio])
                THEN Refused("unsupported_lossless_audio")
                ELSE Planned(FLACPlan(probe, selection))

-----------------------------------------------------------------------------
(* FFmpeg *)

CodecOf(encoder) ==
    CASE encoder \in {"libx264", "h264_vaapi"} -> "h264"
      [] encoder = "libmp3lame" -> "mp3"
      [] OTHER -> encoder

\* Frames decoded in software are turned upright before they are filtered, frames
\* in hardware keep their display matrix.  NV12 frames are stored as yuv420p.
EncodedVideo(stream, args) ==
    [codec |-> CodecOf(args.vcodec), size |-> args.size,
     pixelFormat |-> IF args.pixelFormat = "nv12" THEN "yuv420p" ELSE args.pixelFormat,
     rotation |-> IF args.hwDecode THEN stream.rotation ELSE 0,
     color |-> IF args.color # NoColor THEN args.color
               ELSE [transfer |-> stream.transfer, primaries |-> stream.primaries,
                     space |-> stream.space, range |-> stream.range]]

\* A layout that the source does not state is guessed from its channels.
EncodedAudio(stream, args) ==
    LET audio == IF args.audio = AsSource THEN stream ELSE args.audio
    IN  [codec |-> CodecOf(args.acodec), channels |-> audio.channels, rate |-> audio.rate,
         layout |-> IF audio.layout = Unstated THEN "guessed" ELSE audio.layout]

\* What ffprobe finds in a file written as the arguments ask; the shortest file has
\* one frame.
Encode(probe, args) ==
    LET OfType(type) == {i \in args.maps : probe.streams[i].type = type}
    IN  [container |-> args.format, faststart |-> args.faststart, metadata |-> args.keepsMetadata,
         length |-> Longest({1} \cup {probe.streams[i].length : i \in args.maps}),
         video |-> {EncodedVideo(probe.streams[i], args) : i \in OfType("video")},
         audio |-> {EncodedAudio(probe.streams[i], args) : i \in OfType("audio")},
         other |-> args.maps \ (OfType("video") \cup OfType("audio"))]

-----------------------------------------------------------------------------
(* Validation *)

Issue(code, found) == IF found THEN {code} ELSE {}

VideoIssues(expected, video) ==
    Issue("codec", video.codec # expected.vcodec)
        \cup Issue("pixel_format", video.pixelFormat # expected.pixelFormat)
        \cup Issue("color", \E c \in DOMAIN NoColor :
                    expected.color[c] # Unstated /\ video.color[c] # expected.color[c])
        \cup Issue("dimensions", video.size # expected.size)
        \cup Issue("rotation", video.rotation # 0)

AudioIssues(expected, audio) ==
    Issue("codec", audio.codec # expected.acodec)
        \cup Issue("channel_layout",
                \/ expected.audio.channels > 0 /\ audio.channels # expected.audio.channels
                \/ expected.audio.layout # Unstated /\ audio.layout # expected.audio.layout)
        \cup Issue("sample_rate", expected.audio.rate > 0 /\ audio.rate # expected.audio.rate)

DurationIssue(expected, length) ==
    \/ length <= 0
    \/ /\ expected.length # UnknownLength
       /\ \/ length - expected.length > DefaultDurationTolerance
          \/ expected.length - length > DefaultDurationTolerance

\* The codes of the issues ValidateOutput reports.
MediaIssues(expected, output) ==
    Issue("metadata", output.metadata)
        \cup Issue("container", output.container # expected.container)
        \cup Issue("undeclared_stream", output.other # {})
        \cup Issue("stream_count", Cardinality(output.video) # IF expected.vcodec = Unstated THEN 0 ELSE 1)
        \cup Issue("audio_presence", Cardinality(output.audio) # IF expected.acodec = Unstated THEN 0 ELSE 1)
        \cup (UNION {VideoIssues(expected, video) : video \in output.video})
        \cup (UNION {AudioIssues(expected, audio) : audio \in output.audio})
        \cup Issue("duration", DurationIssue(expected, output.length))
        \cup Issue("faststart", expected.faststart /\ ~output.faststart)

=============================================================================
