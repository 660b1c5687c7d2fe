----------------------------- MODULE MCPlanning -----------------------------
(***************************************************************************)
(* Files that reach every decision of module Planning, at and around its   *)
(* limits.                                                                 *)
(***************************************************************************)
EXTENDS Planning

\* The interpretations and band formats in which libvips loads images, with their
\* coding: 8 and 16 bits, packed Lab, float, and one that is not supported.
Layouts == {
    <<"b-w", "uchar", "none">>, <<"grey16", "ushort", "none">>, <<"srgb", "uchar", "none">>,
    <<"rgb16", "ushort", "none">>, <<"cmyk", "uchar", "none">>, <<"cmyk", "ushort", "none">>,
    <<"hsv", "uchar", "none">>, <<"lab", "uchar", "labq">>, <<"xyz", "float", "none">>,
    <<"labs", "short", "none">>}

Image(layout, size, extraBands) ==
    [format |-> "png", coding |-> layout[3], width |-> size[1], height |-> size[2], pages |-> 1,
     orientation |-> 1, interpretation |-> layout[1], bandFormat |-> layout[2],
     extraBands |-> extraBands, cicp |-> "none", icc |-> FALSE, exif |-> FALSE, gps |-> FALSE,
     captureDate |-> FALSE, transparent |-> FALSE]

\* Every layout, alpha and profile at one size, with and without a quarter turn.
Colors ==
    {[Image(layout, <<1921, 1080>>, bands) EXCEPT !.icc = icc, !.orientation = turn,
            !.transparent = bands = 1 /\ clear] :
        layout \in Layouts, bands \in 0 .. 2, icc \in BOOLEAN, turn \in {1, 3, 6}, clear \in BOOLEAN}

\* Every signal, format and kind of metadata.
Signals ==
    {[Image(layout, <<640, 480>>, 0) EXCEPT !.format = format, !.cicp = cicp, !.pages = pages,
            !.exif = meta # {}, !.gps = "gps" \in meta, !.captureDate = "date" \in meta] :
        layout \in {<<"srgb", "uchar", "none">>, <<"rgb16", "ushort", "none">>},
        format \in {"jpeg", "heif", "avif"}, cicp \in {"none", "srgb", "p3", "pq", "hlg"},
        pages \in {1, 2}, meta \in SUBSET {"exif", "gps", "date"}}

\* The limits of the engine, of WebP and of the email profile.
Sizes ==
    {[Image(<<"srgb", "uchar", "none">>, <<width, height>>, 0) EXCEPT !.orientation = turn] :
        width \in {1, 1919, 1920, 1921, 3051, 3052, 10000, 16383, 16384, 32768, 32769},
        height \in {1, 960, 3000, 10000, 10001, 16384}, turn \in {1, 8}}

MCImageFile == Colors \cup Signals \cup Sizes

-----------------------------------------------------------------------------

Color(transfer, primaries, space) == <<transfer, primaries, space>>

Video(codec, size, rotation, pixelFormat, color, length) ==
    [type |-> "video", codec |-> codec, attachedPic |-> FALSE, width |-> size[1],
     height |-> size[2], rotation |-> rotation, pixelFormat |-> pixelFormat,
     transfer |-> color[1], primaries |-> color[2], space |-> color[3], range |-> "pc",
     length |-> length, stated |-> FALSE]

Audio(codec, bits, channels, length) ==
    [type |-> "audio", codec |-> codec, bits |-> bits, channels |-> channels, rate |-> 44100,
     layout |-> IF channels = 6 THEN "5.1(side)" ELSE "", length |-> length, stated |-> FALSE]

Cover == [Video("mjpeg", <<300, 300>>, 0, "yuvj420p", <<"", "", "">>, 0) EXCEPT !.attachedPic = TRUE]
Subtitle == [type |-> "subtitle", codec |-> "subrip", length |-> 20, stated |-> FALSE]

Shapes == {<<1920, 1080>>, <<1281, 721>>, <<1279, 719>>, <<5, 4000>>, <<4000, 5>>, <<3, 1>>, <<0, 0>>}

Gamuts == {
    Color("bt709", "bt709", "bt709"), Color("", "", ""), Color("smpte2084", "bt2020", "bt2020nc"),
    Color("arib-std-b67", "bt2020", "bt2020nc"), Color("smpte2084", "bt2020", "bt2020c"),
    Color("bt709", "bt2020", "bt2020nc")}

Videos ==
    {Video(codec, size, rotation, pixelFormat, color, 8) :
        codec \in {"h264", "vp9", "unknown"}, size \in Shapes, rotation \in {0, 90, 180, 270},
        pixelFormat \in {"yuv420p", "yuv420p10le"}, color \in Gamuts}

\* Supported, dropped and additional audio, longer and shorter than the video.
Tracks == {
    <<>>, <<Audio("aac", 0, 2, 8)>>, <<Audio("dts", 0, 6, 20)>>,
    <<Audio("dts", 0, 6, 20), Audio("aac", 0, 2, 7)>>,
    <<Audio("aac", 0, 6, 20), Audio("mp3", 0, 2, 8)>>}

Sounds ==
    {Audio(codec, bits, 6, 8) : codec \in {"pcm_s16le", "pcm_s32le", "pcm_f32le", "pcm_s64le", "flac",
                                           "dts"},
                                bits \in {0, 16, 24, 32}}
        \cup {Audio("flac", 16, 2, 8)}

\* The streams that state their lengths, in a container that does or does not.
Probed(streams, which, whole) ==
    [stated |-> whole,
     streams |-> [i \in 1 .. Len(streams) |-> [streams[i] EXCEPT !.stated = i \in which]]]

\* All streams state their lengths, the first, the last or none.
Probes(streams) ==
    {Probed(streams, which, whole) :
        whole \in BOOLEAN, which \in {{}, {1}, {Len(streams)}, 1 .. Len(streams)}}

PlainVideos == {v \in Videos : v.height = 719 /\ v.rotation = 0 /\ v.codec = "h264"}

MCMediaFile ==
    {Probed(<<video>> \o tracks, 1 .. 1 + Len(tracks), TRUE) : video \in Videos, tracks \in Tracks}
        \cup UNION ({Probes(<<video>> \o tracks) : video \in PlainVideos, tracks \in Tracks}
                    \cup {Probes(tracks \o <<Subtitle, video>>) :
                             video \in PlainVideos, tracks \in Tracks}
                    \cup {Probes(<<Cover, sound>>) : sound \in Sounds}
                    \cup {Probes(<<sound>>) : sound \in Sounds}
                    \cup {Probes(<<Cover>> \o tracks) : tracks \in Tracks \cup {<<Subtitle>>}})

=============================================================================
