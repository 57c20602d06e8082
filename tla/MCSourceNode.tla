------------------------------ MODULE MCSourceNode ------------------------------
EXTENDS SourceNode

\* Raw images, FFmpeg with its default profile, and a preview of half the size.
Default ==
    [wellFormed |-> TRUE, input |-> "rgb8", loopback |-> TRUE, port |-> 5004,
     width |-> 64, height |-> 32, fps |-> 30, bitrate |-> 1000000,
     backend |-> "ffmpeg", preview |-> TRUE,
     videoWidth |-> 32, videoHeight |-> 16, videoBitrate |-> 500000,
     encoder |-> "libx264", arguments |-> <<>>, videoFilter |-> {},
     writtenEmpty |-> TRUE, quoted |-> {},
     converter |-> "videoconvert", scaler |-> "videoscale", h264Encoder |-> "x264enc",
     jpegParser |-> "jpegparse", jpegDecoder |-> "jpegdec",
     decoderProperties |-> <<>>, converterProperties |-> <<>>,
     encoderProperties |-> <<<<"bitrate", "@bitrate_kbps">>, <<"tune", "zerolatency">>>>]

Marked == [Default EXCEPT !.preview = FALSE, !.input = "jpeg", !.encoder = "h264_nvenc",
                          !.arguments = <<"-b:v", "@bitrate">>,
                          !.writtenEmpty = FALSE, !.quoted = {"@bitrate"}]

FixedBitrate == [Default EXCEPT !.preview = FALSE, !.arguments = <<"-crf", "23">>,
                                !.writtenEmpty = FALSE, !.videoFilter = {"hflip"}]

\* ["-crf", "23", "-metadata", "title=\"@bitrate"]
Mentioned == [FixedBitrate EXCEPT !.arguments = @ \o <<"-metadata", "title=\"@bitrate">>,
                                  !.quoted = {"@bitrate"}]

GStreamer == [Default EXCEPT !.preview = FALSE, !.input = "jpeg", !.backend = "gstreamer",
                             !.bitrate = 1000400, !.quoted = {"@bitrate_kbps"}]

GStreamerRaw == [GStreamer EXCEPT !.input = "mono8"]

Invalid == {[GStreamer EXCEPT !.preview = TRUE], [Default EXCEPT !.videoHeight = 64]}

SettingsSet ==
    {Default, Marked, FixedBitrate, Mentioned, GStreamer, GStreamerRaw} \cup Invalid

AllTools(s) ==
    Needs(Command(s, Rtp)) \cup (IF s.preview THEN Needs(FfmpegPreview(s)) ELSE {})

AllInspected(s) == UNION {Inspected(s, c) : c \in {Rtp, Preview}}

\* Everything is there, or one thing is not: one that the preflight asks for, or
\* the filter of a profile, for which it does not.
ToolsFor(s) ==
    {AllTools(s)} \cup {AllTools(s) \ {n} : n \in AllInspected(s) \cup {<<"ffmpeg", "filter", "hflip">>}}
=============================================================================
