----------------------------- MODULE EncoderCommand -----------------------------
(***************************************************************************)
(* From settings to the command of an encoder child                        *)
(* (src/ros_image_rtp_adapter/settings.py and encoder.py): which settings  *)
(* are valid, which may be changed online, what the preflight inspects,    *)
(* and what the command names, reads and writes.                           *)
(*                                                                         *)
(* A settings record has the fields that tell commands apart; the checks   *)
(* of texts (topics, identifiers, the socket path, the clock domain; JSON, *)
(* caps and element names, which the constructors of the encoders check)   *)
(* are its field wellFormed.  Profiles are sequences: of arguments for     *)
(* FFmpeg, of <<property, value>> for GStreamer; "quoted" are the bitrate  *)
(* markers that the text of the encoder's profile has between quotes, as a *)
(* value or not.  Times and caps are left out, and fps is a whole number.  *)
(***************************************************************************)
EXTENDS Integers, SequencesExt

CONSTANT MaxPixels   \* MAX_FRAME_PIXELS

ASSUME CommandConstants == MaxPixels \in Nat

\* AdapterSettings: what from_mapping makes of parameters, valid or not.
Settings ==
    [wellFormed : BOOLEAN, input : STRING, loopback : BOOLEAN, port : Int,
     width : Int, height : Int, fps : Int, bitrate : Int,
     backend : STRING, preview : BOOLEAN,
     videoWidth : Int, videoHeight : Int, videoBitrate : Int,
     encoder : STRING, arguments : Seq(STRING), videoFilter : SUBSET STRING,
     writtenEmpty : BOOLEAN, quoted : SUBSET STRING,
     converter : STRING, scaler : STRING, h264Encoder : STRING,
     jpegParser : STRING, jpegDecoder : STRING,
     decoderProperties : Seq(STRING \X STRING), converterProperties : Seq(STRING \X STRING),
     encoderProperties : Seq(STRING \X STRING)]

\* _RAW_INPUTS: the name of the format for FFmpeg and for GStreamer, and the
\* bytes of a pixel.
RawInputs ==
    [rgb8 |-> <<"rgb24", "rgb", 3>>, bgr8 |-> <<"bgr24", "bgr", 3>>,
     rgba8 |-> <<"rgba", "rgba", 4>>, bgra8 |-> <<"bgra", "bgra", 4>>,
     mono8 |-> <<"gray", "gray8", 1>>]

\* packed_frame_bytes, what the pump writes for an image; a JPEG ends by itself.
PackedFrameBytes(s) ==
    IF s.input = "jpeg" THEN 0 ELSE s.width * s.height * RawInputs[s.input][3]

MaxPort == 65535

AtLeastOne(n) == IF n < 1 THEN 1 ELSE n

-----------------------------------------------------------------------------
(***************************************************************************)
(* settings.py.                                                            *)
(***************************************************************************)

\* _validate_video_preview: one isotropic downscale, by FFmpeg.
ValidPreview(s) ==
    /\ s.backend = "ffmpeg"
    /\ s.videoWidth >= 16 /\ s.videoHeight >= 16
    /\ s.videoWidth <= s.width /\ s.videoHeight <= s.height
    /\ s.videoWidth * s.height = s.videoHeight * s.width
    /\ s.videoBitrate >= 1

Valid(s) ==
    /\ s.wellFormed
    /\ s.input \in DOMAIN RawInputs \cup {"jpeg"}
    /\ s.loopback
    /\ s.port \in 1 .. MaxPort
    /\ s.width >= 16 /\ s.height >= 16
    /\ s.width * s.height <= MaxPixels
    /\ s.fps \in 1 .. 240
    /\ s.bitrate >= 1
    /\ s.backend \in {"ffmpeg", "gstreamer"}
    /\ s.preview => ValidPreview(s)

\* Mutant: the profile is not looked at.
BitrateAlwaysMutable(s) == TRUE

\* The default profile of FFmpeg, when it is written as [], or a profile in whose
\* text a bitrate marker is found, whatever it stands for there.
BitrateMutable(s) ==
    \/ s.backend = "ffmpeg" /\ s.arguments = <<>> /\ s.writtenEmpty
    \/ s.quoted \cap {"@bitrate", "@bitrate_kbps"} # {}

\* configure() may put c in place of s, of which it has the other fields.
MayBecome(s, c) ==
    /\ c # s
    /\ c.bitrate # s.bitrate => BitrateMutable(s)
    /\ Valid(c)

-----------------------------------------------------------------------------
(***************************************************************************)
(* Markers, and the codec arguments of FFmpeg.  An argument is             *)
(* <<element, name, text, number>>; the number is what replaces a marker.  *)
(***************************************************************************)

\* max(1, round(bitrate / 1000.0)); a tie goes to the even number.
Kbps(bitrate) ==
    LET q == bitrate \div 1000
        r == bitrate % 1000
    IN  AtLeastOne(IF r > 500 \/ (r = 500 /\ q % 2 = 1) THEN q + 1 ELSE q)

MarkerValue(text, out) ==
    CASE text = "@bitrate" -> out.bitrate
      [] text = "@bitrate_kbps" -> Kbps(out.bitrate)
      [] text \in {"@fps", "@gop"} -> AtLeastOne(out.fps)
      [] text = "@width" -> out.width
      [] text = "@height" -> out.height
      [] OTHER -> 0

\* The output geometry and budget of a command.
RtpOutput(s) ==
    [width |-> s.width, height |-> s.height, fps |-> s.fps, bitrate |-> s.bitrate]

PreviewOutputOf(s) ==
    [width |-> s.videoWidth, height |-> s.videoHeight, fps |-> s.fps,
     bitrate |-> s.videoBitrate]

CodecArguments(s, out) ==
    LET Option(name, n) == <<s.encoder, name, "", n>>
        gop == AtLeastOne(out.fps)
    IN  IF s.arguments # <<>>
        THEN [i \in DOMAIN s.arguments |->
                 <<s.encoder, "", s.arguments[i], MarkerValue(s.arguments[i], out)>>]
        ELSE CASE s.encoder = "libx264" ->
                    <<Option("-g", gop), Option("-keyint_min", gop), Option("-b:v", out.bitrate),
                      Option("-maxrate", out.bitrate), Option("-bufsize", 2 * out.bitrate)>>
               [] s.encoder = "h264_nvenc" ->
                    <<Option("-delay", IF s.input = "jpeg" THEN 2 ELSE 0),
                      Option("-g", gop), Option("-keyint_min", gop), Option("-b:v", out.bitrate),
                      Option("-maxrate", out.bitrate), Option("-bufsize", out.bitrate)>>
               [] OTHER -> <<Option("-b:v", out.bitrate), Option("-g", gop)>>

-----------------------------------------------------------------------------
(***************************************************************************)
(* The commands: the parts of the program they name, the arguments, and    *)
(* the format and the size of the images that the child is told to read.   *)
(***************************************************************************)
Reads(s, pixels) ==
    IF s.input = "jpeg" THEN [pixels |-> "jpeg", width |-> 0, height |-> 0]
    ELSE [pixels |-> pixels, width |-> s.width, height |-> s.height]

\* _ffmpeg_input_arguments, for both outputs the size of the source.
FfmpegReads(s) == Reads(s, IF s.input = "jpeg" THEN "" ELSE RawInputs[s.input][1])

\* A decoder of raw images goes with the format.
FfmpegParts(s, filters, output) ==
    {<<"protocol", "pipe">>, <<"encoder", s.encoder>>}
    \cup (IF s.input = "jpeg" THEN {<<"demuxer", "image2pipe">>, <<"decoder", "mjpeg">>}
          ELSE {<<"demuxer", "rawvideo">>, <<"decoder", "rawvideo">>})
    \cup {<<"filter", f>> : f \in filters}
    \cup output

FfmpegRtp(s) ==
    [program |-> "ffmpeg",
     parts |-> FfmpegParts(s, IF s.videoFilter = {} THEN {"scale", "pad"} ELSE s.videoFilter,
                           {<<"muxer", "rtp">>, <<"protocol", "rtp">>}),
     arguments |-> CodecArguments(s, RtpOutput(s)),
     reads |-> FfmpegReads(s), port |-> s.port]

\* half_resolution_decode
HalfResolution(s) ==
    s.input = "jpeg" /\ s.width = 2 * s.videoWidth /\ s.height = 2 * s.videoHeight

FfmpegPreview(s) ==
    [program |-> "ffmpeg",
     parts |-> FfmpegParts(s, {"scale"}, {<<"bsf", "dump_extra">>, <<"bsf", "h264_metadata">>,
                                          <<"muxer", "h264">>}),
     arguments |-> CodecArguments(s, PreviewOutputOf(s)),
     reads |-> FfmpegReads(s), lowres |-> HalfResolution(s),
     scaled |-> <<s.videoWidth, s.videoHeight>>]

\* _property_arguments
Properties(element, properties, out) ==
    [i \in DOMAIN properties |->
        <<element, properties[i][1], properties[i][2], MarkerValue(properties[i][2], out)>>]

GStreamerRtp(s) ==
    LET out == RtpOutput(s)
    IN  [program |-> "gst-launch-1.0",
         parts |-> {<<"element", e>> : e \in
                       {"fdsrc", s.converter, s.scaler, s.h264Encoder, "h264parse",
                        "rtph264pay", "udpsink"}
                       \cup (IF s.input = "jpeg" THEN {s.jpegParser, s.jpegDecoder}
                             ELSE {"rawvideoparse"})},
         arguments |->
            (IF s.input = "jpeg" THEN Properties(s.jpegDecoder, s.decoderProperties, out)
             ELSE <<>>)
            \o Properties(s.converter, s.converterProperties, out)
            \o Properties(s.h264Encoder, s.encoderProperties, out),
         reads |-> Reads(s, IF s.input = "jpeg" THEN "" ELSE RawInputs[s.input][2]),
         port |-> s.port]

Command(s, channel) ==
    IF channel = "ros-preview" THEN FfmpegPreview(s)
    ELSE IF s.backend = "ffmpeg" THEN FfmpegRtp(s) ELSE GStreamerRtp(s)

\* What a command needs of the machine: its program, the parts it names, and
\* for GStreamer the configured properties of each.
Needs(command) ==
    {<<command.program>>}
    \cup {<<command.program, p[1], p[2]>> : p \in command.parts}
    \cup (IF command.program = "ffmpeg" THEN {}
          ELSE {<<command.program, a[1], a[2]>> : a \in ToSet(command.arguments)})

\* The bytes that the programs take for a pixel and for an image, with rows that
\* follow each other.
PixelBytes ==
    [rgb24 |-> 3, bgr24 |-> 3, rgb |-> 3, bgr |-> 3, rgba |-> 4, bgra |-> 4,
     gray |-> 1, gray8 |-> 1]

Takes(command) ==
    LET r == command.reads
    IN  IF r.pixels = "jpeg" THEN 0 ELSE r.width * r.height * PixelBytes[r.pixels]

-----------------------------------------------------------------------------
(***************************************************************************)
(* validate_runtime: what is asked of the machine before a child is        *)
(* launched.                                                               *)
(***************************************************************************)

\* _ffmpeg_validate_encoder
InspectedFfmpeg(s) == {<<"ffmpeg">>, <<"ffmpeg", "encoder", s.encoder>>}

\* The launcher, every element, and every configured property of an element.
InspectedGStreamer(s) ==
    LET jpeg == s.input = "jpeg"
        elements == {"fdsrc"} \cup (IF jpeg THEN {s.jpegParser, s.jpegDecoder} ELSE {"rawvideoparse"})
                    \cup {s.converter, s.scaler, s.h264Encoder, "h264parse",
                          "rtph264pay", "udpsink"}
        Of(element, properties) == {<<element, p[1]>> : p \in ToSet(properties)}
        properties == (IF jpeg THEN Of(s.jpegDecoder, s.decoderProperties) ELSE {})
                      \cup Of(s.converter, s.converterProperties)
                      \cup Of(s.h264Encoder, s.encoderProperties)
    IN  {<<"gst-launch-1.0">>}
        \cup {<<"gst-launch-1.0", "element", e>> : e \in elements}
        \cup {<<"gst-launch-1.0", p[1], p[2]>> : p \in properties}

Inspected(s, channel) ==
    IF channel = "ros-preview" \/ s.backend = "ffmpeg"
    THEN InspectedFfmpeg(s) ELSE InspectedGStreamer(s)
=============================================================================
