------------------------------ MODULE ImageFormat ------------------------------
(***************************************************************************)
(* What an image is to src/ros_image_rtp_adapter: the checks of frames.py, *)
(* of the submit_* methods of runtime.py and of the capture request in     *)
(* control_socket.py, and the packing of raw rows.  The bytes of a raw     *)
(* image are their positions 1, 2, ... in the ROS message; a JPEG is       *)
(* described by what the checks can tell of it.                            *)
(***************************************************************************)
EXTENDS Naturals, SequencesExt

CONSTANTS
    Width, Height,  \* the configured geometry
    RawEncoding,    \* raw_encoding
    FrameId,        \* the configured frame_id
    HasPreview,     \* a preview channel exists
    MaxFrameBytes,  \* MAX_FRAME_BYTES
    MaxPixels       \* MAX_FRAME_PIXELS

\* _RAW_LAYOUTS: bytes per pixel of the encodings that are known.
PixelBytes == [rgb8 |-> 3, bgr8 |-> 3, rgba8 |-> 4, bgra8 |-> 4, mono8 |-> 1]

ASSUME FormatConstants ==
    /\ Width \in Nat \ {0} /\ Height \in Nat \ {0}
    /\ RawEncoding \in DOMAIN PixelBytes
    /\ HasPreview \in BOOLEAN
    /\ MaxFrameBytes \in Nat
    /\ MaxPixels \in Nat
    /\ Width * Height <= MaxPixels

PackedFrameBytes(encoding, w, h) == w * h * PixelBytes[encoding]

RowBytes(image) == image.width * PixelBytes[image.encoding]

-----------------------------------------------------------------------------
(***************************************************************************)
(* JPEG: the markers at both ends, then what the header says, before       *)
(* anything is decoded.                                                    *)
(***************************************************************************)
JpegFramed(jpeg) == jpeg.size >= 4 /\ jpeg.markers

\* jpeg_geometry returns; else it raises.
JpegReadable(jpeg) ==
    /\ JpegFramed(jpeg)
    /\ jpeg.verifies
    /\ jpeg.width >= 1 /\ jpeg.height >= 1
    /\ jpeg.width * jpeg.height <= MaxPixels

\* submit_compressed, with require_jpeg (settings.py admits nothing else).
JpegAccepted(jpeg) ==
    /\ jpeg.labelled
    /\ jpeg.size <= MaxFrameBytes
    /\ JpegReadable(jpeg)
    /\ jpeg.width = Width /\ jpeg.height = Height

(***************************************************************************)
(* Raw: pack_raw_frame.                                                    *)
(***************************************************************************)
RawAccepted(raw) ==
    /\ raw.size <= MaxPixels * 4
    /\ raw.encoding = RawEncoding
    /\ raw.width = Width /\ raw.height = Height
    /\ raw.step >= RowBytes(raw)
    /\ raw.size >= raw.step * raw.height

Data(raw) == [i \in 1 .. raw.size |-> i]

\* Mutant: padded rows are taken for packed ones.
PackedIgnoringStep(raw) ==
    SubSeq(Data(raw), 1, PackedFrameBytes(raw.encoding, raw.width, raw.height))

Packed(raw) ==
    IF raw.step = RowBytes(raw)
    THEN SubSeq(Data(raw), 1, PackedFrameBytes(raw.encoding, raw.width, raw.height))
    ELSE FlattenSeq([r \in 1 .. raw.height |->
             SubSeq(Data(raw), (r - 1) * raw.step + 1, (r - 1) * raw.step + RowBytes(raw))])

(***************************************************************************)
(* submit_compressed, submit_raw and the identity checks of _enqueue, for  *)
(* a source whose input_message_type is `type'.  A stamp of None cannot    *)
(* come from the ROS wrappers; 0 can.                                      *)
(***************************************************************************)
Admitted(image, type) ==
    /\ image.type = type
    /\ IF type = "raw" THEN RawAccepted(image) ELSE JpegAccepted(image)
    /\ image.frameId = FrameId
    /\ HasPreview => image.stamp > 0

\* len(frame.encoder_data)
EncoderBytes(image) == IF image.type = "raw" THEN Len(Packed(image)) ELSE image.size

\* Every frame the child of a raw source cuts from its input is the pixels of
\* one image, row after row, with none of the padding.
IsWhole(image) ==
    image.type = "raw" =>
        /\ Len(Packed(image)) = PackedFrameBytes(RawEncoding, Width, Height)
        /\ \A r \in 0 .. Height - 1, b \in 1 .. RowBytes(image) :
               Packed(image)[r * RowBytes(image) + b] = r * image.step + b

-----------------------------------------------------------------------------
(***************************************************************************)
(* snapshot_capture, once it holds an image, and the checks its caller     *)
(* _capture makes of the result.                                           *)
(***************************************************************************)

\* to_jpeg may fail (no Pillow, no memory, a side over the 65535 of JPEG), and
\* its result may be longer than a frame may be.
Jpegs(image) ==
    IF image.type # "raw" THEN {image}
    ELSE {[width |-> Width, height |-> Height, size |-> s, markers |-> TRUE,
           verifies |-> TRUE] : s \in {MaxFrameBytes, MaxFrameBytes + 1}}

\* Lengths of the RGB bytes: of the raw image, else of the decoded JPEG; 0 when
\* both failed or none were asked for.
RgbLengths(image, includeRgb) ==
    IF includeRgb /\ (image.type = "raw" \/ image.decodes)
    THEN {image.width * image.height * 3, 0} ELSE {0}

\* snapshot_capture returns a capture rather than None.
Captured(jpeg, rgb, includeRgb) ==
    JpegReadable(jpeg) /\ (includeRgb => rgb = jpeg.width * jpeg.height * 3)

\* What the request answers with a capture of this JPEG and these RGB bytes.
Judged(image, jpeg, rgb) ==
    IF jpeg.width * jpeg.height > MaxPixels \/ jpeg.size > MaxFrameBytes THEN "exhausted"
    ELSE IF \/ rgb # 0 /\ rgb # jpeg.width * jpeg.height * 3
            \/ ~JpegReadable(jpeg)
            \/ jpeg.width # Width \/ jpeg.height # Height
            \/ image.frameId # FrameId
         THEN "internal"
    ELSE "answered"

\* What comes of the capture of an image, given its JPEG and its RGB bytes.
Verdict(image, jpeg, rgb, includeRgb) ==
    IF Captured(jpeg, rgb, includeRgb) THEN Judged(image, jpeg, rgb) ELSE "unavailable"
=============================================================================
