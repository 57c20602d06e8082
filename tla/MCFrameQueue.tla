---------------------------- MODULE MCFrameQueue ----------------------------
(* One channel and one capture, of an image of 1 x 2 pixels.  Two channels *)
(* share nothing but the images and the notifications.                     *)
EXTENDS FrameQueue, TLC

CONSTANTS rtp, c1

JpegOf(size, w, decodes) ==
    [type |-> "compressed", labelled |-> TRUE, size |-> size, markers |-> TRUE,
     verifies |-> TRUE, width |-> w, height |-> 2, decodes |-> decodes,
     frameId |-> "camera", stamp |-> 1]

RawOf(size, w, step) ==
    [type |-> "raw", size |-> size, encoding |-> "mono8", width |-> w, height |-> 2,
     step |-> step, frameId |-> "camera", stamp |-> 1]

\* Good images of two sizes and both row layouts, and one image for every
\* reason to refuse one.
JpegSet == {JpegOf(4, 1, TRUE), JpegOf(6, 1, FALSE), JpegOf(7, 1, TRUE), JpegOf(3, 1, TRUE),
           JpegOf(4, 2, TRUE), JpegOf(4, 3, TRUE),
           [JpegOf(4, 1, TRUE) EXCEPT !.labelled = FALSE],
           [JpegOf(4, 1, TRUE) EXCEPT !.markers = FALSE],
           [JpegOf(4, 1, TRUE) EXCEPT !.verifies = FALSE],
           [JpegOf(4, 1, TRUE) EXCEPT !.frameId = "other"],
           [JpegOf(4, 1, TRUE) EXCEPT !.stamp = 0]}

RawSet == {RawOf(2, 1, 1), RawOf(4, 1, 2), RawOf(3, 1, 2), RawOf(17, 1, 1), RawOf(4, 2, 2),
          RawOf(2, 1, 0),
          [RawOf(4, 1, 1) EXCEPT !.encoding = "rgb8"],
          [RawOf(2, 1, 1) EXCEPT !.frameId = "other"]}

ImageSet == JpegSet \cup RawSet
=============================================================================
