---------------------------- MODULE AnnexBAccessUnits ----------------------------
(***************************************************************************)
(* The access unit parser of src/ros_image_rtp_adapter/h264.py: a byte     *)
(* stream that arrives in reads of any size is cut at its access unit      *)
(* delimiters.  A delimiter is 00 00 01 09 or 00 00 00 01 09.              *)
(*                                                                         *)
(* A read is one step and may end anywhere, inside a delimiter too; what   *)
(* the parser has returned is compared with a definition that looks at all *)
(* the bytes at once.                                                      *)
(***************************************************************************)
EXTENDS Naturals, Sequences, FiniteSetsExt

CONSTANTS
    Bytes,      \* the byte values of the stream; 0, 1 and 9 make delimiters
    MaxInput,   \* bound of the model: length of the stream
    MaxMarks,   \* bound of the model: bytes of the stream that are not zero
    Maximum     \* maximum_bytes

ASSUME ParserConstants ==
    /\ {0, 1, 9} \subseteq Bytes
    /\ MaxInput \in Nat /\ MaxMarks \in Nat
    /\ Maximum \in Nat \ {0}

VARIABLES
    incoming,   \* the bytes in the output pipe of the encoder
    received,   \* history: every byte the parser was fed
    buffer,     \* _buffer
    scanFrom,   \* _scan_from, an offset: the search starts after it
    started,    \* _unit_started
    units,      \* history: every unit the parser returned
    state       \* "open", "finished" after finish(), "failed" after a raise

vars == <<incoming, received, buffer, scanFrom, started, units, state>>

\* _BOUNDARY_OVERLAP
BoundaryOverlap == 4

Init ==
    /\ incoming = <<>>
    /\ received = <<>>
    /\ buffer = <<>>
    /\ scanFrom = 0
    /\ started = FALSE
    /\ units = <<>>
    /\ state = "open"

-----------------------------------------------------------------------------
(***************************************************************************)
(* The pattern _AUD.                                                       *)
(***************************************************************************)
ShortDelimiter == <<0, 0, 1, 9>>
LongDelimiter == <<0, 0, 0, 1, 9>>

Occurs(d, s, i) ==
    i + Len(d) - 1 <= Len(s) /\ SubSeq(s, i, i + Len(d) - 1) = d

\* The positions of s where _AUD matches when the search starts after `from'.
Matches(s, from) ==
    {i \in from + 1 .. Len(s) :
        Occurs(ShortDelimiter, s, i) \/ Occurs(LongDelimiter, s, i)}

\* The end of the match at position i, as an offset.
MatchEnd(s, i) ==
    i - 1 + (IF Occurs(ShortDelimiter, s, i) THEN 4 ELSE 5)

-----------------------------------------------------------------------------
(***************************************************************************)
(* feed(): what the loop makes of a parser p = [buffer, scan, started,     *)
(* units, raised].                                                         *)
(***************************************************************************)
Larger(a, b) == IF a >= b THEN a ELSE b
Minus(a, b) == IF a >= b THEN a - b ELSE 0

\* Mutant: one byte too few is looked at again.
ScanShort(p) == [p EXCEPT !.scan = Larger(@, Minus(Len(p.buffer), 3))]

\* No match: the search resumes where this one stopped, less the overlap.
ScanResumes(p) ==
    [p EXCEPT !.scan = Larger(@, Minus(Len(p.buffer), BoundaryOverlap))]

\* Bytes before the first delimiter belong to the first unit.
FirstDelimiter(p, end) == [p EXCEPT !.started = TRUE, !.scan = end]

\* Mutant: the bound is off by one.
UnitClosedBoundOff(p, start, end) ==
    IF start > Maximum
    THEN [p EXCEPT !.raised = TRUE]
    ELSE [p EXCEPT !.units = Append(@, SubSeq(p.buffer, 1, start - 1)),
                   !.buffer = SubSeq(@, start, Len(@)),
                   !.scan = end - (start - 1)]

\* The unit up to the delimiter at `start' is complete.
UnitClosed(p, start, end) ==
    IF start - 1 > Maximum
    THEN [p EXCEPT !.raised = TRUE]
    ELSE [p EXCEPT !.units = Append(@, SubSeq(p.buffer, 1, start - 1)),
                   !.buffer = SubSeq(@, start, Len(@)),
                   !.scan = end - (start - 1)]

\* One turn of the loop.  Once no match is left, or the bound is exceeded, a turn
\* changes nothing more.
Turn(p) ==
    IF p.raised THEN p
    ELSE IF Matches(p.buffer, p.scan) = {} THEN ScanResumes(p)
    ELSE LET start == Min(Matches(p.buffer, p.scan))
             end == MatchEnd(p.buffer, start)
         IN  IF p.started THEN UnitClosed(p, start, end) ELSE FirstDelimiter(p, end)

\* The loop: every turn but the last goes past a delimiter, four bytes at least.
Scanned(p) ==
    LET last == Len(p.buffer) \div 4 + 1
        turns[n \in 0 .. last] == IF n = 0 THEN p ELSE Turn(turns[n - 1])
    IN  turns[last]

Marks == Len(SelectSeq(received \o incoming, LAMBDA b : b # 0))

\* The encoder writes a byte of its output.
Arrive(byte) ==
    /\ state = "open"
    /\ Len(received) + Len(incoming) < MaxInput
    /\ byte # 0 => Marks < MaxMarks
    /\ incoming' = Append(incoming, byte)
    /\ UNCHANGED <<received, buffer, scanFrom, started, units, state>>

\* A read takes what the pipe holds.  feed raises if the open unit is too long
\* already, and what it had collected is then lost.
Feed ==
    LET p == Scanned([buffer |-> buffer \o incoming, scan |-> scanFrom,
                      started |-> started, units |-> <<>>, raised |-> FALSE])
    IN  /\ state = "open"
        /\ incoming # <<>>
        /\ incoming' = <<>>
        /\ received' = received \o incoming
        /\ buffer' = p.buffer
        /\ scanFrom' = p.scan
        /\ started' = p.started
        /\ IF p.raised \/ Len(p.buffer) > Maximum
           THEN state' = "failed" /\ units' = units
           ELSE state' = "open" /\ units' = units \o p.units

\* finish(), at the end of the stream.
Finish ==
    /\ state = "open"
    /\ incoming = <<>>
    /\ state' = "finished"
    /\ units' = IF Matches(buffer, 0) # {} THEN Append(units, buffer) ELSE units
    /\ buffer' = <<>>
    /\ scanFrom' = 0
    /\ started' = FALSE
    /\ UNCHANGED <<incoming, received>>

Next ==
    \/ \E byte \in Bytes : Arrive(byte)
    \/ Feed
    \/ Finish

Spec == Init /\ [][Next]_vars

-----------------------------------------------------------------------------
(***************************************************************************)
(* The reference: the stream is cut before each delimiter but the first.   *)
(***************************************************************************)

\* The starts of the delimiters of s that do not overlap an earlier one: a long
\* delimiter holds a short one from its second byte on.
Delimiters(s) ==
    {i \in Matches(s, 0) : ~(i > 1 /\ Occurs(LongDelimiter, s, i - 1))}

Cuts(s) == LET d == Delimiters(s) IN IF d = {} THEN {} ELSE d \ {Min(d)}

\* The unit number n of s, counted from 1; the last one is still open.
NthCut(s, n) == CHOOSE i \in Cuts(s) : Cardinality({j \in Cuts(s) : j < i}) = n - 1

UnitStart(s, n) == IF n = 1 THEN 1 ELSE NthCut(s, n - 1)
UnitEnd(s, n) == IF n > Cardinality(Cuts(s)) THEN Len(s) ELSE NthCut(s, n) - 1

Unit(s, n) == SubSeq(s, UnitStart(s, n), UnitEnd(s, n))

ClosedUnits(s) == [n \in 1 .. Cardinality(Cuts(s)) |-> Unit(s, n)]

AllUnits(s) ==
    IF Delimiters(s) = {} THEN <<>>
    ELSE [n \in 1 .. Cardinality(Cuts(s)) + 1 |-> Unit(s, n)]

-----------------------------------------------------------------------------
(***************************************************************************)
(* The units do not depend on where the reads end (h264.py:5-6, 24-52): at *)
(* any moment the parser has returned exactly the units that are complete  *)
(* in the bytes it was fed, holds exactly the rest, and after finish() it  *)
(* has returned all of them.                                               *)
(***************************************************************************)
ReadsDoNotMatter ==
    /\ state = "open" =>
          /\ units = ClosedUnits(received)
          /\ buffer = Unit(received, Cardinality(Cuts(received)) + 1)
    /\ state = "finished" => units = AllUnits(received)

(***************************************************************************)
(* The bound is exact (h264.py:38-44): neither a unit nor what waits for   *)
(* the end of one exceeds it, and the parser only gives up when the stream *)
(* really holds a unit over it.                                            *)
(***************************************************************************)
BoundIsExact ==
    /\ \A n \in DOMAIN units : Len(units[n]) <= Maximum
    /\ state = "open" => Len(buffer) <= Maximum
    /\ state = "failed" =>
          \E n \in 1 .. Cardinality(Cuts(received)) + 1 : Len(Unit(received, n)) > Maximum
=============================================================================
