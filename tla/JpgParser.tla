------------------------------ MODULE JpgParser ------------------------------
(***************************************************************************)
(* analyze_jpg (src/image-metadata-extraction/jpg.c) composed with the     *)
(* analyze_tiff it calls on an Exif APP1 segment (module TiffIfd).         *)
(*                                                                         *)
(* A JPEG file is whether it starts with SOI (FF D8), its segments, and     *)
(* its size, which may cut the last segment short.  A segment is its kind  *)
(* (the marker byte it starts with), the bytes after its marker (`size`:  *)
(* the length field's value for a segment with one, the entropy-coded      *)
(* bytes for a scan) and, for an Exif APP1, the TIFF stream after          *)
(* "Exif\0\0".  Length fields agree with the layout and entropy-coded data *)
(* holds no marker: the walk is followed byte-exactly over such files.     *)
(***************************************************************************)
EXTENDS Integers, Sequences

CONSTANTS
  W,          \* the width of size_t
  Jpegs,      \* the files analyze_jpg may be given
  MaxCalls    \* how many calls the process makes

(* Segment kinds: a segment with a length field and no meaning here     *)
(* ("std"), APP1 with "Exif\0\0" and with another header ("xmp"), SOS  *)
(* or RSTn ("scan", D0..DA), EOI, a second SOI, FF 00, FF FF, and a    *)
(* segment whose first byte is not FF ("junk").                        *)
Kinds == {"std", "exif", "xmp", "scan", "eoi", "soi", "zero", "fill", "junk"}

RECURSIVE SegStart(_, _)
(* The byte at which segment N of segment sequence SS starts. *)
SegStart(ss, n) == IF n = 1 THEN 2 ELSE SegStart(ss, n - 1) + 2 + ss[n - 1].size

(* The bytes of a file's segments laid end to end. *)
Total(f) == SegStart(f.segs, Len(f.segs) + 1)

(* The TIFF stream of an Exif segment at byte P of file F with length     *)
(* field L, as analyze_tiff sees it: len = L - 8, and what is left of the *)
(* file after "Exif\0\0".                                                 *)
TiffOf(f, s, p) == [hdr_ok |-> s.tiff.hdr_ok, ifd0 |-> s.tiff.ifd0,
                    ifds |-> s.tiff.ifds, len |-> s.size - 8,
                    flen |-> f.size - (p + 10)]

(* The segment of F that starts at byte P; 0 when P is inside one. *)
SegAt(f, p) ==
  IF \E n \in 1 .. Len(f.segs) : SegStart(f.segs, n) = p
  THEN CHOOSE n \in 1 .. Len(f.segs) : SegStart(f.segs, n) = p ELSE 0

(* The TIFF streams inside the Exif segments of the files. *)
EmbeddedTiffs ==
  UNION {{TiffOf(f, f.segs[j], SegStart(f.segs, j)) :
            j \in {n \in 1 .. Len(f.segs) : f.segs[n].kind = "exif"}} : f \in Jpegs}

VARIABLES
  tpc, tf, phase, ifd, k, nbr, out, tres, valid, exif_found, exif_offset,
  oom, fresh, calls,
  jpc,    \* "idle", "marker" (top of the main loop), or "tiff"
  jf,     \* the file of the current call
  jnbr,   \* num_bytes_read of analyze_jpg
  jres,   \* what the last call returned; -2 while a call runs
  joom    \* history: a memory error happened in analyze_jpg's own code

Tiff == INSTANCE TiffIfd WITH Tiffs <- EmbeddedTiffs

tvars == << tpc, tf, phase, ifd, k, nbr, out, tres, valid, exif_found,
           exif_offset, oom, fresh, calls >>
jvars == << jpc, jf, jnbr, jres, joom >>
vars == << tvars, jvars >>

TypeOK ==
  /\ Tiff!TypeOK
  /\ jpc \in {"idle", "marker", "tiff"}
  /\ jf \in Jpegs
  /\ jnbr \in Nat /\ (jpc = "marker" => jnbr \in 2 .. jf.size)
  /\ jres \in {-2, -1, 0, 1}
  /\ joom \in BOOLEAN

Init ==
  /\ Tiff!TiffInit
  /\ jpc = "idle"
  /\ jf = CHOOSE f \in Jpegs : TRUE    \* no file yet; any value will do
  /\ jnbr = 0 /\ jres = -2 /\ joom = FALSE

(* analyze_jpg returns R. *)
JRet(r) == jpc' = "idle" /\ jres' = r /\ UNCHANGED jnbr

(* A caller passes an open file: the size is taken by seeking to the end, *)
(* the first two bytes must be SOI.  The buffer's malloc may fail.        *)
JStart ==
  /\ jpc = "idle"
  /\ calls < MaxCalls
  /\ calls' = calls + 1
  /\ out' = << >>
  /\ fresh' = (valid = 1 /\ exif_found = 0)
  /\ \E f \in Jpegs, mem \in BOOLEAN :
       /\ jf' = f /\ joom' = mem
       /\ CASE mem -> JRet(1)
            [] f.size < 2 \/ ~f.soi -> JRet(-1)
            [] OTHER -> jpc' = "marker" /\ jnbr' = 2 /\ jres' = -2
  /\ UNCHANGED << tpc, tf, phase, ifd, k, nbr, tres, valid, exif_found,
                  exif_offset, oom >>

(* The mutant of SuperChunk that seeks back to where the scan began. *)
SuperChunkRewindStart(s, p, mem) ==
  LET e == p + 2 + s.size
  IN CASE mem -> JRet(0) /\ joom' = TRUE
       [] jf.size <= e -> JRet(0) /\ UNCHANGED joom
       [] jf.size = e + 1 -> JRet(-1) /\ UNCHANGED joom
       [] OTHER -> /\ jnbr' = p
                   /\ UNCHANGED << jpc, jf, jres, joom >>

(* The super-chunk branch (D0..DA) on a scan segment S at byte P: read   *)
(* byte by byte until FF followed by a byte other than 00, then seek back *)
(* to that FF.  Running into the end of the file ends the main loop too. *)
(* Any of its two mallocs failing returns 0.                             *)
SuperChunk(s, p, mem) ==
  LET e == p + 2 + s.size    \* the byte after the entropy-coded data
  IN CASE mem -> JRet(0) /\ joom' = TRUE
       [] jf.size <= e -> JRet(0) /\ UNCHANGED joom
       [] jf.size = e + 1 -> JRet(-1) /\ UNCHANGED joom
       [] OTHER -> /\ jnbr' = e
                   /\ UNCHANGED << jpc, jf, jres, joom >>

StandardChunkNoShortRead(s, p, mem) ==
  LET length == IF s.size > 1 THEN s.size - 2 ELSE s.size
  IN CASE p + 4 > jf.size -> JRet(-1) /\ UNCHANGED joom
       [] length > jf.size -> JRet(1) /\ UNCHANGED joom
       [] mem -> JRet(1) /\ joom' = TRUE
       [] OTHER -> /\ jnbr' = p + 4 + length
                   /\ UNCHANGED << jpc, jf, jres, joom >>

(* A segment with a length field, at byte P: the length is read and the  *)
(* data after it skipped.  The realloc of the data buffer may fail.      *)
StandardChunk(s, p, mem) ==
  LET length == IF s.size > 1 THEN s.size - 2 ELSE s.size
  IN CASE p + 4 > jf.size -> JRet(-1) /\ UNCHANGED joom
       [] length > jf.size -> JRet(1) /\ UNCHANGED joom
       [] mem -> JRet(1) /\ joom' = TRUE
       [] p + 4 + length > jf.size -> JRet(0) /\ UNCHANGED joom
       [] OTHER -> /\ jnbr' = p + 4 + length
                   /\ UNCHANGED << jpc, jf, jres, joom >>

(* APP1 at byte P: a length of at most 7, a short read or a header other *)
(* than "Exif\0\0" returns 0, the header's malloc failing 1; otherwise   *)
(* analyze_tiff runs on the rest of the segment and analyze_jpg returns  *)
(* 0 after it, whatever it returned.                                     *)
App1(s, p, mem) ==
  CASE p + 4 > jf.size -> JRet(-1) /\ UNCHANGED << tvars, joom >>
    [] s.size > jf.size -> JRet(1) /\ UNCHANGED << tvars, joom >>
    [] s.size <= 7 \/ p + 10 > jf.size -> JRet(0) /\ UNCHANGED << tvars, joom >>
    [] mem -> JRet(1) /\ joom' = TRUE /\ UNCHANGED tvars
    [] s.kind # "exif" -> JRet(0) /\ UNCHANGED << tvars, joom >>
    [] OTHER -> /\ jpc' = "tiff"
                /\ Tiff!Begin(TiffOf(jf, s, p))
                /\ UNCHANGED << calls, jf, jnbr, jres, joom >>

(* One iteration of analyze_jpg's main loop: the loop test on            *)
(* num_bytes_read, the read of the marker at that byte, and the branch   *)
(* it selects.  Two bytes read from inside a segment are data, whose     *)
(* first byte is taken not to be FF.  MEM is the buffer's malloc failing, *)
(* MEM2 the branch's own allocation failing.                             *)
MarkerWith(mem, mem2) ==
  /\ jpc = "marker"
  /\ UNCHANGED jf
  /\ LET p == jnbr IN
     \/ /\ p >= jf.size /\ ~mem
        /\ JRet(0) /\ UNCHANGED << tvars, joom >>
     \/ /\ p < jf.size /\ mem
        /\ JRet(1) /\ joom' = TRUE /\ UNCHANGED tvars
     \/ /\ p < jf.size /\ ~mem
        /\ LET n == SegAt(jf, p)
               s == IF n = 0 THEN [kind |-> "junk"] ELSE jf.segs[n]
           IN
           CASE p + 2 > jf.size -> JRet(-1) /\ UNCHANGED << tvars, joom >>
             [] s.kind \in {"junk", "fill", "soi"} ->
                  JRet(-1) /\ UNCHANGED << tvars, joom >>
             [] s.kind \in {"eoi", "zero"} -> JRet(0) /\ UNCHANGED << tvars, joom >>
             [] s.kind = "scan" -> SuperChunk(s, p, mem2) /\ UNCHANGED tvars
             [] s.kind = "std" -> StandardChunk(s, p, mem2) /\ UNCHANGED tvars
             [] OTHER -> App1(s, p, mem2)

Marker == \E mem, mem2 \in BOOLEAN : MarkerWith(mem, mem2)

(* A step of the analyze_tiff call made from the APP1 branch. *)
TiffRuns ==
  /\ jpc = "tiff"
  /\ Tiff!TiffStep
  /\ UNCHANGED jvars

(* analyze_tiff has returned: analyze_jpg returns 0. *)
TiffReturned ==
  /\ jpc = "tiff" /\ tpc = "idle"
  /\ JRet(0)
  /\ UNCHANGED << tvars, jf, joom >>

Terminated == jpc = "idle" /\ calls = MaxCalls /\ UNCHANGED vars

Next == JStart \/ Marker \/ TiffRuns \/ TiffReturned \/ Terminated

(* Both functions are sequential code with no blocking.  Fairness never  *)
(* makes an allocation fail: the main loop is fair in its iterations    *)
(* without one.  analyze_tiff's loops advance on every step.            *)
Spec == Init /\ [][Next]_vars
          /\ WF_vars(MarkerWith(FALSE, FALSE)) /\ WF_vars(TiffRuns)
          /\ WF_vars(TiffReturned)
-----------------------------------------------------------------------------
(* The segments a JPEG file may hold before its first scan: tables and  *)
(* application data, each with a length field of at least 2.            *)
HeaderSegment(s) == s.kind \in {"std", "exif", "xmp"} /\ s.size >= 2

(* The Exif segments of F, by index. *)
ExifSegments(f) == {j \in 1 .. Len(f.segs) : f.segs[j].kind = "exif"}

(* A JPEG file: SOI, header segments, one or more scans (SOS or RSTn),  *)
(* EOI, nothing missing; at most one Exif segment, which holds a TIFF    *)
(* stream that is itself well formed.                                   *)
IsJpeg(f) ==
  /\ f.soi /\ f.size = Total(f)
  /\ \E a \in 1 .. Len(f.segs) - 1 :
       /\ \A j \in 1 .. a - 1 : HeaderSegment(f.segs[j])
       /\ \A j \in a .. Len(f.segs) - 1 : f.segs[j].kind = "scan"
       /\ f.segs[Len(f.segs)].kind = "eoi"
  /\ \A j, j2 \in ExifSegments(f) : j = j2
  /\ \A j \in ExifSegments(f) :
       f.segs[j].size >= 8 /\ Tiff!IsTiff(TiffOf(f, f.segs[j], SegStart(f.segs, j)))

(* The index of the first APP1 segment of F (Exif or another header), or *)
(* 0 if it has none.                                                       *)
FirstApp1(f) ==
  LET app1 == {j \in 1 .. Len(f.segs) : f.segs[j].kind \in {"exif", "xmp"}}
  IN IF app1 = {} THEN 0 ELSE CHOOSE j \in app1 : \A n \in app1 : j <= n

(* What analyze_jpg prints for a JPEG file: the metadata of the TIFF      *)
(* stream of its first APP1 segment if that one is Exif, else nothing.    *)
FirstApp1Metadata(f) ==
  LET j == FirstApp1(f) IN
  IF j = 0 \/ f.segs[j].kind # "exif" THEN << >>
  ELSE Tiff!TiffMetadata(TiffOf(f, f.segs[j], SegStart(f.segs, j)))

JpgCallsReturn == jpc # "idle" ~> jpc = "idle"

====
