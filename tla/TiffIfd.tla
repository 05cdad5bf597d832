------------------------------- MODULE TiffIfd -------------------------------
(***************************************************************************)
(* analyze_tiff and the helpers it calls (src/image-metadata-extraction/   *)
(* jpg.c): num_bytes, should_print, print_values, print_offset.  The       *)
(* function is exported and is called once per call of analyze_jpg, so it  *)
(* runs many times in one process.  The file-scope statics valid,          *)
(* exif_found and exif_offset persist across calls, as in the code.        *)
(*                                                                         *)
(* A TIFF stream is its length argument `len`, the bytes actually left in  *)
(* the file from its start (`flen`), whether its header bytes are "II*\0", *)
(* the IFD0 offset of the header, and the IFDs at their byte positions.    *)
(* An IFD entry keeps its tag, datatype, count and value/offset word, and   *)
(* one flag `ok` for the value bytes the printers test: the last byte is   *)
(* NUL (text, and an inline MakerNote), or the value starts with the       *)
(* "ASCII\0\0\0" character-set code (UserComment).  size_t arithmetic      *)
(* keeps its wrap-around in W bits.                                        *)
(***************************************************************************)
EXTENDS Integers, Sequences
LOCAL INSTANCE SequencesExt

CONSTANTS
  W,          \* the width of size_t
  Tiffs,      \* the streams analyze_tiff may be given
  MaxCalls    \* how many calls the process makes

(* size_t subtraction *)
Sub(a, b) == (a - b) % (2 ^ W)

(* The tag ids should_print, print_values and print_offset know.  The text *)
(* tags (DocumentName .. ImageUniqueID) all take the same branches.        *)
TextTags == {\h010D, \h010E, \h010F, \h0110, \h0131, \h0132, \h013B, \h013C,
             \h8298, \hA004, \h9003, \h9004, \hA420}
MakerNote == \h927C
UserComment == \h9286
ExifIFD == \h8769

(* Bytes per component of each datatype num_bytes knows. *)
TypeSize == [d \in {1, 2, 3, 4, 5, 7, 8, 9, 10, 11, 12} |->
               CASE d \in {1, 2, 7} -> 1
                 [] d \in {3, 8} -> 2
                 [] d \in {4, 9, 11} -> 4
                 [] d \in {5, 10, 12} -> 8]

(* num_bytes: the value's size in bytes; 0 for an unknown datatype, which *)
(* also clears the static `valid` (see EntryStep).                         *)
num_bytes(datatype, count) ==
  IF datatype \in DOMAIN TypeSize THEN TypeSize[datatype] * count ELSE 0

(* The mutant of should_print that wants a count of 4 for the pointer. *)
should_print_ExifCount(tagid, datatype, count) ==
  CASE tagid \in TextTags -> IF datatype = 2 THEN 1 ELSE -1
    [] tagid \in {MakerNote, UserComment} -> IF datatype = 7 THEN 1 ELSE -1
    [] tagid = ExifIFD -> IF datatype = 4 /\ count = 4 THEN 2 ELSE -1
    [] OTHER -> 0

(* should_print: 1 print, 2 the Exif IFD pointer, 0 skip, -1 bad type. *)
should_print(tagid, datatype, count) ==
  CASE tagid \in TextTags -> IF datatype = 2 THEN 1 ELSE -1
    [] tagid \in {MakerNote, UserComment} -> IF datatype = 7 THEN 1 ELSE -1
    [] tagid = ExifIFD -> IF datatype = 4 /\ count = 1 THEN 2 ELSE -1
    [] OTHER -> 0

(* print_values prints an inline value: a text whose fourth byte is NUL, *)
(* a MakerNote of four bytes or of fewer ending in NUL; never a comment. *)
print_values(e) ==
  CASE e.tag \in TextTags -> e.ok
    [] e.tag = MakerNote -> (e.count < 4 /\ e.ok) \/ e.count = 4
    [] OTHER -> FALSE

(* print_offset prints a value read from the file: a text ending in NUL  *)
(* (or empty), a MakerNote, a UserComment of 8 bytes or more that starts *)
(* with the character-set code.  Its own malloc failing (memfail) skips   *)
(* a MakerNote and a UserComment longer than the code.                   *)
print_offset(e, size, memfail) ==
  CASE e.tag \in TextTags -> size = 0 \/ e.ok
    [] e.tag = MakerNote -> ~memfail
    [] e.tag = UserComment -> size >= 8 /\ e.ok /\ (size = 8 \/ ~memfail)
    [] OTHER -> FALSE

(* The IFD at byte P of stream T; zero bytes where the stream holds none. *)
IfdAt(t, p) == IF p \in DOMAIN t.ifds THEN t.ifds[p] ELSE << >>

VARIABLES
  tpc,          \* "idle", or "loop" while an IFD's entries are read
  tf,           \* the stream of the current call
  phase,        \* 1 while reading IFD0, 2 while reading the Exif IFD
  ifd,          \* the byte position of the IFD being read
  k,            \* the index of the next entry (num_structs_read + 1)
  nbr,          \* num_bytes_read
  out,          \* what the current call printed: the tag and its entry's byte
  tres,         \* what the last call returned; -2 while a call runs
  valid,        \* static: no unknown datatype seen
  exif_found,   \* static
  exif_offset,  \* static
  oom,          \* history: a memory error happened in the current call
  fresh,        \* history: the statics were as initialised when the call began
  calls         \* how many calls have started

tvars == << tpc, tf, phase, ifd, k, nbr, out, tres, valid, exif_found,
            exif_offset, oom, fresh, calls >>

TypeOK ==
  /\ tpc \in {"idle", "loop"}
  /\ tf \in Tiffs
  /\ phase \in {1, 2}
  /\ ifd \in Nat /\ k \in Nat
  /\ tpc = "loop" => k \in 1 .. Len(IfdAt(tf, ifd)) + 1
  /\ nbr \in 0 .. 2 ^ W - 1
  /\ out \in Seq([tag : Nat, at : Nat])
  /\ tres \in {-2, -1, 0, 1}
  /\ valid \in {0, 1} /\ exif_found \in {0, 1} /\ exif_offset \in Nat
  /\ oom \in BOOLEAN /\ fresh \in BOOLEAN
  /\ calls \in 0 .. MaxCalls

TiffInit ==
  /\ tpc = "idle"
  /\ tf = CHOOSE t \in Tiffs : TRUE     \* no stream yet; any value will do
  /\ phase = 1 /\ ifd = 0 /\ k = 1 /\ nbr = 0
  /\ out = << >>
  /\ tres = -2
  /\ valid = 1 /\ exif_found = 0 /\ exif_offset = 0
  /\ oom = FALSE /\ fresh = TRUE
  /\ calls = 0

(* analyze_tiff returns R. *)
Ret(r) == tpc' = "idle" /\ tres' = r /\ UNCHANGED << phase, ifd, k, nbr >>

(* The call of analyze_tiff on stream T up to its first loop: the header *)
(* checks, the seek to IFD0 and the read of its entry count.  Any of the *)
(* three mallocs failing returns 1 and changes nothing else, so the first *)
(* stands for all of them.  num_bytes_read is counted as the code does:  *)
(* 8, then offset - 8 after the seek of offset - 8 bytes from byte 8.    *)
Begin(t) ==
  LET off == t.ifd0
      cnt == (8 + Sub(Sub(off, 8), 8)) % (2 ^ W)
  IN
  /\ tpc = "idle"
  /\ tf' = t
  /\ out' = << >>
  /\ fresh' = (valid = 1 /\ exif_found = 0)
  /\ \E mem \in BOOLEAN :
       /\ oom' = mem
       /\ CASE mem -> Ret(1)
            [] t.len < 8 \/ t.flen < 8 \/ ~t.hdr_ok -> Ret(-1)
            [] off < 8 \/ off >= t.len -> Ret(-1)
            [] cnt >= Sub(t.len, 2) -> Ret(-1)
            [] off + 2 > t.flen -> Ret(-1)
            [] IfdAt(t, off) = << >> -> Ret(-1)
            [] OTHER -> /\ tpc' = "loop" /\ phase' = 1 /\ ifd' = off /\ k' = 1
                        /\ nbr' = (cnt + 2) % (2 ^ W)
                        /\ tres' = -2
  /\ UNCHANGED << valid, exif_found, exif_offset >>

(* The allocations that can fail in the loop iteration of entry E: the   *)
(* 12-byte entry buffer, the inline value, the buffer an offset value is *)
(* read into, or print_offset's copy.                                    *)
OomAt(e, size, print) ==
  {"none", "buf"} \cup
    IF size <= 4 THEN {"value"}
    ELSE IF print = 1
         THEN {"data"} \cup IF \/ e.tag = MakerNote
                               \/ e.tag = UserComment /\ size > 8 /\ e.ok
                            THEN {"print"} ELSE {}
    ELSE {}

(* The mutant of NextEntry that counts an entry twice. *)
NextEntrySkip ==
  /\ k' = k + 2 /\ nbr' = (nbr + 12) % (2 ^ W)
  /\ UNCHANGED << tpc, phase, ifd, tres >>

(* Go on to the next entry. *)
NextEntry ==
  /\ k' = k + 1 /\ nbr' = (nbr + 12) % (2 ^ W)
  /\ UNCHANGED << tpc, phase, ifd, tres >>

(* One iteration of the first or the second loop: read entry k, size its *)
(* value, print it inline or from its offset, or (first loop) record the *)
(* Exif IFD pointer.  The two loops differ only in the pointer.          *)
EntryStep ==
  /\ tpc = "loop"
  /\ k <= Len(IfdAt(tf, ifd))
  /\ LET e == IfdAt(tf, ifd)[k]
         at == ifd + 2 + 12 * (k - 1)
         size == num_bytes(e.type, e.count)
         valid1 == IF e.type \in DOMAIN TypeSize THEN valid ELSE 0
         print == should_print(e.tag, e.type, e.count)
     IN \E p \in OomAt(e, size, print) :
        CASE nbr >= Sub(tf.len, 12) ->
               Ret(-1) /\ UNCHANGED << out, valid, exif_found, exif_offset, oom >>
          [] p = "buf" ->
               Ret(1) /\ oom' = TRUE /\ UNCHANGED << out, valid, exif_found, exif_offset >>
          [] at + 12 > tf.flen ->
               Ret(-1) /\ UNCHANGED << out, valid, exif_found, exif_offset, oom >>
          [] size > tf.len \/ valid1 = 0 ->
               Ret(-1) /\ valid' = valid1 /\ UNCHANGED << out, exif_found, exif_offset, oom >>
          [] size <= 4 /\ p = "value" ->
               Ret(-1) /\ oom' = TRUE /\ UNCHANGED << out, valid, exif_found, exif_offset >>
          [] size <= 4 /\ print = 2 /\ (phase = 2 \/ exif_found = 1) ->
               Ret(-1) /\ UNCHANGED << out, valid, exif_found, exif_offset, oom >>
          [] size <= 4 ->
               /\ out' = IF print = 1 /\ print_values(e)
                         THEN Append(out, [tag |-> e.tag, at |-> at]) ELSE out
               /\ exif_found' = IF print = 2 THEN 1 ELSE exif_found
               /\ exif_offset' = IF print = 2 THEN e.value ELSE exif_offset
               /\ NextEntry /\ UNCHANGED << valid, oom >>
          [] e.value + size > tf.len \/ print \notin {0, 1} ->
               Ret(-1) /\ UNCHANGED << out, valid, exif_found, exif_offset, oom >>
          [] print = 1 /\ p = "data" ->
               Ret(1) /\ oom' = TRUE /\ UNCHANGED << out, valid, exif_found, exif_offset >>
          [] print = 1 /\ e.value + size > tf.flen ->
               Ret(-1) /\ UNCHANGED << out, valid, exif_found, exif_offset, oom >>
          [] OTHER ->
               /\ out' = IF print = 1 /\ print_offset(e, size, p = "print")
                         THEN Append(out, [tag |-> e.tag, at |-> at]) ELSE out
               /\ oom' = (oom \/ p = "print")
               /\ NextEntry /\ UNCHANGED << valid, exif_found, exif_offset >>
  /\ UNCHANGED << tf, fresh, calls >>

(* After the last entry of an IFD.  After IFD0: return 0 when no Exif     *)
(* pointer was found, else check the pointer against num_bytes_read and  *)
(* len, seek to it, read the Exif IFD's entry count and start the second *)
(* loop.  After the Exif IFD: return 0.                                  *)
IfdEnd ==
  /\ tpc = "loop"
  /\ k > Len(IfdAt(tf, ifd))
  /\ \E mem \in BOOLEAN :
       CASE phase = 2 \/ exif_found = 0 -> Ret(0) /\ UNCHANGED oom
         [] exif_offset < nbr \/ exif_offset >= tf.len -> Ret(-1) /\ UNCHANGED oom
         [] exif_offset >= Sub(tf.len, 2) -> Ret(-1) /\ UNCHANGED oom
         [] mem -> Ret(1) /\ oom' = TRUE
         [] exif_offset + 2 > tf.flen -> Ret(-1) /\ UNCHANGED oom
         [] IfdAt(tf, exif_offset) = << >> -> Ret(-1) /\ UNCHANGED oom
         [] OTHER -> /\ phase' = 2 /\ ifd' = exif_offset /\ k' = 1
                     /\ nbr' = (exif_offset + 2) % (2 ^ W)
                     /\ UNCHANGED << tpc, tres, oom >>
  /\ UNCHANGED << tf, out, valid, exif_found, exif_offset, fresh, calls >>

(* The second loop: the first loop's body, in which an Exif pointer      *)
(* returns -1.                                                           *)
SecondLoopStep == phase = 2 /\ EntryStep

(* The steps of one analyze_tiff call after its first. *)
TiffStep == (phase = 1 /\ EntryStep) \/ SecondLoopStep \/ IfdEnd

(* A caller passes an open stream to analyze_tiff. *)
StartCall ==
  /\ calls < MaxCalls
  /\ \E t \in Tiffs : Begin(t)
  /\ calls' = calls + 1

Terminated == tpc = "idle" /\ calls = MaxCalls /\ UNCHANGED tvars

Next == StartCall \/ TiffStep \/ Terminated

(* analyze_tiff is sequential code with no blocking; fairness never makes *)
(* an allocation fail.                                                    *)
Spec == TiffInit /\ [][Next]_tvars /\ WF_tvars(TiffStep)
-----------------------------------------------------------------------------
(* The Exif field types and their sizes (TIFF 6.0, Exif 2.3 4.6.2). *)
ExifTypeBytes == [d \in {1, 2, 3, 4, 5, 7, 9, 10} |->
                    IF d \in {1, 2, 7} THEN 1
                    ELSE IF d = 3 THEN 2 ELSE IF d \in {4, 9} THEN 4 ELSE 8]

(* The bytes of entry E's value. *)
ValueBytes(e) == ExifTypeBytes[e.type] * e.count

(* The byte just past the IFD of N entries at P, its next-IFD word included. *)
IfdEndByte(p, n) == p + 2 + 12 * n + 4

(* A well-formed entry of a stream of LEN bytes: an Exif type, the type   *)
(* its tag requires, a value that is inline or wholly inside the stream,  *)
(* text that ends in NUL and inline bytes past the count that are NUL.    *)
EntryWellFormed(e, len) ==
  /\ e.type \in DOMAIN ExifTypeBytes
  /\ ValueBytes(e) <= 4 \/ (8 <= e.value /\ e.value + ValueBytes(e) <= len)
  /\ e.tag \in TextTags => e.type = 2 /\ e.ok
  /\ e.tag = MakerNote => e.type = 7 /\ (ValueBytes(e) < 4 => e.ok)
  /\ e.tag = UserComment => e.type = 7 /\ ValueBytes(e) >= 8
  /\ e.tag = ExifIFD => e.type = 4 /\ e.count = 1

(* A well-formed IFD of at least one entry at P inside a stream. *)
IfdWellFormed(t, p) ==
  LET es == IfdAt(t, p) IN
  /\ es # << >>
  /\ 8 <= p /\ IfdEndByte(p, Len(es)) <= t.len
  /\ \A i \in 1 .. Len(es) : EntryWellFormed(es[i], t.len)

(* The Exif pointers of the IFD at P. *)
Pointers(t, p) == {i \in 1 .. Len(IfdAt(t, p)) : IfdAt(t, p)[i].tag = ExifIFD}

(* A TIFF stream as an Exif APP1 segment holds it: "II*\0", IFD0, at most *)
(* one Exif IFD pointer, and the Exif IFD after IFD0 with no pointer.     *)
IsTiff(t) ==
  /\ t.hdr_ok /\ t.len <= t.flen
  /\ IfdWellFormed(t, t.ifd0)
  /\ Cardinality(Pointers(t, t.ifd0)) <= 1
  /\ \A i \in Pointers(t, t.ifd0) :
       LET x == IfdAt(t, t.ifd0)[i].value IN
       /\ IfdWellFormed(t, x)
       /\ x >= IfdEndByte(t.ifd0, Len(IfdAt(t, t.ifd0)))
       /\ Pointers(t, x) = {}

(* The metadata of an IFD: its text fields, MakerNote and UserComments in *)
(* ASCII, each named by its tag and the byte of its entry, in order.     *)
Shown(e) == e.tag \in TextTags \cup {MakerNote} \/ (e.tag = UserComment /\ e.ok)
IfdMetadata(t, p) ==
  SetToSortSeq({[tag |-> IfdAt(t, p)[i].tag, at |-> p + 2 + 12 * (i - 1)] :
                  i \in {j \in 1 .. Len(IfdAt(t, p)) : Shown(IfdAt(t, p)[j])}},
               LAMBDA a, b : a.at < b.at)

(* The metadata of a stream: IFD0's, then the Exif IFD's. *)
TiffMetadata(t) ==
  IfdMetadata(t, t.ifd0) \o
    IF Pointers(t, t.ifd0) = {} THEN << >>
    ELSE IfdMetadata(t, IfdAt(t, t.ifd0)[CHOOSE i \in Pointers(t, t.ifd0) : TRUE].value)

(* A call made while the statics are as initialised, with memory to     *)
(* spare, on a well-formed TIFF stream, returns 0 having printed exactly *)
(* its metadata: IFD0's fields in order, then the Exif IFD's.            *)
FreshTiffPrintsMetadata ==
  tres # -2 /\ fresh /\ ~oom /\ IsTiff(tf) => tres = 0 /\ out = TiffMetadata(tf)

(* What the exported analyze_tiff promises whatever was analysed before: *)
(* a well-formed stream has exactly its metadata printed.                *)
TiffPrintsMetadata ==
  tres # -2 /\ ~oom /\ IsTiff(tf) => tres = 0 /\ out = TiffMetadata(tf)

(* Every field printed comes from an entry that lies wholly inside the   *)
(* len bytes of the TIFF stream (num_bytes_read bounds every read).      *)
PrintsOnlySegment ==
  \A i \in 1 .. Len(out) : out[i].at + 12 <= tf.len
====
