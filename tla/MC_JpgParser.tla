----------------------------- MODULE MC_JpgParser -----------------------------
(* Files of up to four segments around one Exif TIFF stream laid out as *)
(* in MC_TiffIfd (IFD0 at 8 with a text field and a MakerNote, 38       *)
(* bytes), cut short at every byte of interest.                        *)
EXTENDS JpgParser, TLC

Ent(tag, type, count, value, ok) ==
  [tag |-> tag, type |-> type, count |-> count, value |-> value, ok |-> ok]
Stream(hdr, ifd0) ==
  [hdr_ok |-> hdr, ifd0 |-> 8,
   ifds |-> 8 :> << Ent(\h010F, 2, 4, 0, TRUE), Ent(\h927C, 7, 4, 0, TRUE) >>]
Seg(kind, size, tiff) == [kind |-> kind, size |-> size, tiff |-> tiff]
Good == Stream(TRUE, 8)
Exif == Seg("exif", 46, Good)
BadExif == Seg("exif", 46, Stream(FALSE, 8))
Std == Seg("std", 4, Good)
Xmp == Seg("xmp", 12, Good)
Scan == Seg("scan", 6, Good)
Mark(kind) == Seg(kind, 0, Good)

Heads == {<< >>, << Std >>, << Exif >>, << BadExif >>, << Std, Exif >>,
          << Exif, Xmp >>, << Xmp, Exif >>, << Xmp >>}
Tails == {<< Scan, Mark("eoi") >>, << Scan, Scan, Mark("eoi") >>,
          << Mark("eoi") >>, << Mark("zero") >>, << Mark("soi") >>,
          << Mark("fill") >>, << Scan, Mark("junk") >>}

File(soi, segs, cut) ==
  [soi |-> soi, segs |-> segs, size |-> SegStart(segs, Len(segs) + 1) - cut]

MC_Jpegs ==
  {f \in {File(TRUE, h \o t, cut) : h \in Heads, t \in Tails, cut \in {0, 1, 3, 5}} :
     f.size >= 0}
  \cup {File(FALSE, << Std, Scan, Mark("eoi") >>, 0)}
MC_W == 8
MC_MaxCalls == 2
====
