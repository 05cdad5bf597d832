------------------------------ MODULE MC_TiffIfd ------------------------------
(* Streams laid out as a camera writes them: header, IFD0 at byte 8, the *)
(* Exif IFD at byte 40, values at 58 and 64, 74 bytes in all; and the    *)
(* same IFDs under a shorter len, and in a file cut short.               *)
EXTENDS TiffIfd, TLC

Ent(tag, type, count, value, ok) ==
  [tag |-> tag, type |-> type, count |-> count, value |-> value, ok |-> ok]
Make == \h010F
TxtIn(ok) == Ent(Make, 2, 4, 0, ok)
TxtOff(ok) == Ent(Make, 2, 6, 58, ok)
Maker == Ent(MakerNote, 7, 4, 0, FALSE)
Comment(ok) == Ent(UserComment, 7, 10, 64, ok)
Ptr(p) == Ent(ExifIFD, 4, 1, p, TRUE)
Width == Ent(\h0100, 3, 1, 0, TRUE)
SByte == Ent(\h0100, 6, 1, 0, TRUE)

Ifd0s == {<< TxtIn(TRUE), Ptr(40) >>, << Ptr(40), Comment(TRUE) >>,
          << TxtOff(FALSE) >>, << SByte, Maker >>, << Width, TxtIn(FALSE) >>,
          << Ptr(40), Ptr(40) >>, << Maker >>}
ExifIfds == {<< Comment(TRUE) >>, << TxtOff(TRUE), Ptr(8) >>, << Maker, Width >>}

Stream(len, flen, hdr, a, b) ==
  [len |-> len, flen |-> flen, hdr_ok |-> hdr, ifd0 |-> 8,
   ifds |-> (8 :> a) @@ (40 :> b)]

MC_Tiffs ==
  {Stream(len, flen, TRUE, a, b) :
     len \in {74, 30, 10}, flen \in {80, 60}, a \in Ifd0s, b \in ExifIfds}
  \cup {Stream(74, 80, FALSE, << Maker >>, << Maker >>)}
MC_W == 8
MC_MaxCalls == 2
====
