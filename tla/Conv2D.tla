------------------------------- MODULE Conv2D -------------------------------
(***************************************************************************)
(* conv2D (src/fast-image-convolution/extra.c): pad the input with zeros, *)
(* flip the kernel, then convolve each row with four-lane SIMD stores and  *)
(* a scalar tail.  Three code paths share this shape: the 3x3 path, the    *)
(* unrolled paths for kernel_x in 3, 5, ..., 19, and the CONV macro for    *)
(* every other kernel.  They differ in how they walk the kernel taps.      *)
(*                                                                         *)
(* Floats are integers here: rounding is not modelled, only the index      *)
(* arithmetic.  The OpenMP row loop gives each row to some thread, so the  *)
(* rows are separate actions in any order.  malloc'd memory and reads past *)
(* the buffer hold JUNK, one value drawn per call.                         *)
(***************************************************************************)
EXTENDS Integers, Sequences, SequencesExt, Functions, FiniteSets

CONSTANTS
  Shapes,      \* the calls: records [X, Y, kx, ky] (data_size_X/Y, kernel_x/y)
  Values       \* the values an input cell or a kernel tap can hold

VARIABLES
  shape,       \* the call's sizes
  in,          \* in[]: X*Y cells, row-major
  kernel,      \* kernel[]: kx*ky taps, row-major
  junk,        \* what uninitialised memory holds
  padded,      \* padded_in[] once the padding loops have run
  kflip,       \* kern_flipped[] (each thread's kern_local is a copy)
  out,         \* out[]: X*Y cells
  rowsDone,    \* the rows whose convolution has finished
  stores,      \* every store to out, as << row, index >>
  pc           \* "pad" before the padding loops, "rows" after

vars == << shape, in, kernel, junk, padded, kflip, out, rowsDone, stores, pc >>

Cells(s) == 0 .. s.X * s.Y - 1
Size(s) == s.kx * s.ky                                \* kernel_size
Cent(k) == (k - 1) \div 2                             \* kern_cent_X/Y
PadX(s) == (s.kx - 1) + s.X                           \* padded_x
PadY(s) == (s.ky - 1) + s.Y                           \* padded_y

(* "for (; x < bound; x += w)" from x: the values the loop body sees, *)
(* and the value x has when the loop exits.                           *)
RECURSIVE LoopXs(_, _, _), LoopEnd(_, _, _)
LoopXs(x, w, bound) == IF x < bound THEN {x} \cup LoopXs(x + w, w, bound) ELSE {}
LoopEnd(x, w, bound) == IF x < bound THEN LoopEnd(x + w, w, bound) ELSE x

(* The columns of a row the fill loops copy: 32 at a time (eight        *)
(* _mm_storeu_ps), then 4 at a time, then one at a time.                *)
FillCols(n) ==
  LET e32 == LoopEnd(0, 32, n - 31)
      e4 == LoopEnd(e32, 4, n - 3)
  IN UNION {x .. x + 31 : x \in LoopXs(0, 32, n - 31)}
     \cup UNION {x .. x + 3 : x \in LoopXs(e32, 4, n - 3)}
     \cup LoopXs(e4, 1, n)

(* The mutant of Padding whose right-edge loop starts one column late. *)
PaddingRightLate(s, inp, jnk) ==
  LET px == PadX(s)  cx == Cent(s.kx)  cy == Cent(s.ky)
      top == 0 .. px * cy - 1
      left == {(y + cy) * px + x : y \in 0 .. s.Y - 1, x \in 0 .. cx - 1}
      fill == [d \in {(y + cy) * px + cx + x : y \in 0 .. s.Y - 1,
                                               x \in FillCols(s.X)} |->
                 inp[((d \div px) - cy) * s.X + (d % px) - cx]]
      right == {(y + cy) * px + x : y \in 0 .. s.Y - 1,
                                    x \in s.X + cx + 1 .. px - 1}
      bottom == px * (cy + s.Y) .. px * PadY(s) - 1
  IN [i \in 0 .. px * PadY(s) - 1 |->
        IF i \in bottom \cup right THEN 0
        ELSE IF i \in DOMAIN fill THEN fill[i]
        ELSE IF i \in left \cup top THEN 0
        ELSE jnk]

(* The padding loops: top rows, then per row the left edge, the data and *)
(* the right edge, then the bottom rows, into a buffer of JUNK.          *)
Padding(s, inp, jnk) ==
  LET px == PadX(s)  cx == Cent(s.kx)  cy == Cent(s.ky)
      top == 0 .. px * cy - 1
      left == {(y + cy) * px + x : y \in 0 .. s.Y - 1, x \in 0 .. cx - 1}
      fill == [d \in {(y + cy) * px + cx + x : y \in 0 .. s.Y - 1,
                                               x \in FillCols(s.X)} |->
                 inp[((d \div px) - cy) * s.X + (d % px) - cx]]
      right == {(y + cy) * px + x : y \in 0 .. s.Y - 1, x \in s.X + cx .. px - 1}
      bottom == px * (cy + s.Y) .. px * PadY(s) - 1
  IN [i \in 0 .. px * PadY(s) - 1 |->
        IF i \in bottom \cup right THEN 0
        ELSE IF i \in DOMAIN fill THEN fill[i]
        ELSE IF i \in left \cup top THEN 0
        ELSE jnk]

(* The three copies of the padding code: the 3x3 path's, the one every  *)
(* other path runs first, and the CONV macro's own buffer.              *)
Pad3x3(s, inp, jnk) == Padding(s, inp, jnk)
PadOuter(s, inp, jnk) == Padding(s, inp, jnk)
PadMacro(s, inp, jnk) == Padding(s, inp, jnk)

(* The mutant of Flip whose loop stops at kern_uf < kernel_size - 1. *)
FlipShort(k, n) == [t \in 0 .. n - 2 |-> k[n - 1 - t]]

(* kern_flipped[kern_uf] = kernel[kernel_size - 1 - kern_uf]. *)
Flip(k, n) == [t \in 0 .. n - 1 |-> k[n - 1 - t]]

(* A tap of the kernel walk: kern_local[t] times padded_in at column     *)
(* offset dx and row offset dy.                                          *)
Tap(t, dx, dy) == [t |-> t, dx |-> dx, dy |-> dy]

(* The scalar walk "for (i = 0; i < kernel_size; i++)" at              *)
(* (x + i % kx) + padded_x * (y + i / kx), also every path's tail.     *)
TailTaps(from, kx, n) ==
  [k \in 1 .. n - from |-> Tap(from + k - 1, (from + k - 1) % kx,
                                (from + k - 1) \div kx)]

(* The 3x3 path's nine unrolled SIMD terms. *)
Taps3x3 == TailTaps(0, 3, 9)

(* The paths for kernel_x = 3, 5, ..., 19: one unrolled kernel row per *)
(* iteration "for (i = 0; i < kernel_size - kx - 1; i += kx)", term j  *)
(* at (x + j) + padded_x * (y + temp), then the remaining taps.        *)
UnrolledTaps(kx, n) ==
  LET rows == SetToSortSeq(LoopXs(0, kx, n - kx - 1), <)
      temp(r) == r - 1          \* temp counts the iterations
  IN FoldLeft(LAMBDA acc, r : acc \o [j \in 1 .. kx |->
                Tap(rows[r] + j - 1, j - 1, temp(r))],
              << >>, [r \in 1 .. Len(rows) |-> r])
     \o TailTaps(LoopEnd(0, kx, n - kx - 1), kx, n)

(* The CONV macro: nine terms per iteration "for (i = 0; i <           *)
(* kernel_size - 8; i += 9)", term j at (x + (i + j) % kx) +           *)
(* padded_x * (y + (i + j) / kx), then the remaining taps.             *)
MacroTaps(kx, n) ==
  LET starts == SetToSortSeq(LoopXs(0, 9, n - 8), <)
  IN FoldLeft(LAMBDA acc, i : acc \o TailTaps(i, kx, i + 9),
              << >>, starts)
     \o TailTaps(LoopEnd(0, 9, n - 8), kx, n)

(* The SIMD walk of the path conv2D takes for this kernel. *)
SimdTaps(s) ==
  CASE s.kx = 3 /\ s.ky = 3 -> Taps3x3
    [] s.kx \in {3, 5, 7, 9, 11, 13, 15, 17, 19} -> UnrolledTaps(s.kx, Size(s))
    [] OTHER -> MacroTaps(s.kx, Size(s))

(* padded_in[i], or junk for a read past the buffer. *)
PaddedAt(i) == IF i \in DOMAIN padded THEN padded[i] ELSE junk

(* The sum of kern_local[t] * padded_in[...] over TAPS for column c of  *)
(* row y.                                                                *)
Acc(taps, c, y) ==
  FoldLeft(LAMBDA a, tp : a + kflip[tp.t]
                            * PaddedAt((c + tp.dx) + PadX(shape) * (y + tp.dy)),
           0, taps)


(* Inputs with exactly one nonzero cell, of value v. *)
Impulses(D) == {[i \in D |-> IF i = j THEN v ELSE 0] : j \in D, v \in Values \ {0}}

TypeOK ==
  /\ shape \in Shapes
  /\ in \in [Cells(shape) -> Int]
  /\ kernel \in [0 .. Size(shape) - 1 -> Int]
  /\ junk \in Values
  /\ pc \in {"pad", "rows"}
  /\ pc = "rows" => padded \in [0 .. PadX(shape) * PadY(shape) - 1 -> Int]
                    /\ kflip \in [0 .. Size(shape) - 1 -> Int]
  /\ out \in [Cells(shape) -> Int]
  /\ rowsDone \subseteq 0 .. shape.Y - 1
  /\ stores \subseteq (0 .. shape.Y - 1) \X Int

(* A call: the caller passes an input and a kernel, and out zeroed (the  *)
(* scalar tail adds to out).  Impulse inputs and kernels suffice: both   *)
(* the code and the reference are linear in each.                        *)
Init ==
  /\ shape \in Shapes
  /\ in \in Impulses(Cells(shape))
  /\ kernel \in Impulses(0 .. Size(shape) - 1)
  /\ junk \in Values
  /\ padded = << >>
  /\ kflip = << >>
  /\ out = [i \in Cells(shape) |-> 0]
  /\ rowsDone = {}
  /\ stores = {}
  /\ pc = "pad"

(* Everything before the parallel convolution loop: malloc and pad the  *)
(* buffer of the path taken, and flip the kernel.                        *)
PadAndFlip ==
  /\ pc = "pad"
  /\ padded' = CASE shape.kx = 3 /\ shape.ky = 3 -> Pad3x3(shape, in, junk)
                 [] shape.kx \in {3, 5, 7, 9, 11, 13, 15, 17, 19} ->
                      PadOuter(shape, in, junk)
                 [] OTHER -> PadMacro(shape, in, junk)
  /\ kflip' = Flip(kernel, Size(shape))
  /\ pc' = "rows"
  /\ UNCHANGED << shape, in, kernel, junk, out, rowsDone, stores >>

(* The mutant of ConvolveRow whose SIMD loop runs while              *)
(* x < data_size_X - 2, one lane group too far.                       *)
ConvolveRowWide(y) ==
  /\ pc = "rows" /\ y \notin rowsDone
  /\ LET X == shape.X
         simd == {x + l : x \in LoopXs(0, 4, X - 2), l \in 0 .. 3}
         tail == LoopEnd(0, 4, X - 2) .. X - 1
         tt == TailTaps(0, shape.kx, Size(shape))
     IN /\ out' = [i \in Cells(shape) |->
                     IF i - y * X \in simd THEN Acc(SimdTaps(shape), i - y * X, y)
                     ELSE IF i - y * X \in tail THEN out[i] + Acc(tt, i - y * X, y)
                     ELSE out[i]]
        /\ stores' = stores \cup {<< y, c + y * X >> : c \in simd \cup tail}
  /\ rowsDone' = rowsDone \cup {y}
  /\ UNCHANGED << shape, in, kernel, junk, padded, kflip, pc >>

(* One iteration of the parallel "for (y = 0; y < data_size_Y; y++)":  *)
(* four-lane stores for x = 0, 4, ... while x < data_size_X - 3, each  *)
(* result computed from zero; then the scalar tail adds each column's  *)
(* sum to out[x + y * data_size_X].                                     *)
ConvolveRow(y) ==
  /\ pc = "rows" /\ y \notin rowsDone
  /\ LET X == shape.X
         simd == {x + l : x \in LoopXs(0, 4, X - 3), l \in 0 .. 3}
         tail == LoopEnd(0, 4, X - 3) .. X - 1
         tt == TailTaps(0, shape.kx, Size(shape))
     IN /\ out' = [i \in Cells(shape) |->
                     IF i - y * X \in simd THEN Acc(SimdTaps(shape), i - y * X, y)
                     ELSE IF i - y * X \in tail THEN out[i] + Acc(tt, i - y * X, y)
                     ELSE out[i]]
        /\ stores' = stores \cup {<< y, c + y * X >> : c \in simd \cup tail}
  /\ rowsDone' = rowsDone \cup {y}
  /\ UNCHANGED << shape, in, kernel, junk, padded, kflip, pc >>

(* conv2D has returned 1; the caller looks at out. *)
Returned == rowsDone = 0 .. shape.Y - 1 /\ pc = "rows" /\ UNCHANGED vars

Next ==
  \/ PadAndFlip
  \/ \E y \in 0 .. shape.Y - 1 : ConvolveRow(y)
  \/ Returned

Spec == Init /\ [][Next]_vars

-----------------------------------------------------------------------------
(* The textbook convolution of an odd kernel centred on each cell, with *)
(* zeros outside the image.                                              *)
InAt(s, x, y) == IF x \in 0 .. s.X - 1 /\ y \in 0 .. s.Y - 1 THEN in[x + y * s.X] ELSE 0
Reference(s) ==
  [c \in Cells(s) |->
     LET x == c % s.X  y == c \div s.X IN
     SumFunction([p \in (0 .. s.kx - 1) \X (0 .. s.ky - 1) |->
       kernel[p[1] + p[2] * s.kx]
       * InAt(s, x + Cent(s.kx) - p[1], y + Cent(s.ky) - p[2])])]

(* Once every row is done, out is the convolution of in with kernel,    *)
(* whichever path conv2D took (3x3, unrolled kernel_x, CONV macro),     *)
(* whatever the width modulo 32 and 4, and whichever rows the threads   *)
(* ran first: the padding covers the buffer, the flip and every tap     *)
(* walk are right, and no lane reads junk.                               *)
ConvMatchesReference ==
  rowsDone = 0 .. shape.Y - 1 => out = Reference(shape)

(* Every store of the row loop lands in the row its iteration owns, so   *)
(* the OpenMP threads never write the same cell and never write past     *)
(* out: the four-lane stores stop before the row's end.                  *)
RowStoresOwnRow ==
  \A st \in stores : st[2] \in st[1] * shape.X .. st[1] * shape.X + shape.X - 1

=============================================================================
