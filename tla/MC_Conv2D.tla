------------------------------ MODULE MC_Conv2D ------------------------------
(* Widths 1 to 9 and 33 (every count of lanes left over after the 32- and *)
(* 4-wide loops), one or two rows, and odd kernels that take each path:  *)
(* 3x3, the unrolled kernel_x = 3, 5 and 7 paths (with one and several   *)
(* unrolled rows), and the CONV macro with and without its 9-term loop.  *)
EXTENDS Conv2D

Sh(x, y, kx, ky) == [X |-> x, Y |-> y, kx |-> kx, ky |-> ky]
MC_Kernels == {<< 1, 1 >>, << 3, 3 >>, << 3, 1 >>, << 3, 5 >>, << 5, 3 >>,
               << 7, 1 >>, << 1, 3 >>, << 1, 9 >>, << 1, 11 >>}
MC_Shapes ==
  {Sh(x, y, k[1], k[2]) : x \in 1 .. 9, y \in 1 .. 2, k \in MC_Kernels}
  \cup {Sh(33, 1, k[1], k[2]) : k \in {<< 3, 3 >>, << 5, 3 >>, << 1, 3 >>}}
MC_Values == {0, 1}
=============================================================================
