------------------------------ MODULE MC_FdTable ------------------------------
(* FdTable with a three-slot table and five struct file objects: one is   *)
(* the executable, and four are enough to fill the table, close and      *)
(* reuse a descriptor, fail a malloc with a handle to spare, and open a  *)
(* file at the cap.                                                      *)
EXTENDS FdTable, TLC

CONSTANTS h1, h2, h3, h4, h5

MC_MAX_FD == 3
MC_Handles == {h1, h2, h3, h4, h5}
MC_Symmetry == Permutations(MC_Handles)

(* A 64-byte stack page below PHYS_BASE = 1024 (word aligned, like the    *)
(* real 0xc0000000).  The command lines: every one over "a" and " " of up *)
(* to five characters with a token (every padding of 0 to 3 bytes,        *)
(* leading, trailing and repeated spaces, up to three tokens), four with  *)
(* distinct tokens, and "a a a a", whose four tokens fill argv[] exactly. *)
MC_PHYS_BASE == 1024
MC_PGSIZE == 64
MC_CmdLines ==
  {s \in UNION {[1 .. n -> {97, 32}] : n \in 1 .. 5} : Tokens(s) # << >>}
    \cup {<< 97, 32, 98 >>, << 98, 98, 32, 97 >>, << 97, 32, 98, 32, 97, 97 >>,
          << 97, 98, 32, 32, 98 >>, << 97, 32, 97, 32, 97, 32, 97 >>}
=============================================================================
