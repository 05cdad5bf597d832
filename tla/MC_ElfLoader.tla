----------------------------- MODULE MC_ElfLoader -----------------------------
(* ElfLoader on 6-bit words with 8-byte pages and PHYS_BASE = 48: eight  *)
(* pages, the stack in page 5, pages 6 and 7 in the kernel.              *)
EXTENDS ElfLoader

MC_W == 6
MC_PGBITS == 3
MC_PHYS_BASE == 48
(* esp values: NULL, unmapped page 0, a segment page, the top word of the *)
(* stack, a word crossing PHYS_BASE, and the last word of the address space. *)
MC_UserPtrs == {0, 4, 8, 44, 46, 60}

Load(off, va, fsz, msz, w) ==
  [p_type |-> "PT_LOAD", p_offset |-> off, p_vaddr |-> va, p_filesz |-> fsz,
   p_memsz |-> msz, p_writable |-> w]

(* One PT_LOAD header with every p_vaddr and p_memsz of the word: every  *)
(* page offset, every end up to and past PHYS_BASE, every wrap.          *)
MC_WideImages ==
  {[hdr_ok |-> TRUE, phdrs |-> << Load(off, va, fsz, msz, TRUE) >>,
    readable |-> 1, length |-> 24] :
     off \in {3, 10, 30}, va \in 0 .. 63, fsz \in {0, 2, 9}, msz \in 0 .. 63}

(* Whole executables of up to two headers: a read-only three-page        *)
(* segment, a one-page writable one, one sharing a page with the first,  *)
(* one on the stack page, one in page 0, one whose file bytes run past  *)
(* EOF, an ignored and a rejected header; the header check may fail    *)
(* and the file may end before the last header.                         *)
Hdrs ==
  { Load(3, 11, 9, 20, FALSE), Load(16, 32, 2, 4, TRUE), Load(3, 27, 0, 5, TRUE),
    Load(3, 43, 2, 2, TRUE), Load(3, 3, 2, 2, TRUE), Load(18, 26, 9, 9, TRUE),
    [p_type |-> "PT_NULL", p_offset |-> 0, p_vaddr |-> 0, p_filesz |-> 0,
     p_memsz |-> 0, p_writable |-> FALSE],
    [p_type |-> "PT_DYNAMIC", p_offset |-> 0, p_vaddr |-> 0, p_filesz |-> 0,
     p_memsz |-> 0, p_writable |-> FALSE] }

MC_LoadImages ==
  {[hdr_ok |-> ok, phdrs |-> ph, readable |-> r, length |-> 24] :
     ok \in BOOLEAN, ph \in {<< >>} \cup {<< h >> : h \in Hdrs}
                            \cup {<< h1, h2 >> : h1, h2 \in Hdrs},
     r \in 0 .. 2}
(* Both sets: the load run checks every one of them. *)
MC_AllImages == MC_WideImages \cup MC_LoadImages
=============================================================================
