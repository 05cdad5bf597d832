------------------------------ MODULE ElfLoader ------------------------------
(***************************************************************************)
(* load () of src/pintos/userprog/process.c: the ELF header check, the     *)
(* program-header loop, validate_segment, load_segment's page loop,        *)
(* setup_stack and install_page, in the address arithmetic of the code    *)
(* on W-bit words (uint32_t is W = 32; the model scales the word, the page *)
(* and PHYS_BASE down together).                                           *)
(*                                                                         *)
(* The executable is an Image: whether its ELF header passes the checks,   *)
(* its program headers, how many of them can be read before EOF or a bad  *)
(* e_phoff, and the file length.  A file byte is named by its offset, and  *)
(* a mapped user page records the file offset its read started at, how    *)
(* many bytes it read, and whether it is writable.                         *)
(***************************************************************************)
EXTENDS Integers, Sequences, FiniteSets

CONSTANTS
  W,          \* bits in a word (Elf32_Word, uint32_t)
  PGBITS,     \* bits of the page offset
  PHYS_BASE,  \* first kernel virtual address
  Images,     \* the executables load may be given
  UserPtrs,   \* user stack pointers a system call may trap with
  NULL        \* no mapping

Word(x) == x % (2 ^ W)
PGSIZE == 2 ^ PGBITS
NPages == (2 ^ W) \div PGSIZE
PageNo(a) == a \div PGSIZE
PageOfs(a) == a % PGSIZE                   \* a & PGMASK
PageBase(a) == a - PageOfs(a)              \* a & ~PGMASK
(* ROUND_UP (X, PGSIZE) on unsigned words. *)
RoundUp(x) == Word((Word(x + PGSIZE - 1) \div PGSIZE) * PGSIZE)
(* is_user_vaddr (threads/vaddr.h). *)
IsUserVaddr(a) == a < PHYS_BASE

(* p_type: PT_NULL stands for every ignored type (PT_NOTE, PT_PHDR,      *)
(* PT_STACK, unknown), PT_DYNAMIC for every rejected one (PT_INTERP,      *)
(* PT_SHLIB).                                                             *)
PTypes == {"PT_NULL", "PT_LOAD", "PT_DYNAMIC"}

ZERO == -1                                 \* a byte memset to zero
Page == [fofs : Int, nread : 0 .. PGSIZE, writable : BOOLEAN]
Pcs == {"start", "phdr", "segment", "stack", "done", "panic"}

VARIABLES
  pc,         \* where load is
  image,      \* the executable being loaded
  i,          \* the program-header index
  read_bytes, zero_bytes, upage, fpos, writable,   \* load_segment's state
  pages,      \* t->pagedir: page number -> Page or NULL (no mapping)
  success,    \* load's result
  uptr,       \* the first system call's esp and what valid_user_addr made of it
  file,       \* load's local file: "exe" once filesys_open succeeded, else NULL
  executable, \* t->executable
  denied      \* file_deny_write has been called on the executable

fileVars == << file, executable, denied >>
vars == << pc, image, i, read_bytes, zero_bytes, upage, fpos, writable,
           pages, success, uptr, file, executable, denied >>

PtrResults == {"valid", "invalid", "panic"}

TypeOK ==
  /\ pc \in Pcs
  /\ image \in Images
  /\ i \in 0 .. Len(image.phdrs)
  /\ read_bytes \in 0 .. 2 ^ W - 1 /\ zero_bytes \in 0 .. 2 ^ W - 1
  /\ upage \in 0 .. 2 ^ W - 1 /\ fpos \in 0 .. image.length
  /\ writable \in BOOLEAN
  /\ pages \in [0 .. NPages - 1 -> Page \cup {NULL}]
  /\ success \in BOOLEAN
  /\ uptr \in {NULL} \cup [addr : UserPtrs, result : PtrResults]
  /\ file \in {NULL, "exe"} /\ executable \in {NULL, "exe"}
  /\ denied \in BOOLEAN

Init ==
  /\ pc = "start"
  /\ image \in Images
  /\ i = 0
  /\ read_bytes = 0 /\ zero_bytes = 0 /\ upage = 0 /\ fpos = 0
  /\ writable = FALSE
  /\ pages = [n \in 0 .. NPages - 1 |-> NULL]
  /\ success = FALSE
  /\ uptr = NULL
  /\ file = NULL /\ executable = NULL /\ denied = FALSE

(* The mutant of ValidateSegment without the wrap-around check. *)
ValidateSegmentNoWrap(ph, length) ==
  /\ PageOfs(ph.p_offset) = PageOfs(ph.p_vaddr)
  /\ ph.p_offset <= length
  /\ ph.p_memsz >= ph.p_filesz
  /\ ph.p_memsz # 0
  /\ IsUserVaddr(ph.p_vaddr)
  /\ IsUserVaddr(Word(ph.p_vaddr + ph.p_memsz))
  /\ ph.p_vaddr >= PGSIZE

(* The mutant of ValidateSegment that allows page 0. *)
ValidateSegmentPageZero(ph, length) ==
  /\ PageOfs(ph.p_offset) = PageOfs(ph.p_vaddr)
  /\ ph.p_offset <= length
  /\ ph.p_memsz >= ph.p_filesz
  /\ ph.p_memsz # 0
  /\ IsUserVaddr(ph.p_vaddr)
  /\ IsUserVaddr(Word(ph.p_vaddr + ph.p_memsz))
  /\ Word(ph.p_vaddr + ph.p_memsz) >= ph.p_vaddr

(* validate_segment: the early returns of the code, in its order. *)
ValidateSegment(ph, length) ==
  /\ PageOfs(ph.p_offset) = PageOfs(ph.p_vaddr)
  /\ ph.p_offset <= length
  /\ ph.p_memsz >= ph.p_filesz
  /\ ph.p_memsz # 0
  /\ IsUserVaddr(ph.p_vaddr)
  /\ IsUserVaddr(Word(ph.p_vaddr + ph.p_memsz))
  /\ Word(ph.p_vaddr + ph.p_memsz) >= ph.p_vaddr
  /\ ph.p_vaddr >= PGSIZE

(* The spec's segment validation rules, on unbounded integers. *)
SpecSegmentOk(ph, length) ==
  /\ PageOfs(ph.p_offset) = PageOfs(ph.p_vaddr)
  /\ ph.p_offset <= length
  /\ ph.p_memsz >= ph.p_filesz /\ ph.p_memsz > 0
  /\ ph.p_vaddr < PHYS_BASE /\ ph.p_vaddr + ph.p_memsz < PHYS_BASE
  /\ ph.p_vaddr >= PGSIZE

Fail == /\ pc' = "done" /\ success' = FALSE

(* load up to the program headers: pagedir_create or filesys_open may    *)
(* fail ("goto done" with file NULL); otherwise the file goes on         *)
(* t->executable and is write-denied, then the ELF header is read and    *)
(* checked ("error loading executable" leaves it there).                 *)
LoadStart ==
  /\ pc = "start"
  /\ \/ Fail /\ UNCHANGED fileVars
     \/ /\ file' = "exe" /\ executable' = "exe" /\ denied' = TRUE
        /\ IF image.hdr_ok THEN pc' = "phdr" /\ UNCHANGED success ELSE Fail
  /\ UNCHANGED << image, uptr, i, read_bytes, zero_bytes, upage, fpos, writable,
                  pages >>

(* The mutant of ReadBytes that drops the page offset. *)
ReadBytesNoOffset(ph) == IF ph.p_filesz > 0 THEN ph.p_filesz ELSE 0

(* read_bytes of a PT_LOAD segment: the page offset plus p_filesz, or 0  *)
(* for an all-zero segment.                                              *)
ReadBytes(ph) ==
  IF ph.p_filesz > 0 THEN Word(PageOfs(ph.p_vaddr) + ph.p_filesz) ELSE 0

(* The mutant of ZeroBytes that does not subtract read_bytes. *)
ZeroBytesUnadjusted(ph) == RoundUp(Word(PageOfs(ph.p_vaddr) + ph.p_memsz))

(* zero_bytes: the rest of the span rounded up to whole pages. *)
ZeroBytes(ph) ==
  Word(RoundUp(Word(PageOfs(ph.p_vaddr) + ph.p_memsz)) - ReadBytes(ph))

(* One iteration of load's program-header loop: past the last header, go *)
(* on to setup_stack; a header that cannot be read ends the load; an     *)
(* ignored type is skipped, a rejected one ends the load; a PT_LOAD      *)
(* header is validated and its page range computed for load_segment,     *)
(* whose ASSERTs panic the kernel if they fail.                          *)
ReadPhdr ==
  /\ pc = "phdr"
  /\ IF i = Len(image.phdrs) THEN pc' = "stack" /\ UNCHANGED success
     ELSE IF i >= image.readable THEN Fail
     ELSE LET ph == image.phdrs[i + 1] IN
          CASE ph.p_type = "PT_NULL" -> pc' = "phdr" /\ UNCHANGED success
            [] ph.p_type = "PT_DYNAMIC" -> Fail
            [] ph.p_type = "PT_LOAD" ->
                 IF ~ValidateSegment(ph, image.length) THEN Fail
                 ELSE LET rb == ReadBytes(ph)
                          zb == ZeroBytes(ph)
                      IN /\ read_bytes' = rb
                         /\ zero_bytes' = zb
                         /\ upage' = PageBase(ph.p_vaddr)
                         /\ fpos' = PageBase(ph.p_offset)
                         /\ writable' = ph.p_writable
                         /\ pc' = IF Word(rb + zb) % PGSIZE = 0 THEN "segment"
                                  ELSE "panic"
                         /\ UNCHANGED success
  /\ i' = IF pc' = "phdr" THEN i + 1 ELSE i
  /\ UNCHANGED << image, uptr, pages >>
  /\ UNCHANGED fileVars
  /\ pc' \notin {"segment", "panic"} =>
       UNCHANGED << read_bytes, zero_bytes, upage, fpos,
                  writable >>

(* install_page succeeds: page N is not yet mapped, and MEM_OK says that *)
(* palloc_get_page and pagedir_set_page found memory.                   *)
CanInstall(n, mem_ok) == mem_ok /\ pages[n] = NULL

(* The mutant of LoadSegmentPage that ignores file_read's short count. *)
LoadSegmentPageNoShortRead ==
  /\ pc = "segment"
  /\ IF read_bytes = 0 /\ zero_bytes = 0
     THEN /\ pc' = "phdr" /\ i' = i + 1
          /\ UNCHANGED << read_bytes, zero_bytes, upage, fpos, pages, success >>
     ELSE LET prb == IF read_bytes < PGSIZE THEN read_bytes ELSE PGSIZE
              pzb == PGSIZE - prb
              pg == [fofs |-> fpos, nread |-> prb, writable |-> writable]
          IN \E mem_ok \in BOOLEAN :
               IF CanInstall(PageNo(upage), mem_ok)
               THEN /\ pages' = [pages EXCEPT ![PageNo(upage)] = pg]
                    /\ read_bytes' = Word(read_bytes - prb)
                    /\ zero_bytes' = Word(zero_bytes - pzb)
                    /\ upage' = Word(upage + PGSIZE)
                    /\ fpos' = fpos + prb
                    /\ UNCHANGED << pc, i, success >>
               ELSE /\ Fail
                    /\ UNCHANGED << i, read_bytes, zero_bytes, upage, fpos, pages >>
  /\ UNCHANGED << image, uptr, writable >> /\ UNCHANGED fileVars

(* One iteration of load_segment's page loop, or its return once every   *)
(* byte is placed: palloc_get_page, file_read of page_read_bytes (short  *)
(* past EOF), memset, install_page; any failure ends the load.           *)
LoadSegmentPage ==
  /\ pc = "segment"
  /\ IF read_bytes = 0 /\ zero_bytes = 0
     THEN /\ pc' = "phdr" /\ i' = i + 1
          /\ UNCHANGED << read_bytes, zero_bytes, upage, fpos, pages, success >>
     ELSE LET prb == IF read_bytes < PGSIZE THEN read_bytes ELSE PGSIZE
              pzb == PGSIZE - prb
              pg == [fofs |-> fpos, nread |-> prb, writable |-> writable]
          IN \E mem_ok \in BOOLEAN :
               IF fpos + prb <= image.length /\ CanInstall(PageNo(upage), mem_ok)
               THEN /\ pages' = [pages EXCEPT ![PageNo(upage)] = pg]
                    /\ read_bytes' = Word(read_bytes - prb)
                    /\ zero_bytes' = Word(zero_bytes - pzb)
                    /\ upage' = Word(upage + PGSIZE)
                    /\ fpos' = fpos + prb
                    /\ UNCHANGED << pc, i, success >>
               ELSE /\ Fail
                    /\ UNCHANGED << i, read_bytes, zero_bytes, upage, fpos, pages >>
  /\ UNCHANGED << image, uptr, writable >> /\ UNCHANGED fileVars

(* setup_stack: a zeroed, writable page just below PHYS_BASE; on success *)
(* load returns true.                                                    *)
SetupStack ==
  /\ pc = "stack"
  /\ \E mem_ok \in BOOLEAN :
       IF CanInstall(PageNo(PHYS_BASE - PGSIZE), mem_ok)
       THEN /\ pages' = [pages EXCEPT ![PageNo(PHYS_BASE - PGSIZE)] =
                           [fofs |-> 0, nread |-> 0, writable |-> TRUE]]
            /\ pc' = "done" /\ success' = TRUE
       ELSE Fail /\ UNCHANGED pages
  /\ UNCHANGED << image, uptr, i, read_bytes, zero_bytes, upage, fpos, writable >>
  /\ UNCHANGED fileVars

(* pagedir_get_page (userprog/pagedir.c, not under src/): the kernel page *)
(* behind a user address, or NULL.  For a kernel address pintos's version *)
(* panics in ASSERT (is_user_vaddr (uaddr)); a build without the ASSERT    *)
(* finds the kernel's own mapping, present in every page directory.       *)
PagedirGetPage(a) ==
  IF IsUserVaddr(a) THEN {IF pages[PageNo(a)] = NULL THEN "invalid" ELSE "valid"}
  ELSE {"panic", "valid"}

(* The test uaddr + 1 > PHYS_BASE on W-bit pointers (uaddr + 1 is four   *)
(* bytes on).  Pointer overflow is undefined: the build either computes  *)
(* the wrapped sum (WRAPS) or folds the test to uaddr > PHYS_BASE - 4.    *)
PastPhysBase(a, wraps) ==
  IF wraps THEN Word(a + 4) > PHYS_BASE ELSE a + 4 > PHYS_BASE

(* valid_user_addr: what it can make of the word pointer A. *)
ValidUserAddr(a, wraps) ==
  IF a = 0 \/ PastPhysBase(a, wraps) THEN {"invalid"} ELSE PagedirGetPage(a)

(* syscall_handler's first check, on the esp of the first trap of the     *)
(* process load has built.                                                *)
SyscallEntry ==
  /\ pc = "done" /\ success /\ uptr = NULL
  /\ \E a \in UserPtrs, wraps \in BOOLEAN :
       \E r \in ValidUserAddr(a, wraps) : uptr' = [addr |-> a, result |-> r]
  /\ UNCHANGED << pc, image, i, read_bytes, zero_bytes, upage, fpos, writable,
                  pages, success >>
  /\ UNCHANGED fileVars

(* load has returned (or the kernel has panicked); nothing changes. *)
Terminated == pc \in {"done", "panic"} /\ UNCHANGED vars

Next == LoadStart \/ ReadPhdr \/ LoadSegmentPage \/ SetupStack \/ SyscallEntry
        \/ Terminated

(* load runs on its own thread, which the round-robin scheduler keeps     *)
(* running.                                                               *)
Spec == Init /\ [][Next]_vars /\ WF_vars(LoadStart \/ ReadPhdr \/ LoadSegmentPage \/ SetupStack)

-----------------------------------------------------------------------------
(* What user byte A holds after load: NULL if unmapped, else the offset  *)
(* of the file byte read into it, or ZERO.                               *)
Content(a) ==
  LET pg == pages[PageNo(a)] IN
  IF pg = NULL THEN NULL
  ELSE IF PageOfs(a) < pg.nread THEN pg.fofs + PageOfs(a) ELSE ZERO

(* What the ELF format says byte A of segment PH holds. *)
Expected(ph, a) ==
  IF a - ph.p_vaddr < ph.p_filesz THEN ph.p_offset + (a - ph.p_vaddr) ELSE ZERO

LoadSegments == {k \in 1 .. Len(image.phdrs) : image.phdrs[k].p_type = "PT_LOAD"}

(* validate_segment, on W-bit words with the code's order of checks,     *)
(* accepts a program header exactly when the spec's rules on unbounded   *)
(* integers hold: wrap-around of p_vaddr + p_memsz never lets a segment  *)
(* through.                                                              *)
SegmentCheckMatchesSpec ==
  \A k \in LoadSegments :
    ValidateSegment(image.phdrs[k], image.length)
      <=> SpecSegmentOk(image.phdrs[k], image.length)

(* When load returns true, every byte of every PT_LOAD segment holds the *)
(* file byte at p_offset + (a - p_vaddr) up to p_filesz and zero after,  *)
(* on a page whose write permission is p_flags & PF_W, and the stack     *)
(* page below PHYS_BASE is mapped, zeroed and writable: the page        *)
(* arithmetic of load and the loop of load_segment agree with the ELF    *)
(* layout.                                                               *)
LoadedImageCorrect ==
  pc = "done" /\ success =>
    /\ \A k \in LoadSegments :
         LET ph == image.phdrs[k] IN
         \A a \in ph.p_vaddr .. ph.p_vaddr + ph.p_memsz - 1 :
           /\ Content(a) = Expected(ph, a)
           /\ pages[PageNo(a)].writable = ph.p_writable
    /\ pages[PageNo(PHYS_BASE - 1)] = [fofs |-> 0, nread |-> 0, writable |-> TRUE]

(* load never maps page 0 or a page at or above PHYS_BASE, whatever the  *)
(* executable says and however far along a failed load got.              *)
MappingsInUserSpace ==
  \A n \in 0 .. NPages - 1 :
    pages[n] # NULL => n >= 1 /\ (n + 1) * PGSIZE <= PHYS_BASE

(* load always returns (the program-header and page loops end and no    *)
(* ASSERT in load_segment panics the kernel).                            *)
LoadReturns == <>(pc = "done")

(* The spec's pointer validation: p is not NULL, p + 4 <= PHYS_BASE, and  *)
(* the page holding p is mapped.                                          *)
SpecValidAddr(a) == a # 0 /\ a + 4 <= PHYS_BASE /\ pages[PageNo(a)] # NULL

(* The dispatcher's check of a user pointer returns, and accepts exactly  *)
(* the pointers the spec's rule accepts: no esp a user program can set    *)
(* panics the kernel or passes a kernel address to a handler.             *)
PointerCheckMatchesSpec ==
  uptr # NULL =>
    /\ uptr.result # "panic"
    /\ (uptr.result = "valid" <=> SpecValidAddr(uptr.addr))

=============================================================================
