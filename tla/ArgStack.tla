------------------------------ MODULE ArgStack ------------------------------
(***************************************************************************)
(* The tail of start_process (src/pintos/userprog/process.c) after load   *)
(* has succeeded: the command line is split with strtok_r on " " and the  *)
(* argument strings, the alignment padding, argv[], argv, argc and the    *)
(* fake return address are pushed below the esp that setup_stack set to   *)
(* PHYS_BASE.  Every while loop of the code is one action per iteration.  *)
(*                                                                         *)
(* Memory is bytes: a character is its ASCII code, a pointer or an int is *)
(* stored as four little-endian bytes.  The stack page setup_stack maps  *)
(* is zeroed (PAL_ZERO); a write below it is recorded as it is made.      *)
(***************************************************************************)
EXTENDS Integers, Sequences, SequencesExt, TLC

CONSTANTS
  PHYS_BASE,   \* the top of user memory, where esp starts
  PGSIZE,      \* the stack page lies just below PHYS_BASE
  CmdLines     \* the command lines (sequences of character codes) to try

SP == 32       \* ' ', strtok_r's only delimiter

ASSUME PHYS_BASE % 4 = 0 /\ PGSIZE % 4 = 0 /\ PGSIZE <= PHYS_BASE

VARIABLES
  cmdline,     \* ls->file_name: the command line start_process was given
  esp,         \* if_.esp
  mem,         \* user memory: address -> byte, for the addresses written
  argv,        \* the local char *argv[]: slot -> user address, slots written
  argc,        \* argc
  tok,         \* strtok_r's save pointer, as the index of the next token
  index,       \* index, the loop counter of the pointer pushes
  argPc        \* which loop of start_process runs; "user" once done

argVars == << cmdline, esp, mem, argv, argc, tok, index, argPc >>

(* strtok_r (s, " ", &save) applied until it returns NULL: the maximal    *)
(* runs of non-space characters, in order.                                *)
RECURSIVE Tokens(_)
Tokens(s) ==
  IF s = << >> THEN << >>
  ELSE IF Head(s) = SP THEN Tokens(Tail(s))
  ELSE LET stop == SelectInSeq(s, LAMBDA ch : ch = SP)
           len == IF stop = 0 THEN Len(s) ELSE stop - 1
       IN << SubSeq(s, 1, len) >> \o Tokens(SubSeq(s, len + 1, Len(s)))

Toks == Tokens(cmdline)

(* A plausible slip: the array sized without the slot for the last of   *)
(* the most tokens a line of fn_len characters can hold.                  *)
ArgvSizeNoSlot == Len(cmdline) \div 2

(* char *argv[(fn_len/2) + 1]: the number of slots of the local array. *)
ArgvSize == Len(cmdline) \div 2 + 1

(* The four bytes of a 32-bit word, least significant first. *)
WordBytes(v) == [i \in 1 .. 4 |-> (v \div 2 ^ (8 * (i - 1))) % 256]

(* memcpy of the byte sequence BS to address A. *)
Store(m, a, bs) == [k \in a .. a + Len(bs) - 1 |-> bs[k - a + 1]] @@ m

ArgTypeOK ==
  /\ cmdline \in CmdLines
  /\ esp \in Nat /\ esp <= PHYS_BASE
  /\ mem \in [DOMAIN mem -> 0 .. 255]
  /\ argv \in [DOMAIN argv -> Nat] /\ DOMAIN argv \subseteq Nat
  /\ argc \in 1 .. Len(Toks)
  /\ tok \in 2 .. Len(Toks) + 1
  /\ index \in -1 .. Len(Toks)
  /\ argPc \in {"args", "align", "ptrs", "user"}

(* load has returned true with esp = PHYS_BASE over a zeroed stack page; *)
(* strtok_r has taken the program name and argc is 1.  A command line    *)
(* with no token leaves program_name NULL for load, and is not tried.    *)
ArgInit ==
  /\ cmdline \in CmdLines
  /\ esp = PHYS_BASE
  /\ mem = [a \in PHYS_BASE - PGSIZE .. PHYS_BASE - 1 |-> 0]
  /\ argv = << >>
  /\ argc = 1
  /\ tok = 2
  /\ index = -1
  /\ argPc = "args"

(* One iteration of "while (curr_tok)": copy the token and its NUL below  *)
(* esp and remember its address in argv[argc].                            *)
PushArg ==
  /\ argPc = "args" /\ tok <= Len(Toks)
  /\ LET s == Toks[tok] \o << 0 >> IN
       /\ esp' = esp - Len(s)
       /\ mem' = Store(mem, esp - Len(s), s)
       /\ argv' = (argc :> esp - Len(s)) @@ argv
  /\ argc' = argc + 1
  /\ tok' = tok + 1
  /\ UNCHANGED << cmdline, index, argPc >>

(* strtok_r returned NULL: copy the program name last, into argv[0]. *)
PushProgramName ==
  /\ argPc = "args" /\ tok > Len(Toks)
  /\ LET s == Toks[1] \o << 0 >> IN
       /\ esp' = esp - Len(s)
       /\ mem' = Store(mem, esp - Len(s), s)
       /\ argv' = (0 :> esp - Len(s)) @@ argv
  /\ argPc' = "align"
  /\ UNCHANGED << cmdline, argc, tok, index >>

(* One iteration of the word-alignment loop: a zero byte below esp. *)
Pad ==
  /\ argPc = "align" /\ esp % 4 # 0
  /\ esp' = esp - 1
  /\ mem' = (esp - 1 :> 0) @@ mem
  /\ UNCHANGED << cmdline, argv, argc, tok, index, argPc >>

(* A plausible slip: the pointer pushes start at argv[argc - 1], without  *)
(* the NULL sentinel argv[argc].                                          *)
AlignDoneNoSentinel ==
  /\ argPc = "align" /\ esp % 4 = 0
  /\ index' = argc - 1
  /\ argPc' = "ptrs"
  /\ UNCHANGED << cmdline, esp, mem, argv, argc, tok >>

(* esp is aligned: index = argc starts the pointer pushes. *)
AlignDone ==
  /\ argPc = "align" /\ esp % 4 = 0
  /\ index' = argc
  /\ argPc' = "ptrs"
  /\ UNCHANGED << cmdline, esp, mem, argv, argc, tok >>

(* One iteration of "while (index >= 0)": push NULL for index = argc,    *)
(* else argv[index].                                                      *)
PushPtr ==
  /\ argPc = "ptrs" /\ index >= 0
  /\ esp' = esp - 4
  /\ mem' = Store(mem, esp - 4,
                  WordBytes(IF index = argc THEN 0 ELSE argv[index]))
  /\ index' = index - 1
  /\ UNCHANGED << cmdline, argv, argc, tok, argPc >>

(* The loop is over: push stack_argv (the current esp), argc and the     *)
(* zero return address.  sema_down and intr_exit follow (ProcessLifecycle *)
(* models the semaphore).                                                 *)
PushFrame ==
  /\ argPc = "ptrs" /\ index < 0
  /\ esp' = esp - 12
  /\ mem' = Store(Store(Store(mem, esp - 4, WordBytes(esp)),
                        esp - 8, WordBytes(argc)),
                  esp - 12, WordBytes(0))
  /\ argPc' = "user"
  /\ UNCHANGED << cmdline, argv, argc, tok, index >>

ArgNext ==
  \/ PushArg \/ PushProgramName \/ Pad \/ AlignDone \/ PushPtr \/ PushFrame

ArgSpec == ArgInit /\ [][ArgNext]_argVars

-----------------------------------------------------------------------------
(* The word stored at A, or -1 if any of its bytes was never written. *)
WordAt(a) ==
  IF \A i \in 0 .. 3 : a + i \in DOMAIN mem
  THEN mem[a] + 256 * mem[a + 1] + 65536 * mem[a + 2] + 16777216 * mem[a + 3]
  ELSE -1

(* The NUL-terminated string a user program reads from A. *)
RECURSIVE StringAt(_)
StringAt(a) ==
  IF a \notin DOMAIN mem \/ mem[a] = 0 THEN << >>
  ELSE << mem[a] >> \o StringAt(a + 1)

(* At the jump to user mode the frame is the System V i386 one of spec    *)
(* section 4.2.1: esp is word aligned and holds a zero return address,    *)
(* esp+4 holds argc, the number of strtok_r tokens, esp+8 holds argv,     *)
(* which is esp+12, argv[i] is the address of a copy of the i-th token    *)
(* and argv[argc] is NULL.  Breaking it takes the token loop, the program *)
(* name, the padding and the reverse pointer loop to disagree.            *)
UserEntryFrame ==
  argPc = "user" =>
    LET n == Len(Toks) IN
    /\ esp % 4 = 0
    /\ WordAt(esp) = 0
    /\ WordAt(esp + 4) = n
    /\ WordAt(esp + 8) = esp + 12
    /\ \A i \in 0 .. n - 1 : StringAt(WordAt(esp + 12 + 4 * i)) = Toks[i + 1]
    /\ WordAt(esp + 12 + 4 * n) = 0

(* Every slot start_process writes in its local argv[] lies inside the    *)
(* variable-length array sized fn_len/2 + 1 before strtok_r runs: a line *)
(* of one-character tokens, like "a b c", fills it exactly.              *)
ArgvWithinArray == DOMAIN argv \subseteq 0 .. ArgvSize - 1

=============================================================================
