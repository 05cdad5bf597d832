------------------------------- MODULE FdTable -------------------------------
(***************************************************************************)
(* One process's file-descriptor table and the system calls that use it    *)
(* (src/pintos/userprog/syscall.c), with process_exit's teardown of the  *)
(* executable, the page directory and the descriptors (process.c).       *)
(* Before it, start_process pushes the arguments (ArgStack).               *)
(* process_exit runs in steps, and the timer interrupt may switch threads *)
(* between any two of them: switching back runs process_activate.         *)
(*                                                                         *)
(* A struct descriptor is identified by its fd, which never changes once  *)
(* assigned.  descriptors[k] holds the descriptor with fd k+2 or NULL;    *)
(* closed descriptors wait on free_fd to be reused.  Only the owning      *)
(* thread touches these, so every handler is one step.  The file system   *)
(* is abstract: filesys_open yields a fresh struct file or NULL.           *)
(***************************************************************************)
EXTENDS Integers, Sequences, SequencesExt, FiniteSets, ArgStack

CONSTANTS
  MAX_FD,     \* thread.h: size of descriptors[]
  Handles,    \* the struct file objects filesys_open can return
  NULL,
  STALE       \* f->eax left as it was at the trap

ASSUME MAX_FD \in Nat \ {0}

Slots == 0 .. MAX_FD - 1
FdIds == 2 .. MAX_FD + 1            \* the ids the table can hold
FdArgs == -1 .. MAX_FD + 2          \* fd arguments: stdin/stdout, every id, and out of range

Calls == {"none", "open", "close", "read", "write", "filesize", "seek",
          "tell", "exit", "halt", "create", "remove", "null"}

VARIABLES
  descriptors,       \* thread->descriptors[]: fd or NULL per slot
  allocated,         \* the descriptors that are malloc'd
  dfile,             \* descriptor->file for each fd (NULL when closed)
  free_fd,           \* thread->free_fd: closed descriptors, in order
  last_fd_created,   \* thread->last_fd_created
  openFiles,         \* struct file objects not yet file_close'd
  eax,               \* f->eax after the last system call
  call,              \* history: the last system call made
  alive,             \* the process has not exited
  executable,        \* thread->executable: the struct file load opened, or NULL
  pagedir,           \* thread->pagedir: "proc" (its own directory) or NULL
  active,            \* the directory the CPU uses: "proc" or "base" (init_page_dir)
  pdFreed,           \* pagedir_destroy has freed the process's directory
  exitPc             \* where process_exit is: "none" before it starts

vars == << descriptors, allocated, dfile, free_fd, last_fd_created, openFiles,
           eax, call, alive, executable, pagedir, active, pdFreed, exitPc >>

ExitSteps == {"none", "pagedir", "activate", "destroy", "fds", "done"}

TypeOK ==
  /\ descriptors \in [Slots -> FdIds \cup {NULL}]
  /\ allocated \subseteq FdIds
  /\ dfile \in [FdIds -> Handles \cup {NULL}]
  /\ free_fd \in Seq(FdIds)
  /\ last_fd_created \in -1 .. MAX_FD - 1
  /\ openFiles \subseteq Handles
  /\ eax = STALE \/ eax \in -1 .. MAX_FD + 1
  /\ call \in Calls
  /\ alive \in BOOLEAN
  /\ executable \in Handles \cup {NULL}
  /\ pagedir \in {"proc", NULL}
  /\ active \in {"proc", "base"}
  /\ pdFreed \in BOOLEAN
  /\ exitPc \in ExitSteps
  /\ ArgTypeOK

(* init_thread (thread.c): an empty table; the first new descriptor gets *)
(* slot 0 and fd 2.  load has succeeded: the process's directory is      *)
(* created and activated, and the executable is open; start_process is  *)
(* about to push the arguments (ArgStack).                                *)
Init ==
  /\ descriptors = [k \in Slots |-> NULL]
  /\ allocated = {}
  /\ dfile = [d \in FdIds |-> NULL]
  /\ free_fd = << >>
  /\ last_fd_created = -1
  /\ executable \in Handles
  /\ openFiles = {executable}
  /\ eax = STALE
  /\ call = "none"
  /\ alive = TRUE
  /\ pagedir = "proc"
  /\ active = "proc"
  /\ pdFreed = FALSE
  /\ exitPc = "none"
  /\ ArgInit

(* The descriptor a file call finds for FD, or NULL: the range check and  *)
(* the lookup "if (d == NULL || d->file == NULL)" shared by filesize,     *)
(* read, write, seek, tell and close.                                     *)
Lookup(fd) ==
  IF fd - 2 < 0 \/ fd - 2 >= MAX_FD THEN NULL
  ELSE LET d == descriptors[fd - 2] IN
       IF d = NULL THEN NULL ELSE IF dfile[d] = NULL THEN NULL ELSE d

(* The state process_exit tears down, left alone by every other handler. *)
teardownVars == << executable, pagedir, active, pdFreed, exitPc >>

(* The first step of process_exit: file_close the executable (which also *)
(* allows writes to it again) and clear thread->executable.              *)
ProcessExitExecutable ==
  /\ openFiles' = openFiles \ {executable}
  /\ executable' = NULL
  /\ exitPc' = "pagedir"
  /\ UNCHANGED << descriptors, allocated, dfile, free_fd, last_fd_created,
                  alive, pagedir, active, pdFreed >>

(* force_exit: f->eax = -1, then thread_exit () runs process_exit. *)
ForceExit(c) ==
  /\ eax' = -1
  /\ call' = c
  /\ ProcessExitExecutable

(* pagedir_activate (pagedir.c): load the directory PD into CR3, or the  *)
(* kernel-only init_page_dir when PD is NULL.                             *)
PagedirActivate(pd) == IF pd = NULL THEN "base" ELSE pd

(* The mutant of ExitPagedir that drops "cur->pagedir = NULL", trusting *)
(* pagedir_activate (NULL) alone to leave the process's directory.      *)
ExitPagedirKeep ==
  /\ exitPc = "pagedir"
  /\ exitPc' = IF pagedir # NULL THEN "activate" ELSE "fds"
  /\ UNCHANGED << descriptors, allocated, dfile, free_fd, last_fd_created,
                  openFiles, eax, call, alive, executable, pagedir, active,
                  pdFreed >>

(* pd = cur->pagedir; if (pd != NULL) the block first sets cur->pagedir  *)
(* to NULL, so that a timer interrupt cannot switch back to it.          *)
ExitPagedir ==
  /\ exitPc = "pagedir"
  /\ pagedir' = NULL
  /\ exitPc' = IF pagedir # NULL THEN "activate" ELSE "fds"
  /\ UNCHANGED << descriptors, allocated, dfile, free_fd, last_fd_created,
                  openFiles, eax, call, alive, executable, active, pdFreed >>

(* pagedir_activate (NULL): the CPU moves to the kernel-only directory. *)
ExitActivate ==
  /\ exitPc = "activate"
  /\ active' = PagedirActivate(NULL)
  /\ exitPc' = "destroy"
  /\ UNCHANGED << descriptors, allocated, dfile, free_fd, last_fd_created,
                  openFiles, eax, call, alive, executable, pagedir, pdFreed >>

(* pagedir_destroy (pd) frees the process's directory. *)
ExitDestroy ==
  /\ exitPc = "destroy"
  /\ pdFreed' = TRUE
  /\ exitPc' = "fds"
  /\ UNCHANGED << descriptors, allocated, dfile, free_fd, last_fd_created,
                  openFiles, eax, call, alive, executable, pagedir, active >>

(* The rest of process_exit: close the file of every descriptor in the   *)
(* table and free it, then free every descriptor on free_fd.  The        *)
(* wait_status passes that follow are ProcessLifecycle's.                *)
ProcessExitFds ==
  /\ exitPc = "fds"
  /\ openFiles' = openFiles \ {dfile[descriptors[k]] :
                                 k \in {j \in Slots : descriptors[j] # NULL}}
  /\ allocated' = {}
  /\ descriptors' = [k \in Slots |-> NULL]
  /\ free_fd' = << >>
  /\ alive' = FALSE
  /\ exitPc' = "done"
  /\ UNCHANGED << dfile, last_fd_created, eax, call, executable, pagedir,
                  active, pdFreed >>

(* A timer interrupt switches to another thread and, later, back: the    *)
(* switch back runs process_activate, pagedir_activate (t->pagedir).     *)
(* Interrupts are on through every system call and process_exit, until  *)
(* thread_exit disables them.                                            *)
ProcessActivate ==
  /\ alive /\ call # "halt"
  /\ active' = PagedirActivate(pagedir)
  /\ UNCHANGED << descriptors, allocated, dfile, free_fd, last_fd_created,
                  openFiles, eax, call, alive, executable, pagedir, pdFreed,
                  exitPc >>

(* The value a file_length, file_read, file_write or file_tell returns;   *)
(* the file contents are not modelled.                                    *)
FILE_RESULT == 0

(* A handler's early exit "if (!valid_user_addr (...)) force_exit (f)":  *)
(* one of the argument words, or the buffer or name it points at, is not *)
(* mapped user memory.                                                    *)
BadArgs(c) == ForceExit(c)

(* syscall_open's failure: f->eax = -1 and the table is untouched. *)
OpenFail ==
  /\ eax' = -1
  /\ UNCHANGED << descriptors, allocated, dfile, free_fd, last_fd_created,
                  openFiles >>

(* syscall_open with a non-empty free_fd: the first free descriptor      *)
(* takes FILE and goes back into its own slot.                           *)
OpenReuse(file) ==
  IF file = NULL THEN OpenFail
  ELSE LET d == Head(free_fd) IN
       /\ dfile' = [dfile EXCEPT ![d] = file]
       /\ free_fd' = Tail(free_fd)
       /\ descriptors' = [descriptors EXCEPT ![d - 2] = d]
       /\ openFiles' = openFiles \cup {file}
       /\ eax' = d
       /\ UNCHANGED << allocated, last_fd_created >>

(* The mutant of OpenNew that drops file_close on a failed malloc. *)
OpenNewLeak(file, malloc_ok) ==
  IF file = NULL THEN OpenFail
  ELSE IF ~malloc_ok
  THEN /\ eax' = -1
       /\ openFiles' = openFiles \cup {file}
       /\ UNCHANGED << descriptors, allocated, dfile, free_fd, last_fd_created >>
  ELSE LET d == last_fd_created + 1 + 2 IN
       /\ last_fd_created' = last_fd_created + 1
       /\ allocated' = allocated \cup {d}
       /\ dfile' = [dfile EXCEPT ![d] = file]
       /\ descriptors' = [descriptors EXCEPT ![last_fd_created + 1] = d]
       /\ openFiles' = openFiles \cup {file}
       /\ eax' = d
       /\ UNCHANGED free_fd

(* syscall_open with an empty free_fd and room left: malloc a new        *)
(* descriptor with the next id.  If the malloc fails, file_close (file)  *)
(* releases the new struct file at once.                                 *)
OpenNew(file, malloc_ok) ==
  IF file = NULL \/ ~malloc_ok THEN OpenFail
  ELSE LET d == last_fd_created + 1 + 2 IN
       /\ last_fd_created' = last_fd_created + 1
       /\ allocated' = allocated \cup {d}
       /\ dfile' = [dfile EXCEPT ![d] = file]
       /\ descriptors' = [descriptors EXCEPT ![last_fd_created + 1] = d]
       /\ openFiles' = openFiles \cup {file}
       /\ eax' = d
       /\ UNCHANGED free_fd

(* The mutant of OpenWith whose cap test is "<=" instead of "<". *)
OpenWithPastCap(file, malloc_ok) ==
  /\ call' = "open"
  /\ alive' = alive
  /\ IF free_fd # << >> THEN OpenReuse(file)
     ELSE IF last_fd_created <= MAX_FD - 1 THEN OpenNew(file, malloc_ok)
     ELSE OpenFail

(* The mutant of OpenWith that tests for room before the free list, so  *)
(* a new id is issued while a closed one waits for reuse.                 *)
OpenWithNewFirst(file, malloc_ok) ==
  /\ call' = "open"
  /\ alive' = alive
  /\ IF last_fd_created < MAX_FD - 1 THEN OpenNew(file, malloc_ok)
     ELSE IF free_fd # << >> THEN OpenReuse(file)
     ELSE OpenFail

(* syscall_open, when filesys_open returns FILE or NULL and descriptor   *)
(* malloc succeeds when MALLOC_OK: reuse, append, or "max file           *)
(* descriptors reached".                                                 *)
OpenWith(file, malloc_ok) ==
  /\ call' = "open"
  /\ alive' = alive
  /\ IF free_fd # << >> THEN OpenReuse(file)
     ELSE IF last_fd_created < MAX_FD - 1 THEN OpenNew(file, malloc_ok)
     ELSE OpenFail

(* filesys_open yields a struct file not already open, or NULL. *)
Open ==
  \E file \in (Handles \ openFiles) \cup {NULL}, malloc_ok \in BOOLEAN :
    OpenWith(file, malloc_ok)

(* The mutant of Close that leaves the slot pointing at the descriptor. *)
CloseKeepSlot(fd) ==
  /\ call' = "close"
  /\ LET d == Lookup(fd) IN
     IF d = NULL
     THEN /\ eax' = -1
          /\ UNCHANGED << descriptors, allocated, dfile, free_fd, openFiles >>
     ELSE /\ openFiles' = openFiles \ {dfile[d]}
          /\ dfile' = [dfile EXCEPT ![d] = NULL]
          /\ free_fd' = Append(free_fd, d)
          /\ eax' = STALE
          /\ UNCHANGED << allocated, descriptors >>
  /\ UNCHANGED << last_fd_created, alive >>

(* syscall_close: a valid descriptor has its file closed, its slot       *)
(* cleared and is pushed on the back of free_fd.  On success f->eax is   *)
(* not written.                                                           *)
Close(fd) ==
  /\ call' = "close"
  /\ LET d == Lookup(fd) IN
     IF d = NULL
     THEN /\ eax' = -1
          /\ UNCHANGED << descriptors, allocated, dfile, free_fd, openFiles >>
     ELSE /\ openFiles' = openFiles \ {dfile[d]}
          /\ dfile' = [dfile EXCEPT ![d] = NULL]
          /\ descriptors' = [descriptors EXCEPT ![fd - 2] = NULL]
          /\ free_fd' = Append(free_fd, d)
          /\ eax' = STALE
          /\ UNCHANGED allocated
  /\ UNCHANGED << last_fd_created, alive >>

(* syscall_filesize and syscall_tell: -1 unless FD names an open file. *)
FileQuery(c, fd) ==
  /\ call' = c
  /\ eax' = IF Lookup(fd) = NULL THEN -1 ELSE FILE_RESULT
  /\ UNCHANGED << descriptors, allocated, dfile, free_fd, last_fd_created,
                  openFiles, alive >>

(* syscall_tell: the same checks as syscall_filesize, then file_tell. *)
Tell(fd) == FileQuery("tell", fd)

(* syscall_create and syscall_remove: filesys_create or filesys_remove   *)
(* under filesys_lock, whose boolean result OK is f->eax.  The file      *)
(* system's directory is not modelled, so either result is possible.     *)
FsNameCall(c, ok) ==
  /\ call' = c
  /\ eax' = IF ok THEN 1 ELSE 0
  /\ UNCHANGED << descriptors, allocated, dfile, free_fd, last_fd_created,
                  openFiles, alive >>

(* syscall_null: f->eax = args[1] + 1 (a test call). *)
Null(v) ==
  /\ call' = "null"
  /\ eax' = v + 1
  /\ UNCHANGED << descriptors, allocated, dfile, free_fd, last_fd_created,
                  openFiles, alive >>

(* syscall_halt: shutdown_power_off () stops the machine; no process_exit *)
(* runs and nothing happens after it.                                    *)
Halt ==
  /\ call' = "halt"
  /\ UNCHANGED << descriptors, allocated, dfile, free_fd, last_fd_created,
                  openFiles, eax, alive >>

(* syscall_seek: -1 for a bad descriptor; file_seek returns nothing and  *)
(* f->eax is left as it was.                                              *)
Seek(fd) ==
  /\ call' = "seek"
  /\ eax' = IF Lookup(fd) = NULL THEN -1 ELSE STALE
  /\ UNCHANGED << descriptors, allocated, dfile, free_fd, last_fd_created,
                  openFiles, alive >>

(* syscall_read: descriptor 0 fills the buffer from input_getc and does  *)
(* not write f->eax; otherwise -1 or file_read's count.                  *)
Read(fd) ==
  /\ call' = "read"
  /\ eax' = IF fd = 0 THEN STALE
            ELSE IF Lookup(fd) = NULL THEN -1 ELSE FILE_RESULT
  /\ UNCHANGED << descriptors, allocated, dfile, free_fd, last_fd_created,
                  openFiles, alive >>

(* syscall_write: descriptor 1 goes to putbuf and returns SIZE;          *)
(* otherwise -1 or file_write's count.                                    *)
Write(fd, size) ==
  /\ call' = "write"
  /\ eax' = IF fd = 1 THEN size
            ELSE IF Lookup(fd) = NULL THEN -1 ELSE FILE_RESULT
  /\ UNCHANGED << descriptors, allocated, dfile, free_fd, last_fd_created,
                  openFiles, alive >>

(* syscall_exit: f->eax = the status, then process_exit. *)
Exit ==
  /\ eax' = 0
  /\ call' = "exit"
  /\ ProcessExitExecutable

(* After exit the thread is gone, and after halt the machine is off:    *)
(* nothing of the table changes any more.                                *)
Terminated == (~alive \/ call = "halt") /\ UNCHANGED vars

(* The process is in user mode or a system call, not yet exiting. *)
Running == argPc = "user" /\ alive /\ exitPc = "none" /\ call # "halt"

FdNext ==
  \/ Running /\ \E c \in Calls \ {"none", "exit", "halt"} : BadArgs(c)
  \/ Running /\ Open /\ UNCHANGED teardownVars
  \/ Running /\ \E fd \in FdArgs : Close(fd) /\ UNCHANGED teardownVars
  \/ Running /\ \E fd \in FdArgs : FileQuery("filesize", fd)
             /\ UNCHANGED teardownVars
  \/ Running /\ \E fd \in FdArgs : Tell(fd) /\ UNCHANGED teardownVars
  \/ Running /\ \E c \in {"create", "remove"}, ok \in BOOLEAN :
                  FsNameCall(c, ok) /\ UNCHANGED teardownVars
  \/ Running /\ \E v \in {-1, 0} : Null(v) /\ UNCHANGED teardownVars
  \/ Running /\ Halt /\ UNCHANGED teardownVars
  \/ Running /\ \E fd \in FdArgs : Seek(fd) /\ UNCHANGED teardownVars
  \/ Running /\ \E fd \in FdArgs : Read(fd) /\ UNCHANGED teardownVars
  \/ Running /\ \E fd \in FdArgs : Write(fd, 1) /\ UNCHANGED teardownVars
  \/ Running /\ Exit
  \/ ExitPagedir
  \/ ExitActivate
  \/ ExitDestroy
  \/ ProcessExitFds
  \/ ProcessActivate
  \/ Terminated

(* start_process builds the argument stack before the process reaches   *)
(* user mode and makes its first system call.                            *)
Next ==
  \/ ArgNext /\ UNCHANGED vars
  \/ FdNext /\ UNCHANGED argVars

Spec == Init /\ [][Next]_<< vars, argVars >>

-----------------------------------------------------------------------------
(* The slots that hold a descriptor. *)
Occupied == {k \in Slots : descriptors[k] # NULL}

(* Every malloc'd descriptor is in exactly one place: its own slot       *)
(* descriptors[fd-2] with an open file, or once on free_fd with a NULL   *)
(* file; process_exit frees every one of them and nothing else.  It     *)
(* takes open, close and reuse in some order to break (syscall_open's    *)
(* two allocation paths, syscall_close, process_exit).                  *)
DescriptorsPartitioned ==
  /\ IsInjective(free_fd)
  /\ \A k \in Occupied : descriptors[k] = k + 2 /\ dfile[k + 2] # NULL
  /\ \A i \in 1 .. Len(free_fd) : dfile[free_fd[i]] = NULL
  /\ \A k \in Occupied : descriptors[k] \notin ToSet(free_fd)
  /\ allocated = {descriptors[k] : k \in Occupied} \cup ToSet(free_fd)

(* Every struct file that filesys_open returned and that is not yet      *)
(* closed is the executable or belongs to exactly one open descriptor:   *)
(* none is leaked on a failed malloc in syscall_open, none is shared,    *)
(* and process_exit has closed them all once the process is gone.        *)
FilesAccountedFor ==
  /\ openFiles = {dfile[descriptors[k]] : k \in Occupied}
                   \cup ({executable} \ {NULL})
  /\ \A j, k \in Occupied : dfile[descriptors[j]] = dfile[descriptors[k]] => j = k
  /\ ~alive => openFiles = {}

(* The CPU never runs on a page directory that pagedir_destroy has freed, *)
(* whichever step of process_exit the timer interrupt lands after, and  *)
(* the directory has been freed once the process is gone.  It breaks    *)
(* only if cur->pagedir still names the directory when the interrupt    *)
(* returns after pagedir_activate (NULL) (process_exit's ordering        *)
(* comment, process.c:285-291).                                          *)
ActivePagedirLive ==
  /\ active = "proc" => ~pdFreed
  /\ ~alive => pdFreed /\ active = "base"


(* The table FdAbstract sees: an id is bound to its descriptor's file    *)
(* while the descriptor sits in a slot of descriptors[].                 *)
AbsTable ==
  [d \in FdIds |-> IF \E k \in Slots : descriptors[k] = d THEN dfile[d] ELSE NULL]

Abs == INSTANCE FdAbstract
         WITH table <- AbsTable, issued <- allocated, rv <- eax, live <- alive

(* The slots, the free list and last_fd_created implement the abstract   *)
(* descriptor table: every open binds a free id to a new file and        *)
(* returns it, reusing a closed id before issuing the next new one       *)
(* (spec scenario 5); every close unbinds one id; no other system call, *)
(* argument push or teardown step changes the bindings, and exit clears *)
(* them all at once.                                                      *)
FdTableRefined == Abs!ASpec

=============================================================================
