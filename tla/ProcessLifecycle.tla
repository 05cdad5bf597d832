--------------------------- MODULE ProcessLifecycle ---------------------------
(***************************************************************************)
(* The parent/child lifecycle of the pintos user-process subsystem         *)
(* (src/pintos/userprog/process.c and the exit paths of syscall.c):        *)
(*                                                                         *)
(*   process_execute   the launcher, run by the parent inside exec         *)
(*   start_process     the bootstrap, run by the new child thread          *)
(*   process_wait      wait on a child's wait_status record                *)
(*   process_exit      teardown: drop the references on every child's      *)
(*                     record, then on the thread's own parent record      *)
(*   syscall_exit,     record an exit code in the parent record, then      *)
(*   force_exit        thread_exit (which runs process_exit)               *)
(*                                                                         *)
(* Every thread is one user process.  A wait_status record is shared by a  *)
(* parent and one child; it is identified here by the child's tid.  The    *)
(* count lock makes each decrement one atomic step; every other point at   *)
(* which the code may be preempted between two touches of shared state is *)
(* a step boundary.                                                        *)
(***************************************************************************)
EXTENDS Integers, Sequences, SequencesExt, FiniteSets

CONSTANTS
  MaxThreads,   \* tids 1..MaxThreads; thread 1 is the initial process
  ExitCodes,    \* the codes user programs pass to exit()
  NULL          \* the null pointer (parent_wait_status of the initial process)

ASSUME MaxThreads \in Nat \ {0}
ASSUME ExitCodes \subseteq Int

Tids == 1 .. MaxThreads
InitialTid == 1

TID_ERROR    == -1   \* thread.h: TID_ERROR, returned by process_execute
EXIT_UNKNOWN == -2   \* process.c:109  ws->child_exit_code = -2
EXIT_KILLED  == -1   \* syscall.c:120 force_exit, and process.c:255/260:
                     \* the "already waited" sentinel of process_wait

VARIABLES
  pc,                  \* where each thread is
  nextTid,             \* thread.c allocate_tid: the next tid handed out
  children,            \* thread->child_processes: list of record ids
  parent_wait_status,  \* thread->parent_wait_status: a record id or NULL
  ws,                  \* the wait_status records, indexed by child tid
  ls,                  \* struct load_status of the exec that made each child
  execChild,           \* the child a parent blocked in exec is waiting for
  waitFor,             \* the record a parent blocked in wait is waiting on
  todo,                \* process_exit: child records not yet decremented
  toDelete,            \* process_exit: delete_children[]
  deallocate_parent,   \* process_exit: deallocate_parent
  ret,                 \* f->eax of the last exec/wait, with call and argument
  exitStatus,          \* history: what each thread passed to exit, or -1
  reaped,              \* history: children each thread has waited for
  frees,               \* history: how often each record was freed
  panicked             \* the kernel crashed (undefined behaviour)

vars == << pc, nextTid, children, parent_wait_status, ws, ls, execChild,
           waitFor, todo, toDelete, deallocate_parent, ret, exitStatus,
           reaped, frees, panicked >>

(* Kernel-side program counters. *)
UserPcs == {"user", "exec_load_wait", "wait_down"}
ExitPcs == {"exit_children", "exit_parent", "exit_parent_finish"}
Pcs == {"unborn", "start", "start_ws_wait", "dead"} \cup UserPcs \cup ExitPcs

Calls == {"none", "exec", "wait", "exit"}
Result(call, arg, val) == [call |-> call, arg |-> arg, val |-> val]
NoRecord == [state |-> "none", count |-> 0, code |-> EXIT_UNKNOWN, sem |-> 0]

TypeOK ==
  /\ pc \in [Tids -> Pcs]
  /\ nextTid \in 2 .. MaxThreads + 1
  /\ children \in [Tids -> Seq(Tids)]
  /\ parent_wait_status \in [Tids -> Tids \cup {NULL}]
  /\ ws \in [Tids -> [state : {"none", "live", "freed"}, count : 0 .. 2,
                      code : ExitCodes \cup {EXIT_UNKNOWN, EXIT_KILLED},
                      sem : 0 .. 1]]
  /\ ls \in [Tids -> [success : BOOLEAN, load_sema : 0 .. 1,
                      wait_status_create : 0 .. 1]]
  /\ execChild \in [Tids -> Tids \cup {NULL}]
  /\ waitFor \in [Tids -> Tids \cup {NULL}]
  /\ todo \in [Tids -> Seq(Tids)]
  /\ toDelete \in [Tids -> SUBSET Tids]
  /\ deallocate_parent \in [Tids -> BOOLEAN]
  /\ ret \in [Tids -> [call : Calls, arg : Tids \cup {0},
                       val : Tids \cup ExitCodes \cup {EXIT_KILLED}]]
  /\ exitStatus \in [Tids -> ExitCodes \cup {EXIT_KILLED, NULL}]
  /\ reaped \in [Tids -> SUBSET Tids]
  /\ frees \in [Tids -> Nat]
  /\ panicked \in BOOLEAN

Init ==
  /\ pc = [t \in Tids |-> IF t = InitialTid THEN "user" ELSE "unborn"]
  /\ nextTid = InitialTid + 1
  /\ children = [t \in Tids |-> << >>]
  /\ parent_wait_status = [t \in Tids |-> NULL]
  /\ ws = [r \in Tids |-> NoRecord]
  /\ ls = [c \in Tids |-> [success |-> FALSE, load_sema |-> 0,
                           wait_status_create |-> 0]]
  /\ execChild = [t \in Tids |-> NULL]
  /\ waitFor = [t \in Tids |-> NULL]
  /\ todo = [t \in Tids |-> << >>]
  /\ toDelete = [t \in Tids |-> {}]
  /\ deallocate_parent = [t \in Tids |-> FALSE]
  /\ ret = [t \in Tids |-> Result("none", 0, 0)]
  /\ exitStatus = [t \in Tids |-> NULL]
  /\ reaped = [t \in Tids |-> {}]
  /\ frees = [r \in Tids |-> 0]
  /\ panicked = FALSE
-----------------------------------------------------------------------------
(***************************************************************************)
(* process_execute, up to sema_down (&ls.load_sema).  The three page and   *)
(* semaphore allocations and thread_create may each fail; all of them     *)
(* free what was taken and return TID_ERROR, so they are one outcome.     *)
(* thread_create hands out the next tid and makes the child runnable.     *)
(***************************************************************************)
ExecStart(p) ==
  /\ pc[p] = "user"
  /\ \/ /\ ret' = [ret EXCEPT ![p] = Result("exec", 0, TID_ERROR)]
        /\ UNCHANGED << pc, nextTid, ls, execChild >>
     \/ /\ nextTid <= MaxThreads
        /\ LET c == nextTid IN
             /\ pc' = [pc EXCEPT ![p] = "exec_load_wait", ![c] = "start"]
             /\ ls' = [ls EXCEPT ![c] = [success |-> FALSE, load_sema |-> 0,
                                         wait_status_create |-> 0]]
             /\ execChild' = [execChild EXCEPT ![p] = c]
        /\ nextTid' = nextTid + 1
        /\ UNCHANGED ret
  /\ UNCHANGED << children, parent_wait_status, ws, waitFor, todo, toDelete,
                  deallocate_parent, exitStatus, reaped, frees, panicked >>

(* thread_exit () -> process_exit (): start dropping the child records.  *)
(* Closing the executable and destroying the page directory touch only   *)
(* the thread's own state.                                                *)
BeginProcessExit(t) ==
  /\ pc' = [pc EXCEPT ![t] = "exit_children"]
  /\ todo' = [todo EXCEPT ![t] = children[t]]
  /\ toDelete' = [toDelete EXCEPT ![t] = {}]

(***************************************************************************)
(* start_process up to the point where the child either exits or blocks   *)
(* on wait_status_create: load () succeeds or fails, the result and the   *)
(* child are published in the load_status, load_sema is upped.  On        *)
(* failure the child frees its copies and calls thread_exit ().  On       *)
(* success it builds the argument stack (ArgStack.tla) and blocks.        *)
(***************************************************************************)
StartProcess(c) ==
  /\ pc[c] = "start"
  /\ \E success \in BOOLEAN :
       /\ ls' = [ls EXCEPT ![c].success = success, ![c].load_sema = 1]
       /\ \/ success /\ pc' = [pc EXCEPT ![c] = "start_ws_wait"]
                     /\ UNCHANGED << todo, toDelete >>
          \/ ~success /\ BeginProcessExit(c)
  /\ UNCHANGED << nextTid, children, parent_wait_status, ws, execChild,
                  waitFor, deallocate_parent, ret, exitStatus, reaped, frees,
                  panicked >>

(***************************************************************************)
(* process_execute after sema_down (&ls.load_sema) returns.  A failed load *)
(* returns TID_ERROR.  Otherwise the wait_status is malloc'd; if that      *)
(* fails the child is still released and TID_ERROR is returned.  If it     *)
(* succeeds the record (count 2, code -2) is appended to child_processes, *)
(* published as the child's parent_wait_status, and the child released.  *)
(***************************************************************************)
ExecLoaded(p) ==
  /\ pc[p] = "exec_load_wait"
  /\ LET c == execChild[p] IN
       /\ ls[c].load_sema = 1
       /\ \/ /\ ~ls[c].success
             /\ ls' = [ls EXCEPT ![c].load_sema = 0]
             /\ ret' = [ret EXCEPT ![p] = Result("exec", 0, TID_ERROR)]
             /\ UNCHANGED << children, parent_wait_status, ws >>
          \/ /\ ls[c].success
             /\ ls' = [ls EXCEPT ![c].load_sema = 0,
                                 ![c].wait_status_create = 1]
             /\ ret' = [ret EXCEPT ![p] = Result("exec", 0, TID_ERROR)]
             /\ UNCHANGED << children, parent_wait_status, ws >>
          \/ /\ ls[c].success
             /\ ws' = [ws EXCEPT ![c] = [state |-> "live", count |-> 2,
                                         code |-> EXIT_UNKNOWN, sem |-> 0]]
             /\ children' = [children EXCEPT ![p] = Append(@, c)]
             /\ parent_wait_status' = [parent_wait_status EXCEPT ![c] = c]
             /\ ls' = [ls EXCEPT ![c].load_sema = 0,
                                 ![c].wait_status_create = 1]
             /\ ret' = [ret EXCEPT ![p] = Result("exec", 0, c)]
  /\ pc' = [pc EXCEPT ![p] = "user"]
  /\ execChild' = [execChild EXCEPT ![p] = NULL]
  /\ UNCHANGED << nextTid, waitFor, todo, toDelete, deallocate_parent,
                  exitStatus, reaped, frees, panicked >>

(* start_process: sema_down (wait_status_create), free it and the command *)
(* line page, then intr_exit into user mode.                              *)
ChildStart(c) ==
  /\ pc[c] = "start_ws_wait"
  /\ ls[c].wait_status_create = 1
  /\ ls' = [ls EXCEPT ![c].wait_status_create = 0]
  /\ pc' = [pc EXCEPT ![c] = "user"]
  /\ UNCHANGED << nextTid, children, parent_wait_status, ws, execChild,
                  waitFor, todo, toDelete, deallocate_parent, ret,
                  exitStatus, reaped, frees, panicked >>
-----------------------------------------------------------------------------
(* Mutant of Wait: the record is looked up among all records, not in the *)
(* caller's own child_processes list.                                    *)
WaitAnyRecord(p) ==
  /\ pc[p] = "user"
  /\ \E tid \in Tids :
       LET found == ws[tid].state = "live" IN
       \/ /\ ~found \/ ws[tid].code = EXIT_KILLED
          /\ ret' = [ret EXCEPT ![p] = Result("wait", tid, -1)]
          /\ UNCHANGED << pc, waitFor >>
       \/ /\ found /\ ws[tid].code # EXIT_KILLED
          /\ pc' = [pc EXCEPT ![p] = "wait_down"]
          /\ waitFor' = [waitFor EXCEPT ![p] = tid]
          /\ UNCHANGED ret
  /\ UNCHANGED << nextTid, children, parent_wait_status, ws, ls, execChild,
                  todo, toDelete, deallocate_parent, exitStatus, reaped,
                  frees, panicked >>

(***************************************************************************)
(* process_wait (tid): scan child_processes for the record of TID.  No     *)
(* record, or a code of -1, returns -1 at once; otherwise the parent      *)
(* blocks on the record's child_exit_sem.                                 *)
(***************************************************************************)
Wait(p) ==
  /\ pc[p] = "user"
  /\ \E tid \in Tids :
       LET found == tid \in ToSet(children[p]) IN
       \/ /\ ~found \/ ws[tid].code = EXIT_KILLED
          /\ ret' = [ret EXCEPT ![p] = Result("wait", tid, -1)]
          /\ UNCHANGED << pc, waitFor >>
       \/ /\ found /\ ws[tid].code # EXIT_KILLED
          /\ pc' = [pc EXCEPT ![p] = "wait_down"]
          /\ waitFor' = [waitFor EXCEPT ![p] = tid]
          /\ UNCHANGED ret
  /\ UNCHANGED << nextTid, children, parent_wait_status, ws, ls, execChild,
                  todo, toDelete, deallocate_parent, exitStatus, reaped,
                  frees, panicked >>

(* Mutant of WaitDown: sema_down's wait is dropped, so the parent reads  *)
(* the record without waiting for the child.                              *)
WaitDownNoBlock(p) ==
  /\ pc[p] = "wait_down"
  /\ LET r == waitFor[p] IN
       /\ ws' = [ws EXCEPT ![r].sem = @ - 1, ![r].code = EXIT_KILLED]
       /\ ret' = [ret EXCEPT ![p] = Result("wait", r, ws[r].code)]
       /\ reaped' = [reaped EXCEPT ![p] = @ \cup {r}]
  /\ pc' = [pc EXCEPT ![p] = "user"]
  /\ waitFor' = [waitFor EXCEPT ![p] = NULL]
  /\ UNCHANGED << nextTid, children, parent_wait_status, ls, execChild, todo,
                  toDelete, deallocate_parent, exitStatus, frees, panicked >>

(* process_wait after sema_down returns: read the code, overwrite it with *)
(* the -1 sentinel, return what was read.                                 *)
WaitDown(p) ==
  /\ pc[p] = "wait_down"
  /\ LET r == waitFor[p] IN
       /\ ws[r].sem > 0
       /\ ws' = [ws EXCEPT ![r].sem = @ - 1, ![r].code = EXIT_KILLED]
       /\ ret' = [ret EXCEPT ![p] = Result("wait", r, ws[r].code)]
       /\ reaped' = [reaped EXCEPT ![p] = @ \cup {r}]
  /\ pc' = [pc EXCEPT ![p] = "user"]
  /\ waitFor' = [waitFor EXCEPT ![p] = NULL]
  /\ UNCHANGED << nextTid, children, parent_wait_status, ls, execChild, todo,
                  toDelete, deallocate_parent, exitStatus, frees, panicked >>

(* The code an exiting thread stores in its parent record, if it has one. *)
SetExitCode(t, code) ==
  ws' = IF parent_wait_status[t] = NULL THEN ws
        ELSE [ws EXCEPT ![parent_wait_status[t]].code = code]

(* syscall_exit: store args[1] as the exit code and in f->eax, then      *)
(* thread_exit ().                                                        *)
Exit(t) ==
  /\ pc[t] = "user"
  /\ \E code \in ExitCodes :
       /\ SetExitCode(t, code)
       /\ exitStatus' = [exitStatus EXCEPT ![t] = code]
       /\ ret' = [ret EXCEPT ![t] = Result("exit", 0, code)]
  /\ BeginProcessExit(t)
  /\ UNCHANGED << nextTid, children, parent_wait_status, ls, execChild,
                  waitFor, deallocate_parent, reaped, frees, panicked >>

(* force_exit: a user pointer failed valid_user_addr, or the call number *)
(* is unknown; store -1 (also in f->eax) and thread_exit ().             *)
ForceExit(t) ==
  /\ pc[t] = "user"
  /\ SetExitCode(t, EXIT_KILLED)
  /\ exitStatus' = [exitStatus EXCEPT ![t] = EXIT_KILLED]
  /\ ret' = [ret EXCEPT ![t] = Result("exit", 0, EXIT_KILLED)]
  /\ BeginProcessExit(t)
  /\ UNCHANGED << nextTid, children, parent_wait_status, ls, execChild,
                  waitFor, deallocate_parent, reaped, frees, panicked >>

-----------------------------------------------------------------------------
(* Mutant of ExitChild: the record is taken for deletion while the other *)
(* party still holds a reference (count test off by one).               *)
ExitChildEarlyFree(t) ==
  /\ pc[t] = "exit_children"
  /\ todo[t] # << >>
  /\ LET r == Head(todo[t]) IN
       /\ ws' = [ws EXCEPT ![r].count = @ - 1]
       /\ toDelete' = [toDelete EXCEPT ![t] =
                         IF ws[r].count - 1 <= 1 THEN @ \cup {r} ELSE @]
  /\ todo' = [todo EXCEPT ![t] = Tail(@)]
  /\ UNCHANGED << pc, nextTid, children, parent_wait_status, ls, execChild,
                  waitFor, deallocate_parent, ret, exitStatus, reaped, frees,
                  panicked >>

(***************************************************************************)
(* process_exit, "Deallocate dead children": under each record's          *)
(* count_lock, decrement the count and remember the record if it reached  *)
(* zero.                                                                  *)
(***************************************************************************)
ExitChild(t) ==
  /\ pc[t] = "exit_children"
  /\ todo[t] # << >>
  /\ LET r == Head(todo[t]) IN
       /\ ws' = [ws EXCEPT ![r].count = @ - 1]
       /\ toDelete' = [toDelete EXCEPT ![t] =
                         IF ws[r].count - 1 = 0 THEN @ \cup {r} ELSE @]
  /\ todo' = [todo EXCEPT ![t] = Tail(@)]
  /\ UNCHANGED << pc, nextTid, children, parent_wait_status, ls, execChild,
                  waitFor, deallocate_parent, ret, exitStatus, reaped, frees,
                  panicked >>

(* ... then list_remove and free every remembered record. *)
ExitFreeChildren(t) ==
  /\ pc[t] = "exit_children"
  /\ todo[t] = << >>
  /\ ws' = [r \in Tids |-> IF r \in toDelete[t]
                           THEN [ws[r] EXCEPT !.state = "freed"] ELSE ws[r]]
  /\ frees' = [r \in Tids |-> IF r \in toDelete[t] THEN frees[r] + 1
                              ELSE frees[r]]
  /\ children' = [children EXCEPT ![t] =
                    SelectSeq(@, LAMBDA r : r \notin toDelete[t])]
  /\ pc' = [pc EXCEPT ![t] = "exit_parent"]
  /\ UNCHANGED << nextTid, parent_wait_status, ls, execChild, waitFor, todo,
                  toDelete, deallocate_parent, ret, exitStatus, reaped,
                  panicked >>

(***************************************************************************)
(* process_exit, "Deallocate dead parent": under the count_lock of the     *)
(* thread's own record, decrement the count and decide whether this       *)
(* thread frees it; then release the lock.                                *)
(***************************************************************************)
ExitParentDec(t) ==
  /\ pc[t] = "exit_parent"
  /\ \/ /\ parent_wait_status[t] = NULL
        /\ pc' = [pc EXCEPT ![t] = "dead"]
        /\ UNCHANGED << ws, deallocate_parent >>
     \/ /\ parent_wait_status[t] # NULL
        /\ LET r == parent_wait_status[t] IN
             /\ ws' = [ws EXCEPT ![r].count = @ - 1]
             /\ deallocate_parent' = [deallocate_parent EXCEPT ![t] =
                                        ws[r].count - 1 = 0]
        /\ pc' = [pc EXCEPT ![t] = "exit_parent_finish"]
  /\ UNCHANGED << nextTid, children, parent_wait_status, ls, execChild,
                  waitFor, todo, toDelete, ret, exitStatus, reaped, frees,
                  panicked >>

(* Mutant of ExitParentFinish: the sema_up for a live parent is dropped. *)
ExitParentFinishNoSignal(t) ==
  /\ pc[t] = "exit_parent_finish"
  /\ LET r == parent_wait_status[t] IN
       \/ /\ deallocate_parent[t]
          /\ ws' = [ws EXCEPT ![r].state = "freed"]
          /\ frees' = [frees EXCEPT ![r] = @ + 1]
       \/ /\ ~deallocate_parent[t]
          /\ UNCHANGED << ws, frees >>
  /\ pc' = [pc EXCEPT ![t] = "dead"]
  /\ UNCHANGED << nextTid, children, parent_wait_status, ls, execChild,
                  waitFor, todo, toDelete, deallocate_parent, ret,
                  exitStatus, reaped, panicked >>

(***************************************************************************)
(* After the lock is released: free the record if this thread saw zero,   *)
(* otherwise sema_up its child_exit_sem.  The record is read again here,  *)
(* outside the lock.  A sema_up on a freed record is undefined            *)
(* behaviour: it may corrupt nothing visible, or crash the kernel.        *)
(***************************************************************************)
ExitParentFinish(t) ==
  /\ pc[t] = "exit_parent_finish"
  /\ LET r == parent_wait_status[t] IN
       \/ /\ deallocate_parent[t]
          /\ ws' = [ws EXCEPT ![r].state = "freed"]
          /\ frees' = [frees EXCEPT ![r] = @ + 1]
          /\ UNCHANGED panicked
       \/ /\ ~deallocate_parent[t]
          /\ ws[r].state = "live"
          /\ ws' = [ws EXCEPT ![r].sem = @ + 1]
          /\ UNCHANGED << frees, panicked >>
       \/ /\ ~deallocate_parent[t]
          /\ ws[r].state = "freed"
          /\ panicked' \in BOOLEAN
          /\ UNCHANGED << ws, frees >>
  /\ pc' = [pc EXCEPT ![t] = "dead"]
  /\ UNCHANGED << nextTid, children, parent_wait_status, ls, execChild,
                  waitFor, todo, toDelete, deallocate_parent, ret,
                  exitStatus, reaped >>

(* Every process has exited, or the kernel has crashed: nothing runs. *)
Terminated ==
  /\ panicked \/ \A t \in Tids : pc[t] \in {"unborn", "dead"}
  /\ UNCHANGED vars

(* The kernel-side steps of thread t. *)
KernelStep(t) ==
  \/ StartProcess(t) \/ ExecLoaded(t) \/ ChildStart(t) \/ WaitDown(t)
  \/ ExitChild(t) \/ ExitFreeChildren(t) \/ ExitParentDec(t)
  \/ ExitParentFinish(t)

(* The system calls a thread running user code may make. *)
UserStep(t) == ExecStart(t) \/ Wait(t) \/ Exit(t) \/ ForceExit(t)

Next ==
  \/ \E t \in Tids : ~panicked /\ ExecStart(t)
  \/ \E t \in Tids : ~panicked /\ StartProcess(t)
  \/ \E t \in Tids : ~panicked /\ ExecLoaded(t)
  \/ \E t \in Tids : ~panicked /\ ChildStart(t)
  \/ \E t \in Tids : ~panicked /\ Wait(t)
  \/ \E t \in Tids : ~panicked /\ WaitDown(t)
  \/ \E t \in Tids : ~panicked /\ Exit(t)
  \/ \E t \in Tids : ~panicked /\ ForceExit(t)
  \/ \E t \in Tids : ~panicked /\ ExitChild(t)
  \/ \E t \in Tids : ~panicked /\ ExitFreeChildren(t)
  \/ \E t \in Tids : ~panicked /\ ExitParentDec(t)
  \/ \E t \in Tids : ~panicked /\ ExitParentFinish(t)
  \/ Terminated

Spec == Init /\ [][Next]_vars

(***************************************************************************)
(* The pintos scheduler is preemptive round robin: a ready thread is      *)
(* eventually run, and a thread blocked on a semaphore becomes ready when *)
(* the semaphore is upped and stays enabled (only one thread ever downs   *)
(* each semaphore).  So every kernel step is weakly fair.  User programs  *)
(* are not: a program may loop forever without making a system call.      *)
(***************************************************************************)
FairSpec == Spec /\ \A t \in Tids : WF_vars(~panicked /\ KernelStep(t))

-----------------------------------------------------------------------------
(***************************************************************************)
(* Properties.                                                             *)
(***************************************************************************)

(* Thread t is at a step that reads or writes record r. *)
AccessesRecord(t, r) ==
  \/ pc[t] = "user" /\ parent_wait_status[t] = r      \* syscall_exit/force_exit
  \/ pc[t] = "wait_down" /\ waitFor[t] = r            \* process_wait
  \/ pc[t] = "exit_children" /\ todo[t] # << >> /\ Head(todo[t]) = r
  \/ pc[t] = "exit_parent" /\ parent_wait_status[t] = r
  \/ /\ pc[t] = "exit_parent_finish" /\ parent_wait_status[t] = r
     /\ ~deallocate_parent[t]                          \* the sema_up

(* No thread touches a wait_status record after it has been freed: the    *)
(* spec's ownership rule "when it hits zero, exactly one party frees, and *)
(* no further access may occur", for the decrement-then-sema_up of        *)
(* process_exit.                                                          *)
NoUseAfterFree ==
  \A t, r \in Tids : AccessesRecord(t, r) => ws[r].state = "live"

(* Every wait_status record is freed at most once, and once the child and *)
(* every parent still listing it have exited, it has been freed (no leak). *)
(* This is what the count_lock and the delete_children pass of            *)
(* process_exit must achieve whatever order parent and child exit in.     *)
WaitStatusFreedOnce ==
  \A r \in Tids :
    /\ frees[r] <= 1
    /\ ( /\ ws[r].state # "none"
         /\ pc[r] = "dead"
         /\ \A p \in Tids : r \in ToSet(children[p]) => pc[p] = "dead" )
       => ws[r].state = "freed"

(* A parent blocked in process_wait on a child that has begun to exit is  *)
(* eventually woken by the child's sema_up in process_exit.               *)
WaitReturns ==
  \A p, c \in Tids :
    (pc[p] = "wait_down" /\ waitFor[p] = c /\ exitStatus[c] # NULL)
      ~> (pc[p] # "wait_down" \/ panicked)

(* A child runs user code only once its parent has published its         *)
(* wait_status record (spec section 5, ordering guarantees).              *)
ChildRunsAfterPublish ==
  \A c \in Tids \ {InitialTid} :
    pc[c] \in UserPcs => parent_wait_status[c] # NULL
-----------------------------------------------------------------------------
(***************************************************************************)
(* Refinement of WaitStatus.  A record that exists is running until the   *)
(* child has stored its exit code, exited after that, and reaped once a   *)
(* wait has consumed it; its parent is the thread whose child_processes   *)
(* lists it.  waitRet is the f->eax of the thread's last call if that was *)
(* a wait.  Locks, counts, semaphores and frees have no abstract          *)
(* counterpart: the steps that touch only them are stuttering steps.      *)
(***************************************************************************)
ListedBy(c) == {p \in Tids : c \in ToSet(children[p])}

status_m ==
  [c \in Tids |-> IF ws[c].state = "none" THEN "none"
                  ELSE IF \E p \in Tids : c \in reaped[p] THEN "reaped"
                  ELSE IF exitStatus[c] # NULL THEN "exited"
                  ELSE "running"]

parent_m ==
  [c \in Tids |-> IF ListedBy(c) = {} THEN NULL ELSE CHOOSE p \in ListedBy(c) : TRUE]

code_m ==
  [c \in Tids |-> IF ws[c].state = "none" \/ exitStatus[c] = NULL THEN EXIT_UNKNOWN
                  ELSE exitStatus[c]]

waitRet_m ==
  [t \in Tids |-> IF ret[t].call = "wait" THEN [arg |-> ret[t].arg, val |-> ret[t].val]
                  ELSE [arg |-> 0, val |-> 0]]

WS == INSTANCE WaitStatus WITH Codes <- ExitCodes \cup {EXIT_KILLED},
        status <- status_m, parent <- parent_m, code <- code_m,
        waitRet <- waitRet_m

(* process_execute, process_wait, syscall_exit/force_exit and            *)
(* process_exit together implement the promise of WaitStatus: an exec'd  *)
(* child's code, stored when it exits, is returned by exactly one wait   *)
(* of its parent, only after the exit, and every other wait returns -1.  *)
WaitStatusRefined == WS!ASpec
=============================================================================
