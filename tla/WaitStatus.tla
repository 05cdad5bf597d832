------------------------------ MODULE WaitStatus ------------------------------
(***************************************************************************)
(* What the wait_status protocol of pintos promises (spec section 8), with *)
(* no locks, counts or semaphores: each child a successful exec returns    *)
(* is running, then exited with the code it passed to exit, then reaped   *)
(* by one wait of its parent, which returns that code.  Every other wait  *)
(* returns -1.  ProcessLifecycle implements this module under the mapping *)
(* given there (WaitStatusRefined).                                       *)
(***************************************************************************)
EXTENDS Integers

CONSTANTS
  Tids,        \* thread ids
  Codes,       \* exit codes, -1 (killed) included
  NULL

NoCode == -2                         \* no exit code yet
NoWait == [arg |-> 0, val |-> 0]     \* the last call was not a wait

VARIABLES
  status,      \* per child: "none", "running", "exited" or "reaped"
  parent,      \* per child: the thread exec returned it to, or NULL
  code,        \* per child: the code it exited with, or NoCode
  waitRet      \* per thread: what its last wait returned, or NoWait

avars == << status, parent, code, waitRet >>

ATypeOK ==
  /\ status \in [Tids -> {"none", "running", "exited", "reaped"}]
  /\ parent \in [Tids -> Tids \cup {NULL}]
  /\ code \in [Tids -> Codes \cup {NoCode}]
  /\ waitRet \in [Tids -> {NoWait} \cup [arg : Tids, val : Codes]]

AInit ==
  /\ status = [c \in Tids |-> "none"]
  /\ parent = [c \in Tids |-> NULL]
  /\ code = [c \in Tids |-> NoCode]
  /\ waitRet = [t \in Tids |-> NoWait]

(* exec returns the tid of a new child, which is running. *)
Spawn(p, c) ==
  /\ status[c] = "none"
  /\ status' = [status EXCEPT ![c] = "running"]
  /\ parent' = [parent EXCEPT ![c] = p]
  /\ waitRet' = [waitRet EXCEPT ![p] = NoWait]
  /\ UNCHANGED code

(* A child exits with a code; its parent can now collect it. *)
ChildExit(c, k) ==
  /\ status[c] = "running"
  /\ status' = [status EXCEPT ![c] = "exited"]
  /\ code' = [code EXCEPT ![c] = k]
  /\ waitRet' = [waitRet EXCEPT ![c] = NoWait]
  /\ UNCHANGED parent

(* wait on an exited child of p returns its code, once. *)
Reap(p, c) ==
  /\ parent[c] = p /\ status[c] = "exited"
  /\ status' = [status EXCEPT ![c] = "reaped"]
  /\ waitRet' = [waitRet EXCEPT ![p] = [arg |-> c, val |-> code[c]]]
  /\ UNCHANGED << parent, code >>

(* wait returns -1 for a tid that is not a collectable child of p, or   *)
(* whose collectable code is -1 anyway.                                 *)
WaitFails(p, tid) ==
  /\ \/ parent[tid] # p
     \/ status[tid] \in {"none", "reaped"}
     \/ status[tid] = "exited" /\ code[tid] = -1
  /\ waitRet' = [waitRet EXCEPT ![p] = [arg |-> tid, val |-> -1]]
  /\ UNCHANGED << status, parent, code >>

(* Any other call: a failed exec, or the exit of a thread no parent     *)
(* knows about.                                                         *)
OtherCall(p) ==
  /\ waitRet' = [waitRet EXCEPT ![p] = NoWait]
  /\ UNCHANGED << status, parent, code >>

(* The parent, exiting, forgets some children that have exited. *)
Release(S) ==
  /\ \A c \in S : parent[c] # NULL /\ status[c] \in {"exited", "reaped"}
  /\ parent' = [c \in Tids |-> IF c \in S THEN NULL ELSE parent[c]]
  /\ UNCHANGED << status, code, waitRet >>

ANext ==
  \/ \E p, c \in Tids : Spawn(p, c) \/ Reap(p, c) \/ WaitFails(p, c)
  \/ \E c \in Tids, k \in Codes : ChildExit(c, k)
  \/ \E p \in Tids : OtherCall(p)
  \/ \E S \in SUBSET Tids : Release(S)

ASpec == AInit /\ [][ANext]_avars
=============================================================================
