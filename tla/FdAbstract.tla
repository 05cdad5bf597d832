------------------------------ MODULE FdAbstract ------------------------------
(***************************************************************************)
(* What a process's descriptor table promises (spec sections 3 and 4.5,   *)
(* OPEN and CLOSE, scenario 5), without slots, free lists or counters: a   *)
(* map from descriptor ids to open files.  open either fails with -1 or   *)
(* binds a free id to a new file; it reuses an id that was issued and     *)
(* closed before it issues a new one, and new ids are issued in order.     *)
(* close unbinds an id; the other calls leave the table alone; exit        *)
(* closes everything.                                                      *)
(***************************************************************************)
EXTENDS Integers, FiniteSets

CONSTANTS MAX_FD, Handles, NULL

Ids == 2 .. MAX_FD + 1

VARIABLES
  table,    \* id -> the file it is bound to, or NULL
  issued,   \* the ids ever handed out and not yet torn down by exit
  rv,       \* f->eax, what the last call returned
  live      \* the process has not exited

absVars == << table, issued, rv, live >>

Bound == {d \in Ids : table[d] # NULL}

AInit ==
  /\ table = [d \in Ids |-> NULL]
  /\ issued = {}
  /\ live = TRUE

(* open succeeds: a closed, previously issued id if there is one, else   *)
(* the next new id, while fewer than MAX_FD have been issued.            *)
AOpen ==
  /\ live
  /\ \E d \in Ids, h \in Handles :
       /\ table[d] = NULL
       /\ h \notin {table[e] : e \in Bound}
       /\ IF issued \ Bound # {} THEN d \in issued \ Bound
          ELSE d = Cardinality(issued) + 2
       /\ table' = [table EXCEPT ![d] = h]
       /\ issued' = issued \cup {d}
       /\ rv' = d
  /\ UNCHANGED live

(* close of a bound id. *)
AClose ==
  /\ live
  /\ \E d \in Bound : table' = [table EXCEPT ![d] = NULL]
  /\ UNCHANGED << issued, live >>

(* Any call that binds or unbinds nothing (a failed open or close, a     *)
(* query, a read or write): only the return value may change.            *)
AOther == /\ UNCHANGED << table, issued, live >>

(* exit: every file is closed and the process is gone. *)
AExit ==
  /\ live
  /\ table' = [d \in Ids |-> NULL]
  /\ issued' = {}
  /\ live' = FALSE

ANext == AOpen \/ AClose \/ AOther \/ AExit

ASpec == AInit /\ [][ANext]_absVars
=============================================================================
