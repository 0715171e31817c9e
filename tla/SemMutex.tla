----------------------------- MODULE SemMutex -----------------------------
(***************************************************************************)
(* What a POSIX semaphore created with initial value 1 promises when it is *)
(* used as a lock (sem_wait to enter, sem_post to leave): each semaphore  *)
(* object has at most one owner; a process takes a free object, and only  *)
(* the owner frees it.  Nothing obliges an owner ever to leave, since a   *)
(* process can exit while it holds the object.                             *)
(***************************************************************************)
CONSTANTS
  Procs,    \* the processes that lock
  Objs,     \* the semaphore objects
  NoOwner   \* owner of a free object, not in Procs

VARIABLE owner

TypeOK == owner \in [Objs -> Procs \cup {NoOwner}]

Init == owner = [s \in Objs |-> NoOwner]

(* sem_wait returns on a free object.                                     *)
Acquire(p, s) ==
  /\ owner[s] = NoOwner
  /\ owner' = [owner EXCEPT ![s] = p]

(* sem_post by the process that holds the object.                         *)
Release(p, s) ==
  /\ owner[s] = p
  /\ owner' = [owner EXCEPT ![s] = NoOwner]

Next == \E p \in Procs, s \in Objs : Acquire(p, s) \/ Release(p, s)

Spec == Init /\ [][Next]_owner
====
