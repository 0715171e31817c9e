----------------------------- MODULE FileLock -----------------------------
(***************************************************************************)
(* Per-file locking with named POSIX semaphores (src/server.c READF,      *)
(* WRITET, DOWNLOAD, UPLOAD and src/client.c UPLOAD).                      *)
(*                                                                         *)
(* A session is a client together with its handler process.  Each file    *)
(* command opens the semaphore named client_sem.<file> with O_CREAT and   *)
(* initial value 1, waits on it, does its file I/O, then sem_post,        *)
(* sem_close and sem_unlink.  The name table and the semaphore objects    *)
(* are separate: sem_open of a bound name returns the object bound to it, *)
(* sem_open of an unbound name creates a fresh object, and sem_unlink     *)
(* only removes the name (processes holding the object keep using it).    *)
(*                                                                         *)
(* UPLOAD is split between the two processes of the session: the client  *)
(* takes the file lock and sends the chunks; the handler checks whether   *)
(* the file exists, creates it with O_TRUNC and writes the chunks it      *)
(* receives, without taking the lock.  The chunk loop is one chunk.       *)
(***************************************************************************)
EXTENDS Integers, FiniteSets

CONSTANTS
  Sessions,   \* client/handler pairs (model values)
  Files,      \* file names used in commands (model values)
  Ops,        \* commands the users issue: subset of FileOps
  MaxOps,     \* commands each session issues
  Present,    \* files that exist in the served directory at start
  MaxInterrupts \* signals that reach a process during a file command

FileOps == {"READF", "WRITET", "DOWNLOAD", "UPLOAD"}

ASSUME /\ Ops \subseteq FileOps
       /\ MaxOps \in Nat
       /\ Present \subseteq Files
       /\ MaxInterrupts \in Nat

(* Every command opens at most one semaphore, so this many objects exist  *)
(* at most; 0 stands for "no semaphore".                                  *)
MaxSems == Cardinality(Sessions) * MaxOps
SemIds == 1..MaxSems

VARIABLES
  exists,    \* the files present in the directory
  bound,     \* name table: client_sem.<file> -> semaphore object (0: unbound)
  semval,    \* value of each semaphore object
  nsem,      \* semaphore objects created so far
  pc,        \* handler (READF/WRITET/DOWNLOAD) or client (UPLOAD) control
  spc,       \* the handler's side of an UPLOAD
  op,        \* command being executed
  file,      \* its file argument
  sem,       \* sem_t * returned by sem_open
  issued,    \* commands issued so far
  word,      \* is_file_exist byte written by the handler for an UPLOAD
  frames,    \* chunks sent by the client, not yet written by the handler
  exitSent,  \* the client has sent the is_exit frame of its UPLOAD
  held,      \* semaphore objects a session is past sem_wait on and has not posted
  interrupts \* such signals so far

vars == <<exists, bound, semval, nsem, pc, spc, op, file, sem, issued,
          word, frames, exitSent, held, interrupts>>
nameVars == <<bound, semval, nsem>>
uploadVars == <<spc, word, frames, exitSent>>

Init ==
  /\ exists = [f \in Files |-> f \in Present]
  /\ bound = [f \in Files |-> 0]
  /\ semval = [s \in SemIds |-> 0]
  /\ nsem = 0
  /\ pc = [p \in Sessions |-> "idle"]
  /\ spc = [p \in Sessions |-> "idle"]
  /\ op = [p \in Sessions |-> "READF"]
  /\ file = [p \in Sessions |-> CHOOSE f \in Files : TRUE]
  /\ sem = [p \in Sessions |-> 0]
  /\ issued = [p \in Sessions |-> 0]
  /\ word = [p \in Sessions |-> "none"]
  /\ frames = [p \in Sessions |-> 0]
  /\ exitSent = [p \in Sessions |-> FALSE]
  /\ held = [p \in Sessions |-> {}]
  /\ interrupts = 0

-----------------------------------------------------------------------------
(* The user types a file command; for UPLOAD the command reaches the      *)
(* handler at once, and both processes of the session start on it.        *)
Issue(p, o, f) ==
  /\ pc[p] = "idle"
  /\ spc[p] = "idle"
  /\ issued[p] < MaxOps
  /\ issued' = [issued EXCEPT ![p] = @ + 1]
  /\ op' = [op EXCEPT ![p] = o]
  /\ file' = [file EXCEPT ![p] = f]
  /\ pc' = [pc EXCEPT ![p] = IF o = "DOWNLOAD" THEN "dl_open" ELSE "open"]
  /\ spc' = [spc EXCEPT ![p] = IF o = "UPLOAD" THEN "s_check" ELSE "idle"]
  /\ word' = [word EXCEPT ![p] = "none"]
  /\ frames' = [frames EXCEPT ![p] = 0]
  /\ exitSent' = [exitSent EXCEPT ![p] = FALSE]
  /\ UNCHANGED <<exists, nameVars, sem, held>>

(* DOWNLOAD opens the file before locking it; a missing file is reported *)
(* to the client and the command ends without the lock.                  *)
DownloadOpen(p) ==
  /\ pc[p] = "dl_open"
  /\ pc' = [pc EXCEPT ![p] = IF exists[file[p]] THEN "open" ELSE "idle"]
  /\ UNCHANGED <<exists, nameVars, spc, op, file, sem, issued, word, frames,
                 exitSent, held>>

(* sem_open(client_sem.<file>, O_CREAT, 0777, 1).                         *)
SemOpen(p) ==
  /\ pc[p] = "open"
  /\ IF bound[file[p]] # 0
       THEN /\ sem' = [sem EXCEPT ![p] = bound[file[p]]]
            /\ UNCHANGED nameVars
       ELSE /\ nsem < MaxSems
            /\ nsem' = nsem + 1
            /\ bound' = [bound EXCEPT ![file[p]] = nsem + 1]
            /\ semval' = [semval EXCEPT ![nsem + 1] = 1]
            /\ sem' = [sem EXCEPT ![p] = nsem + 1]
  /\ pc' = [pc EXCEPT ![p] = "wait"]
  /\ UNCHANGED <<exists, uploadVars, op, file, issued, held>>

(* sem_wait on the object the process opened.                             *)
SemWait(p) ==
  /\ pc[p] = "wait"
  /\ semval[sem[p]] > 0
  /\ semval' = [semval EXCEPT ![sem[p]] = @ - 1]
  /\ held' = [held EXCEPT ![p] = @ \cup {sem[p]}]
  /\ pc' = [pc EXCEPT ![p] = CASE op[p] \in {"READF", "WRITET"} -> "fopen"
                                [] op[p] = "DOWNLOAD"           -> "io"
                                [] OTHER                        -> "u_word"]
  /\ UNCHANGED <<exists, bound, nsem, uploadVars, op, file, sem, issued>>

(* A SIGINT reaches a process blocked in sem_wait(sem_file).  No         *)
(* SA_RESTART is set (sa_clean's flags are 0), so sem_wait returns -1     *)
(* with EINTR without decrementing, and the code, which never looks at    *)
(* the result, goes on as if it held the semaphore and posts it later.    *)
SemWaitInterrupted(p) ==
  /\ pc[p] = "wait"
  /\ semval[sem[p]] = 0
  /\ interrupts < MaxInterrupts
  /\ interrupts' = interrupts + 1
  /\ held' = [held EXCEPT ![p] = @ \cup {sem[p]}]
  /\ pc' = [pc EXCEPT ![p] = CASE op[p] \in {"READF", "WRITET"} -> "fopen"
                                [] op[p] = "DOWNLOAD"           -> "io"
                                [] OTHER                        -> "u_word"]
  /\ UNCHANGED <<exists, nameVars, uploadVars, op, file, sem, issued>>

(* READF: open(O_RDONLY) of an existing file ...                          *)
ReadOpen(p) ==
  /\ pc[p] = "fopen"
  /\ op[p] = "READF"
  /\ exists[file[p]]
  /\ pc' = [pc EXCEPT ![p] = "io"]
  /\ UNCHANGED <<exists, nameVars, uploadVars, op, file, sem, issued, held>>

(* ... or of a missing one: perror and exit(EXIT_FAILURE), lock held.     *)
ReadOpenFails(p) ==
  /\ pc[p] = "fopen"
  /\ op[p] = "READF"
  /\ ~exists[file[p]]
  /\ pc' = [pc EXCEPT ![p] = "crashed"]
  /\ UNCHANGED <<exists, nameVars, uploadVars, op, file, sem, issued, held>>

(* WRITET: open(O_RDWR | O_CREAT) creates a missing file.                 *)
WriteOpen(p) ==
  /\ pc[p] = "fopen"
  /\ op[p] = "WRITET"
  /\ exists' = [exists EXCEPT ![file[p]] = TRUE]
  /\ pc' = [pc EXCEPT ![p] = "io"]
  /\ UNCHANGED <<nameVars, uploadVars, op, file, sem, issued, held>>

(* The chunked read (READF, DOWNLOAD) or the insert/append (WRITET).      *)
FileIO(p) ==
  /\ pc[p] = "io"
  /\ pc' = [pc EXCEPT ![p] = "post"]
  /\ UNCHANGED <<exists, nameVars, uploadVars, op, file, sem, issued, held>>

(* Mutant: WRITET returns without its sem_post.                           *)
SemPostSkipWriteT(p) ==
  /\ pc[p] = "post"
  /\ semval' = IF op[p] = "WRITET" THEN semval
               ELSE [semval EXCEPT ![sem[p]] = @ + 1]
  /\ held' = [held EXCEPT ![p] = @ \ {sem[p]}]
  /\ pc' = [pc EXCEPT ![p] = "unlink"]
  /\ UNCHANGED <<exists, bound, nsem, uploadVars, op, file, sem, issued>>

(* sem_post(sem_file).                                                    *)
SemPost(p) ==
  /\ pc[p] = "post"
  /\ semval' = [semval EXCEPT ![sem[p]] = @ + 1]
  /\ held' = [held EXCEPT ![p] = @ \ {sem[p]}]
  /\ pc' = [pc EXCEPT ![p] = "unlink"]
  /\ UNCHANGED <<exists, bound, nsem, uploadVars, op, file, sem, issued>>

(* sem_close(sem_file); sem_unlink(file_sem_name): the name is removed    *)
(* whatever object it is bound to by now.  The client of an UPLOAD then   *)
(* sends its is_exit frame.                                               *)
SemUnlink(p) ==
  /\ pc[p] = "unlink"
  /\ bound' = [bound EXCEPT ![file[p]] = 0]
  /\ pc' = [pc EXCEPT ![p] = IF op[p] = "UPLOAD" THEN "u_exit" ELSE "idle"]
  /\ UNCHANGED <<exists, semval, nsem, uploadVars, op, file, sem, issued, held>>

(* A signal while the handler writes a reply frame to the client in the  *)
(* READF chunk loop or the DOWNLOAD loop: SIGINT (from the terminal or    *)
(* the acceptor's shutdown) makes write() fail with EINTR, and the        *)
(* handler exits (READF after clean_up and killing the client, DOWNLOAD   *)
(* after closing its FIFOs); SIGPIPE, when the client has gone, kills it. *)
(* Either way sem_post, sem_close and sem_unlink of the file semaphore    *)
(* are skipped.                                                            *)
Interrupted(p) ==
  /\ pc[p] = "io"
  /\ op[p] \in {"READF", "DOWNLOAD"}
  /\ interrupts < MaxInterrupts
  /\ interrupts' = interrupts + 1
  /\ pc' = [pc EXCEPT ![p] = "crashed"]
  /\ UNCHANGED <<exists, nameVars, uploadVars, op, file, sem, issued, held>>

-----------------------------------------------------------------------------
(***************************************************************************)
(* UPLOAD: the client's side (client.c) ...                               *)
(***************************************************************************)

(* read() of the handler's is_file_exist byte, with the lock held: if the *)
(* file exists the client returns to its prompt, the lock still held.     *)
ReadExistWord(p) ==
  /\ pc[p] = "u_word"
  /\ word[p] # "none"
  /\ pc' = [pc EXCEPT ![p] = IF word[p] = "exists" THEN "idle" ELSE "u_send"]
  /\ UNCHANGED <<exists, nameVars, uploadVars, op, file, sem, issued, held>>

(* Write the local file's chunk to the handler; sem_post(connection sem). *)
SendChunk(p) ==
  /\ pc[p] = "u_send"
  /\ frames' = [frames EXCEPT ![p] = @ + 1]
  /\ pc' = [pc EXCEPT ![p] = "post"]
  /\ UNCHANGED <<exists, nameVars, spc, word, exitSent, op, file, sem, issued, held>>

(* After releasing the lock, write the is_exit frame.                     *)
SendExit(p) ==
  /\ pc[p] = "u_exit"
  /\ exitSent' = [exitSent EXCEPT ![p] = TRUE]
  /\ pc' = [pc EXCEPT ![p] = "idle"]
  /\ UNCHANGED <<exists, nameVars, spc, word, frames, op, file, sem, issued, held>>

(***************************************************************************)
(* ... and the handler's side (server.c), which takes no lock.            *)
(***************************************************************************)

(* access(F_OK), then write is_file_exist; an existing file ends the      *)
(* command.                                                               *)
ServerCheck(p) ==
  /\ spc[p] = "s_check"
  /\ word' = [word EXCEPT ![p] = IF exists[file[p]] THEN "exists" ELSE "absent"]
  /\ spc' = [spc EXCEPT ![p] = IF exists[file[p]] THEN "idle" ELSE "s_trunc"]
  /\ UNCHANGED <<exists, nameVars, pc, frames, exitSent, op, file, sem, issued, held>>

(* open(O_WRONLY | O_CREAT | O_TRUNC): creates, or empties, the file.     *)
ServerTruncate(p) ==
  /\ spc[p] = "s_trunc"
  /\ exists' = [exists EXCEPT ![file[p]] = TRUE]
  /\ spc' = [spc EXCEPT ![p] = "s_recv"]
  /\ UNCHANGED <<nameVars, pc, word, frames, exitSent, op, file, sem, issued, held>>

(* Read a chunk frame and write it to the file.                           *)
ServerWrite(p) ==
  /\ spc[p] = "s_recv"
  /\ frames[p] > 0
  /\ frames' = [frames EXCEPT ![p] = @ - 1]
  /\ UNCHANGED <<exists, nameVars, pc, spc, word, exitSent, op, file, sem,
                 issued, held>>

(* Read the is_exit frame: close the file, back to the command loop.      *)
ServerFinish(p) ==
  /\ spc[p] = "s_recv"
  /\ frames[p] = 0
  /\ exitSent[p]
  /\ spc' = [spc EXCEPT ![p] = "idle"]
  /\ UNCHANGED <<exists, nameVars, pc, word, frames, exitSent, op, file, sem,
                 issued, held>>

-----------------------------------------------------------------------------

SessionStep(p) ==
  /\ \/ DownloadOpen(p) \/ SemOpen(p) \/ SemWait(p)
     \/ ReadOpen(p) \/ ReadOpenFails(p) \/ WriteOpen(p) \/ FileIO(p)
     \/ SemPost(p) \/ SemUnlink(p)
     \/ ReadExistWord(p) \/ SendChunk(p) \/ SendExit(p)
     \/ ServerCheck(p) \/ ServerTruncate(p) \/ ServerWrite(p) \/ ServerFinish(p)
  /\ UNCHANGED interrupts

Next ==
  \E p \in Sessions :
    \/ \E o \in Ops, f \in Files : Issue(p, o, f) /\ UNCHANGED interrupts
    \/ SessionStep(p)
    \/ SemWaitInterrupted(p)
    \/ Interrupted(p)

(* Each process of a session runs whenever it is not blocked; a user is   *)
(* never obliged to type another command.                                 *)
Spec == Init /\ [][Next]_vars /\ \A p \in Sessions : WF_vars(SessionStep(p))

-----------------------------------------------------------------------------
PCs == {"idle", "dl_open", "open", "wait", "fopen", "io", "post", "unlink",
        "u_word", "u_send", "u_exit", "crashed"}

(* Types.                                                                  *)
TypeOK ==
  /\ exists \in [Files -> BOOLEAN]
  /\ bound \in [Files -> {0} \cup SemIds]
  /\ semval \in [SemIds -> Nat]
  /\ nsem \in 0..MaxSems
  /\ pc \in [Sessions -> PCs]
  /\ spc \in [Sessions -> {"idle", "s_check", "s_trunc", "s_recv"}]
  /\ op \in [Sessions -> FileOps]
  /\ file \in [Sessions -> Files]
  /\ sem \in [Sessions -> {0} \cup SemIds]
  /\ issued \in [Sessions -> 0..MaxOps]
  /\ word \in [Sessions -> {"none", "exists", "absent"}]
  /\ frames \in [Sessions -> 0..1]
  /\ exitSent \in [Sessions -> BOOLEAN]
  /\ held \in [Sessions -> SUBSET SemIds]
  /\ interrupts \in 0..MaxInterrupts

(* A process doing I/O on its file: a handler in its READF/WRITET/        *)
(* DOWNLOAD loop, or an UPLOAD handler about to truncate the file or with *)
(* a received chunk still to write.                                       *)
InIO(p) ==
  \/ pc[p] = "io"
  \/ spc[p] = "s_trunc"
  \/ spc[p] = "s_recv" /\ frames[p] > 0

(* spec.md 4.4: at most one session reads or modifies a given file at a   *)
(* time, which the code means client_sem.<file> to guarantee.             *)
MutualExclusion ==
  \A f \in Files : Cardinality({p \in Sessions : file[p] = f /\ InIO(p)}) <= 1

(* A session blocked in sem_wait on a file's semaphore eventually gets it *)
(* (every exit path of a lock holder releases the lock).                  *)
LockEventuallyAcquired ==
  \A p \in Sessions : pc[p] = "wait" ~> pc[p] # "wait"

(* Between sem_wait and sem_post of one file command.                     *)
Locked == {"fopen", "io", "post", "u_word", "u_send"}

(* A semaphore object is abandoned when a session holds it outside the    *)
(* command that took it: the handler exited in between (READF of a        *)
(* missing file, EINTR on a write), or the UPLOAD client returned to its  *)
(* prompt with it, and may since have come back to wait on it.            *)
Abandoned(s) ==
  \E q \in Sessions : s \in held[q] /\ ~(pc[q] \in Locked /\ sem[q] = s)

(* A session blocked in sem_wait eventually gets the semaphore unless a   *)
(* session abandoned it: on every path of READF, WRITET, DOWNLOAD and     *)
(* UPLOAD, with signals, no lock is lost without its holder's exit or     *)
(* early return, and live holders never wait on each other.               *)
WaitEndsUnlessAbandoned ==
  \A p \in Sessions : pc[p] = "wait" ~> (pc[p] # "wait" \/ Abandoned(sem[p]))

-----------------------------------------------------------------------------
(* Refinement mapping onto SemMutex: the owner of a semaphore object is   *)
(* the session that has waited on it and not posted it.                   *)
Holders(s) == {p \in Sessions : s \in held[p]}
Owner == [s \in SemIds |-> IF Holders(s) = {} THEN "free"
                                               ELSE CHOOSE p \in Holders(s) : TRUE]

Mutex == INSTANCE SemMutex WITH Procs <- Sessions, Objs <- SemIds,
                                NoOwner <- "free", owner <- Owner

(* Every semaphore object behind client_sem.<file> is used as a mutex     *)
(* (spec 4.4): whichever name binds it, across sem_open of a bound name,  *)
(* sem_unlink and the error exits that keep it, a process gets past       *)
(* sem_wait only on a free object and only its holder's sem_post frees it. *)
SemaphoresAreMutexes == Mutex!Spec
====
