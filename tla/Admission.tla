----------------------------- MODULE Admission -----------------------------
(***************************************************************************)
(* The server's connection lifecycle (src/server.c, src/client.c).         *)
(*                                                                         *)
(* Processes: the acceptor (bibo_server's loop in the parent), one forked  *)
(* handler child per connection request, and the client processes.         *)
(* Shared state between processes: queue->size and *counter in POSIX      *)
(* shared memory, the named semaphore free_slot_sem, and per client the    *)
(* response shm cell and the client_connection_sem semaphore.              *)
(*                                                                         *)
(* queue->size++ (acceptor) and queue->size-- and *counter += 1 (handlers) *)
(* are unsynchronised read-modify-writes on memory shared by several       *)
(* processes: each is a load step and a store step, so lost updates are    *)
(* among the behaviours.  Signals (SIGINT) are pending bits delivered when *)
(* the receiver has them unmasked; delivery runs cleaner_signal_handler    *)
(* and interrupts the blocking call the receiver is in (no SA_RESTART).    *)
(*                                                                         *)
(* A session's commands other than quit and killServer are modelled in    *)
(* the session module; here a connected user sends QUIT or KILLSERVER.     *)
(***************************************************************************)
EXTENDS Integers, FiniteSets, Sequences

CONSTANTS
  Clients,       \* client processes (model values), one session each
  MaxClients,    \* the server's <max. #ofClients> argument
  Commands,      \* commands a connected user may type: subset of {QUIT, KILLSERVER}
  MaxInterrupts, \* bound on SIGINTs the operator sends to the server process
  MaxForkFails   \* bound on fork() calls that fail (-1, EAGAIN)

ASSUME /\ MaxClients \in Nat \ {0}
       /\ Commands \subseteq {"QUIT", "KILLSERVER"}
       /\ MaxInterrupts \in Nat
       /\ MaxForkFails \in Nat

Modes == {"CONNECT", "TRY_CONNECT"}
Statuses == {"WAITING", "CONNECTED", "LEAVE"}

VARIABLES
  requests,   \* server FIFO: sequence of client pids not yet read
  size,       \* queue->size (shared memory)
  counter,    \* *counter (shared memory)
  freeSlot,   \* value of free_slot_sem
  apc,        \* acceptor program counter
  acur,       \* client_info of the request the acceptor is handling
  atmp,       \* acceptor register for the non-atomic size++
  children,   \* child_pids[0..num_children-1] of the acceptor
  maxChild,   \* max_child: the number of pid_t the child_pids array holds
  forkFails,  \* fork() calls that have failed so far
  reaped,     \* children the acceptor's waitpid loop has reaped
  apend,      \* SIGINT pending for the acceptor
  hpc,        \* handler program counter per client ("none" = not forked)
  htmp,       \* handler register for the non-atomic counter/size updates
  hid,        \* current_client->counter_id (-1 = unset)
  hsig,       \* signal_received in the handler's address space
  hmask,      \* SIGINT blocked by add_mask and not yet remove_mask'ed
  known,      \* the handler's copy of child_pids taken at fork
  hpend,      \* SIGINT pending for the handler
  mode,       \* connection_type of the client's request
  status,     \* the client's response shm cell (zero-filled: WAITING)
  conn,       \* value of the client's client_connection_sem
  cpc,        \* client program counter
  cmd,        \* command in the client's write FIFO, not yet read
  resp,       \* the exit frame has been written to the client's read FIFO
  cpend,      \* SIGINT pending for the client
  interrupts  \* SIGINTs sent by the operator so far

\* The globals of server.c and of client.c, and the shm cells.
acceptorVars == <<requests, apc, acur, atmp, children, maxChild, forkFails,
                  reaped, apend>>
handlerVars == <<hpc, htmp, hid, hsig, hmask, known, hpend>>
clientVars == <<mode, status, conn, cpc, cmd, resp, cpend>>
sharedVars == <<size, counter, freeSlot>>
vars == <<acceptorVars, handlerVars, clientVars, sharedVars, interrupts>>

HandlerAlive(c) == hpc[c] \notin {"none", "exit"}
ClientAlive(c) == cpc[c] \notin {"left", "exited"}
Forked == {c \in Clients : hpc[c] # "none"}

(* kill(pid, SIGINT) to each pid of a set: only live processes notice.    *)
KillHandlers(S) == [d \in Clients |-> hpend[d] \/ (d \in S /\ HandlerAlive(d))]
KillClient(c) == cpend' = [cpend EXCEPT ![c] = ClientAlive(c) \/ @]

(* init_queue: the queue_t of queue_create copied into a fresh shm.      *)
InitQueue == size = 0

(* init_counter maps the shm "/COUNTER"; bibo_server then sets *counter=0. *)
InitCounter == counter = 0

(* init_free_slot_sem: sem_open(..., O_CREAT | O_EXCL, 0777, 0).          *)
InitFreeSlotSem == freeSlot = 0

(* bibo_server before its loop: child_pids = malloc(max_clients pids),    *)
(* max_child = max_clients, num_children = 0, no child forked yet.       *)
InitAcceptor ==
  /\ requests = <<>>
  /\ apc = "read"
  /\ acur = CHOOSE c \in Clients : TRUE
  /\ atmp = 0
  /\ children = {}
  /\ maxChild = MaxClients
  /\ forkFails = 0
  /\ reaped = {}
  /\ apend = FALSE
  /\ hpc = [c \in Clients |-> "none"]
  /\ htmp = [c \in Clients |-> 0]
  /\ hid = [c \in Clients |-> -1]
  /\ hsig = [c \in Clients |-> FALSE]
  /\ hmask = [c \in Clients |-> FALSE]
  /\ known = [c \in Clients |-> {}]
  /\ hpend = [c \in Clients |-> FALSE]

(* create_res_shm: shm_open(O_CREAT) and ftruncate give a zero-filled    *)
(* response cell, and WAITING is 0.                                       *)
InitResShm == status = [c \in Clients |-> "WAITING"]

(* create_client_connection_sem: sem_open(..., O_CREAT | O_EXCL, 0777, 0). *)
InitConnSem == conn = [c \in Clients |-> 0]

(* The client's main up to bibo_client: the FIFOs, the semaphore and the  *)
(* response cell exist, no request is sent yet.                           *)
InitClients ==
  /\ InitResShm /\ InitConnSem
  /\ mode = [c \in Clients |-> "CONNECT"]
  /\ cpc = [c \in Clients |-> "init"]
  /\ cmd = [c \in Clients |-> "none"]
  /\ resp = [c \in Clients |-> FALSE]
  /\ cpend = [c \in Clients |-> FALSE]

Init ==
  /\ InitAcceptor /\ InitQueue /\ InitCounter /\ InitFreeSlotSem
  /\ InitClients
  /\ interrupts = 0

-----------------------------------------------------------------------------
(***************************************************************************)
(* Acceptor: bibo_server's while (1) loop and its signal handling.         *)
(***************************************************************************)

(* read_request: read one connection_request_t from the server FIFO.      *)
ReadRequest ==
  /\ apc = "read"
  /\ requests # <<>>
  /\ acur' = Head(requests)
  /\ requests' = Tail(requests)
  /\ apc' = "enq_load"
  /\ UNCHANGED <<atmp, children, maxChild, forkFails, reaped, apend, handlerVars, clientVars,
                 sharedVars, interrupts>>

(* queue_enqueue(queue, &client_info): queue->size++ on shared memory,    *)
(* as a load ...                                                          *)
EnqueueLoad ==
  /\ apc = "enq_load"
  /\ atmp' = size
  /\ apc' = "enq_store"
  /\ UNCHANGED <<requests, acur, children, maxChild, forkFails, reaped, apend, handlerVars,
                 clientVars, sharedVars, interrupts>>

(* ... and a store.                                                       *)
EnqueueStore ==
  /\ apc = "enq_store"
  /\ size' = atmp + 1
  /\ apc' = "fork"
  /\ UNCHANGED <<requests, acur, atmp, children, maxChild, forkFails, reaped, apend, handlerVars,
                 clientVars, counter, freeSlot, interrupts>>

(* fork(): the child starts with a copy of child_pids as it is now.       *)
Fork ==
  /\ apc = "fork"
  /\ hpc' = [hpc EXCEPT ![acur] = "forked"]
  /\ known' = [known EXCEPT ![acur] = children]
  /\ apc' = "record"
  /\ UNCHANGED <<requests, acur, atmp, children, maxChild, forkFails, reaped, apend, htmp, hid,
                 hsig, hmask, hpend, clientVars, sharedVars, interrupts>>

(* pid == -1: perror and continue.  The request stays counted in        *)
(* queue->size, and no child will ever answer its client.                 *)
ForkFails ==
  /\ apc = "fork"
  /\ forkFails < MaxForkFails
  /\ forkFails' = forkFails + 1
  /\ apc' = "read"
  /\ UNCHANGED <<requests, acur, atmp, children, maxChild, reaped, apend,
                 handlerVars, clientVars, sharedVars, interrupts>>

(* The parent branch: if num_children >= max_child, realloc child_pids to *)
(* twice max_child; then child_pids[num_children++] = pid.                *)
\* Mutant: the array is grown only once it is already over-full.
GrowWhenOver(n, cap) == IF n > cap THEN 2 * cap ELSE cap
GrowChildPids(n, cap) == IF n >= cap THEN 2 * cap ELSE cap

RecordChild ==
  /\ apc = "record"
  /\ maxChild' = GrowChildPids(Cardinality(children), maxChild)
  /\ children' = children \cup {acur}
  /\ apc' = "read"
  /\ UNCHANGED <<requests, acur, atmp, forkFails, reaped, apend, handlerVars,
                 clientVars, sharedVars, interrupts>>

(* The acceptor is blocked in read() or in waitpid().                     *)
ReadBlocked == apc = "read" /\ requests = <<>>
WaitBlocked == apc = "reap" /\ \A d \in Forked \ reaped : hpc[d] # "exit"

(* cleaner_signal_handler in the acceptor: SIGINT every recorded child    *)
(* and post free_slot_sem.  The signal interrupts a blocked read() (EINTR: *)
(* start the waitpid loop) or a blocked waitpid() (-1: perror and exit).  *)
(* Delivered at any other point it only runs the handler, and the loop    *)
(* goes on: errno is not EINTR when the next read() returns.              *)
AcceptorSignal ==
  /\ apend
  /\ apc # "exited"
  /\ apend' = FALSE
  /\ hpend' = KillHandlers(children)
  /\ freeSlot' = freeSlot + 1
  /\ apc' = CASE ReadBlocked -> "reap"
              []  WaitBlocked -> "exited"
              []  OTHER       -> apc
  /\ UNCHANGED <<requests, acur, atmp, children, maxChild, forkFails, reaped, hpc, htmp, hid,
                 hsig, hmask, known, clientVars, size, counter, interrupts>>

(* One waitpid(-1, ...) of the loop over num_children: reaps any child    *)
(* that has terminated.                                                   *)
Reap ==
  /\ apc = "reap"
  /\ Cardinality(reaped) < Cardinality(children)
  /\ \E d \in Forked \ reaped :
       /\ hpc[d] = "exit"
       /\ reaped' = reaped \cup {d}
  /\ UNCHANGED <<requests, apc, acur, atmp, children, maxChild, forkFails, apend, handlerVars,
                 clientVars, sharedVars, interrupts>>

(* The loop has run num_children times: the parent exits.                 *)
ReapDone ==
  /\ apc = "reap"
  /\ Cardinality(reaped) = Cardinality(children)
  /\ apc' = "exited"
  /\ UNCHANGED <<requests, acur, atmp, children, maxChild, forkFails, reaped, apend, handlerVars,
                 clientVars, sharedVars, interrupts>>

(* The operator interrupts the server process (kill -INT).                *)
Interrupt ==
  /\ interrupts < MaxInterrupts
  /\ apc # "exited"
  /\ apend' = TRUE
  /\ interrupts' = interrupts + 1
  /\ UNCHANGED <<requests, apc, acur, atmp, children, maxChild, forkFails, reaped, handlerVars,
                 clientVars, sharedVars>>

-----------------------------------------------------------------------------
(***************************************************************************)
(* Handler child: the pid == 0 branch of the fork and handle_client.       *)
(***************************************************************************)

(* Write the response shm cell and sem_post(client_connection_sem).       *)
Answer(c, st) ==
  /\ status' = [status EXCEPT ![c] = st]
  /\ conn' = [conn EXCEPT ![c] = @ + 1]

(* cleaner_signal_handler run in handler c.                               *)
RunHandler(c) ==
  /\ hsig' = [hsig EXCEPT ![c] = TRUE]
  /\ hpend' = [KillHandlers(known[c]) EXCEPT ![c] = FALSE]
  /\ freeSlot' = freeSlot + 1

(* add_mask: SIGINT, SIGQUIT and SIGTSTP blocked from here on.           *)
AddMask(c) == hmask' = [hmask EXCEPT ![c] = TRUE]

(* The child's first statement after fork(): add_mask.  Until then a     *)
(* SIGINT from the acceptor's handler runs cleaner_signal_handler.        *)
MaskSignals(c) ==
  /\ hpc[c] = "forked"
  /\ ~hmask[c]
  /\ AddMask(c)
  /\ UNCHANGED <<acceptorVars, hpc, htmp, hid, hsig, known, hpend,
                 clientVars, sharedVars, interrupts>>

(* remove_mask: a SIGINT that arrived while blocked is delivered now,     *)
(* before the next blocking call, which therefore is not interrupted.     *)
Unmask(c) ==
  /\ hmask' = [hmask EXCEPT ![c] = FALSE]
  /\ IF hpend[c] THEN RunHandler(c) ELSE UNCHANGED <<hsig, hpend, freeSlot>>

(* queue_peek returns NULL when queue->size is 0 (a lost update of the    *)
(* shared size), and the child dies of SIGSEGV at current_client->pid     *)
(* before it has answered its client.                                     *)
PeekEmpty(c) ==
  /\ hpc[c] = "forked"
  /\ hmask[c]
  /\ size = 0
  /\ hpc' = [hpc EXCEPT ![c] = "exit"]
  /\ UNCHANGED <<acceptorVars, htmp, hid, hsig, hmask, known, hpend,
                 clientVars, sharedVars, interrupts>>

(* queue_peek, then queue_size(queue) > max_clients for a               *)
(* tryConnect request: answer LEAVE and exit without dequeuing.           *)
CheckLeave(c) ==
  /\ hpc[c] = "forked"
  /\ hmask[c]
  /\ size > MaxClients
  /\ mode[c] = "TRY_CONNECT"
  /\ Answer(c, "LEAVE")
  /\ hpc' = [hpc EXCEPT ![c] = "exit"]
  /\ UNCHANGED <<acceptorVars, htmp, hid, hsig, hmask, known, hpend, mode, cpc,
                 cmd, resp, cpend, sharedVars, interrupts>>

(* ... for a connect request: remove_mask, answer WAITING, then block in  *)
(* sem_wait(free_slot_sem).                                               *)
CheckWait(c) ==
  /\ hpc[c] = "forked"
  /\ hmask[c]
  /\ size > MaxClients
  /\ mode[c] = "CONNECT"
  /\ Unmask(c)
  /\ Answer(c, "WAITING")
  /\ hpc' = [hpc EXCEPT ![c] = "waitslot"]
  /\ UNCHANGED <<acceptorVars, htmp, hid, known, mode, cpc, cmd, resp,
                 cpend, size, counter, interrupts>>

(* ... otherwise (queue_peek found the request) answer CONNECTED,        *)
(* signals still blocked.                                                 *)
CheckConnect(c) ==
  /\ hpc[c] = "forked"
  /\ hmask[c]
  /\ size # 0
  /\ size <= MaxClients
  /\ Answer(c, "CONNECTED")
  /\ hpc' = [hpc EXCEPT ![c] = "inc_load"]
  /\ UNCHANGED <<acceptorVars, htmp, hid, hsig, hmask, known, hpend, mode, cpc,
                 cmd, resp, cpend, sharedVars, interrupts>>

(* sem_wait(free_slot_sem) returns; signal_received is set: SIGINT the    *)
(* client and exit.                                                       *)
WakeCancelled(c) ==
  /\ hpc[c] = "waitslot"
  /\ freeSlot > 0
  /\ hsig[c]
  /\ freeSlot' = freeSlot - 1
  /\ hpc' = [hpc EXCEPT ![c] = "exit"]
  /\ KillClient(c)
  /\ UNCHANGED <<acceptorVars, htmp, hid, hsig, hmask, known, hpend, mode,
                 status, conn, cpc, cmd, resp, size, counter, interrupts>>

(* ... signal_received is clear: go on to take a session id.              *)
WakeAdmitted(c) ==
  /\ hpc[c] = "waitslot"
  /\ freeSlot > 0
  /\ ~hsig[c]
  /\ freeSlot' = freeSlot - 1
  /\ hpc' = [hpc EXCEPT ![c] = "inc_load"]
  /\ UNCHANGED <<acceptorVars, htmp, hid, hsig, hmask, known, hpend,
                 clientVars, size, counter, interrupts>>

(* *counter += 1 on shared memory: load ...                               *)
IncLoad(c) ==
  /\ hpc[c] = "inc_load"
  /\ htmp' = [htmp EXCEPT ![c] = counter]
  /\ hpc' = [hpc EXCEPT ![c] = "inc_store"]
  /\ UNCHANGED <<acceptorVars, hid, hsig, hmask, known, hpend, clientVars,
                 sharedVars, interrupts>>

(* ... store.                                                             *)
IncStore(c) ==
  /\ hpc[c] = "inc_store"
  /\ counter' = htmp[c] + 1
  /\ hpc' = [hpc EXCEPT ![c] = "read_id"]
  /\ UNCHANGED <<acceptorVars, htmp, hid, hsig, hmask, known, hpend,
                 clientVars, size, freeSlot, interrupts>>

(* current_client->counter_id = *counter reads the counter again; then    *)
(* handle_client's sem_post(client_connection_sem) lets the client open   *)
(* its FIFOs.                                                             *)
\* Mutant: the session id is taken from the value loaded before the
\* increment instead of re-reading *counter.
ReadIdBeforeIncrement(c) ==
  /\ hpc[c] = "read_id"
  /\ hid' = [hid EXCEPT ![c] = htmp[c]]
  /\ conn' = [conn EXCEPT ![c] = @ + 1]
  /\ hpc' = [hpc EXCEPT ![c] = "opening"]
  /\ UNCHANGED <<acceptorVars, htmp, hsig, hmask, known, hpend, mode,
                 status, cpc, cmd, resp, cpend, sharedVars, interrupts>>

ReadId(c) ==
  /\ hpc[c] = "read_id"
  /\ hid' = [hid EXCEPT ![c] = counter]
  /\ conn' = [conn EXCEPT ![c] = @ + 1]
  /\ hpc' = [hpc EXCEPT ![c] = "opening"]
  /\ UNCHANGED <<acceptorVars, htmp, hsig, hmask, known, hpend, mode,
                 status, cpc, cmd, resp, cpend, sharedVars, interrupts>>

(* Both FIFO opens block until the peer opens the other end; the handler  *)
(* then calls remove_mask and the session is established.                *)
OpenChannels(c) ==
  /\ hpc[c] = "opening"
  /\ cpc[c] = "opening"
  /\ Unmask(c)
  /\ hpc' = [hpc EXCEPT ![c] = "serving"]
  /\ cpc' = [cpc EXCEPT ![c] = "session"]
  /\ UNCHANGED <<acceptorVars, htmp, hid, known, mode, status, conn, cmd,
                 resp, cpend, size, counter, interrupts>>

(* killServer read: SIGINT the parent and the client, clean_up and exit   *)
(* without dequeuing.                                                     *)
ServeKill(c) ==
  /\ hpc[c] = "serving"
  /\ cmd[c] = "KILLSERVER"
  /\ cmd' = [cmd EXCEPT ![c] = "none"]
  /\ apend' = (apend \/ apc # "exited")
  /\ KillClient(c)
  /\ hpc' = [hpc EXCEPT ![c] = "exit"]
  /\ UNCHANGED <<requests, apc, acur, atmp, children, maxChild, forkFails, reaped, htmp, hid,
                 hsig, hmask, known, hpend, mode, status, conn, cpc, resp,
                 sharedVars, interrupts>>

(* quit read: write the is_exit frame, sem_post, then queue_dequeue.      *)
ServeQuit(c) ==
  /\ hpc[c] = "serving"
  /\ cmd[c] = "QUIT"
  /\ cmd' = [cmd EXCEPT ![c] = "none"]
  /\ resp' = [resp EXCEPT ![c] = TRUE]
  /\ conn' = [conn EXCEPT ![c] = @ + 1]
  /\ hpc' = [hpc EXCEPT ![c] = "deq_load"]
  /\ UNCHANGED <<acceptorVars, htmp, hid, hsig, hmask, known, hpend, mode,
                 status, cpc, cpend, sharedVars, interrupts>>

(* queue_dequeue on an empty queue returns NULL and changes nothing.      *)
DequeueEmpty(c) ==
  /\ hpc[c] = "deq_load"
  /\ size = 0
  /\ hpc' = [hpc EXCEPT ![c] = "post_check"]
  /\ UNCHANGED <<acceptorVars, htmp, hid, hsig, hmask, known, hpend,
                 clientVars, sharedVars, interrupts>>

(* queue->size-- on shared memory: load ...                               *)
DequeueLoad(c) ==
  /\ hpc[c] = "deq_load"
  /\ size > 0
  /\ htmp' = [htmp EXCEPT ![c] = size]
  /\ hpc' = [hpc EXCEPT ![c] = "deq_store"]
  /\ UNCHANGED <<acceptorVars, hid, hsig, hmask, known, hpend, clientVars,
                 sharedVars, interrupts>>

(* ... store.                                                             *)
DequeueStore(c) ==
  /\ hpc[c] = "deq_store"
  /\ size' = htmp[c] - 1
  /\ hpc' = [hpc EXCEPT ![c] = "post_check"]
  /\ UNCHANGED <<acceptorVars, htmp, hid, hsig, hmask, known, hpend,
                 clientVars, counter, freeSlot, interrupts>>

(* if (queue_size(queue) >= max_clients) sem_post(free_slot_sem); exit.   *)
PostFreeSlot(c) ==
  /\ hpc[c] = "post_check"
  /\ freeSlot' = IF size >= MaxClients THEN freeSlot + 1 ELSE freeSlot
  /\ hpc' = [hpc EXCEPT ![c] = "exit"]
  /\ UNCHANGED <<acceptorVars, htmp, hid, hsig, hmask, known, hpend,
                 clientVars, size, counter, interrupts>>

(* cleaner_signal_handler inherited by the child: set signal_received,    *)
(* SIGINT the siblings in its copy of child_pids, post free_slot_sem.     *)
(* The signal interrupts the blocking call the handler is in:             *)
(* sem_wait(free_slot_sem) returns and signal_received is seen (SIGINT   *)
(* the client, exit); open() of a FIFO fails (perror, exit); read() of a  *)
(* command returns EINTR (clean_up, SIGINT the client, exit).             *)
HandlerSignal(c) ==
  /\ hpend[c]
  /\ HandlerAlive(c)
  /\ ~hmask[c]
  /\ RunHandler(c)
  /\ hpc' = [hpc EXCEPT ![c] =
               IF @ \in {"waitslot", "opening", "serving"} THEN "exit" ELSE @]
  /\ IF hpc[c] \in {"waitslot", "serving"}
       THEN KillClient(c)
       ELSE UNCHANGED cpend
  /\ UNCHANGED <<acceptorVars, htmp, hid, hmask, known, mode, status, conn,
                 cpc, cmd, resp, size, counter, interrupts>>

-----------------------------------------------------------------------------
(***************************************************************************)
(* Client process: bibo_client up to the end of a session.                *)
(***************************************************************************)

(* The client's first argument, as check_usage admits it, and            *)
(* parse_connection_type's reading of it.                                 *)
ConnectionArgs == {"connect", "tryConnect"}
parse_connection_type(str) == IF str = "connect" THEN "CONNECT" ELSE "TRY_CONNECT"

(* send_connection_req: write {pid, connect|tryConnect} to the server     *)
(* FIFO, retried on EINTR (open() of the FIFO blocks forever once the     *)
(* server is gone).                                                       *)
Request(c, arg) ==
  /\ cpc[c] = "init"
  /\ apc # "exited"
  /\ requests' = Append(requests, c)
  /\ mode' = [mode EXCEPT ![c] = parse_connection_type(arg)]
  /\ cpc' = [cpc EXCEPT ![c] = "await_status"]
  /\ UNCHANGED <<apc, acur, atmp, children, maxChild, forkFails, reaped, apend, handlerVars,
                 status, conn, cmd, resp, cpend, sharedVars, interrupts>>

(* First sem_wait(client_connection_sem), check_connection_res: LEAVE     *)
(* makes the client exit ...                                              *)
ClientLeave(c) ==
  /\ cpc[c] = "await_status"
  /\ conn[c] > 0
  /\ status[c] = "LEAVE"
  /\ conn' = [conn EXCEPT ![c] = @ - 1]
  /\ cpc' = [cpc EXCEPT ![c] = "left"]
  /\ UNCHANGED <<acceptorVars, handlerVars, mode, status, cmd, resp, cpend,
                 sharedVars, interrupts>>

(* ... WAITING or CONNECTED make it wait again.                           *)
ClientProceed(c) ==
  /\ cpc[c] = "await_status"
  /\ conn[c] > 0
  /\ status[c] # "LEAVE"
  /\ conn' = [conn EXCEPT ![c] = @ - 1]
  /\ cpc' = [cpc EXCEPT ![c] = "await_go"]
  /\ UNCHANGED <<acceptorVars, handlerVars, mode, status, cmd, resp, cpend,
                 sharedVars, interrupts>>

(* Second sem_wait(client_connection_sem), then open the FIFOs.           *)
ClientGo(c) ==
  /\ cpc[c] = "await_go"
  /\ conn[c] > 0
  /\ conn' = [conn EXCEPT ![c] = @ - 1]
  /\ cpc' = [cpc EXCEPT ![c] = "opening"]
  /\ UNCHANGED <<acceptorVars, handlerVars, mode, status, cmd, resp, cpend,
                 sharedVars, interrupts>>

(* The user types quit or killServer; the command is written to the      *)
(* handler's FIFO.  After killServer the client exits at once.            *)
SendCommand(c, k) ==
  /\ cpc[c] = "session"
  /\ HandlerAlive(c)
  /\ cmd' = [cmd EXCEPT ![c] = k]
  /\ cpc' = [cpc EXCEPT ![c] = IF k = "QUIT" THEN "await_exit" ELSE "exited"]
  /\ UNCHANGED <<acceptorVars, handlerVars, mode, status, conn, resp, cpend,
                 sharedVars, interrupts>>

(* The write to a FIFO whose reader has exited raises SIGPIPE, which     *)
(* terminates the client.                                                 *)
BrokenPipe(c) ==
  /\ cpc[c] = "session"
  /\ ~HandlerAlive(c)
  /\ cpc' = [cpc EXCEPT ![c] = "exited"]
  /\ UNCHANGED <<acceptorVars, handlerVars, mode, status, conn, cmd, resp,
                 cpend, sharedVars, interrupts>>

(* sem_wait(client_connection_sem) before reading the reply ...           *)
ClientAwaitReply(c) ==
  /\ cpc[c] = "await_exit"
  /\ conn[c] > 0
  /\ conn' = [conn EXCEPT ![c] = @ - 1]
  /\ cpc' = [cpc EXCEPT ![c] = "read_exit"]
  /\ UNCHANGED <<acceptorVars, handlerVars, mode, status, cmd, resp, cpend,
                 sharedVars, interrupts>>

(* ... read() of the is_exit frame: the client exits.                     *)
ClientReadExit(c) ==
  /\ cpc[c] = "read_exit"
  /\ resp[c]
  /\ cpc' = [cpc EXCEPT ![c] = "exited"]
  /\ UNCHANGED <<acceptorVars, handlerVars, mode, status, conn, cmd, resp,
                 cpend, sharedVars, interrupts>>

(* read() returns 0 at end of file once the handler has exited; the      *)
(* uninitialised response's is_exit decides whether the client exits or  *)
(* loops back to sem_wait.                                                *)
ClientReadEOF(c) ==
  /\ cpc[c] = "read_exit"
  /\ ~resp[c]
  /\ ~HandlerAlive(c)
  /\ \E next \in {"exited", "await_exit"} : cpc' = [cpc EXCEPT ![c] = next]
  /\ UNCHANGED <<acceptorVars, handlerVars, mode, status, conn, cmd, resp,
                 cpend, sharedVars, interrupts>>

(* The client's cleaner_signal_handler only sets a flag nobody reads; the *)
(* SIGINT interrupts the blocking call: a sem_wait returns as if posted,  *)
(* open() fails (exit), fgets() fails and a QUIT is sent, read() fails    *)
(* ("Server is closed", exit).                                            *)
ClientSignal(c) ==
  /\ cpend[c]
  /\ ClientAlive(c)
  /\ cpend' = [cpend EXCEPT ![c] = FALSE]
  /\ cpc' = [cpc EXCEPT ![c] =
       CASE @ = "await_status" /\ status[c] = "LEAVE" -> "left"
         [] @ = "await_status"                       -> "await_go"
         [] @ = "await_go"                           -> "opening"
         [] @ = "session" /\ HandlerAlive(c)         -> "await_exit"
         [] @ = "await_exit"                         -> "read_exit"
         [] OTHER                                    -> "exited"]
  /\ cmd' = IF cpc[c] = "session" /\ HandlerAlive(c)
            THEN [cmd EXCEPT ![c] = "QUIT"] ELSE cmd
  /\ UNCHANGED <<acceptorVars, handlerVars, mode, status, conn, resp,
                 sharedVars, interrupts>>

-----------------------------------------------------------------------------

AcceptorStep ==
  \/ ReadRequest \/ EnqueueLoad \/ EnqueueStore \/ Fork \/ RecordChild
  \/ ForkFails
  \/ AcceptorSignal \/ Reap \/ ReapDone

HandlerStep(c) ==
  \/ MaskSignals(c)
  \/ PeekEmpty(c) \/ CheckLeave(c) \/ CheckWait(c) \/ CheckConnect(c)
  \/ WakeCancelled(c) \/ WakeAdmitted(c)
  \/ IncLoad(c) \/ IncStore(c) \/ ReadId(c) \/ OpenChannels(c)
  \/ ServeKill(c) \/ ServeQuit(c)
  \/ DequeueEmpty(c) \/ DequeueLoad(c) \/ DequeueStore(c) \/ PostFreeSlot(c)
  \/ HandlerSignal(c)

ClientStep(c) ==
  \/ ClientLeave(c) \/ ClientProceed(c) \/ ClientGo(c)
  \/ ClientAwaitReply(c) \/ ClientReadExit(c) \/ ClientReadEOF(c)
  \/ ClientSignal(c)

(* What a connected user does: type a command.                            *)
UserStep(c) == BrokenPipe(c) \/ \E k \in Commands : SendCommand(c, k)

Next ==
  \/ AcceptorStep
  \/ Interrupt
  \/ \E c \in Clients :
       \/ HandlerStep(c)
       \/ ClientStep(c)
       \/ UserStep(c)
       \/ \E arg \in ConnectionArgs : Request(c, arg)

(* Every process is scheduled and every pending signal delivered          *)
(* eventually; a connected user eventually types a command.  Starting a   *)
(* client and interrupting the server are not forced.                     *)
Fairness ==
  /\ WF_vars(AcceptorStep)
  /\ \A c \in Clients : WF_vars(HandlerStep(c))
  /\ \A c \in Clients : WF_vars(ClientStep(c))
  /\ \A c \in Clients : WF_vars(UserStep(c))

Spec == Init /\ [][Next]_vars /\ Fairness

-----------------------------------------------------------------------------
(***************************************************************************)
(* Properties                                                             *)
(***************************************************************************)

HandlerPCs == {"none", "forked", "waitslot", "inc_load", "inc_store",
               "read_id", "opening", "serving", "deq_load", "deq_store",
               "post_check", "exit"}
ClientPCs == {"init", "await_status", "await_go", "opening", "session",
              "await_exit", "read_exit", "left", "exited"}
AcceptorPCs == {"read", "enq_load", "enq_store", "fork", "record", "reap",
                "exited"}

TypeOK ==
  /\ requests \in Seq(Clients)
  /\ size \in Int /\ counter \in 0..Cardinality(Clients) /\ freeSlot \in Nat
  /\ apc \in AcceptorPCs /\ acur \in Clients /\ atmp \in Int
  /\ children \subseteq Clients /\ reaped \subseteq Clients
  /\ maxChild \in Nat /\ forkFails \in 0..MaxForkFails
  /\ apend \in BOOLEAN
  /\ hpc \in [Clients -> HandlerPCs]
  /\ htmp \in [Clients -> Int]
  /\ hid \in [Clients -> {-1} \cup 1..Cardinality(Clients)]
  /\ hsig \in [Clients -> BOOLEAN]
  /\ hmask \in [Clients -> BOOLEAN]
  /\ known \in [Clients -> SUBSET Clients]
  /\ hpend \in [Clients -> BOOLEAN]
  /\ mode \in [Clients -> Modes]
  /\ status \in [Clients -> Statuses]
  /\ conn \in [Clients -> Nat]
  /\ cpc \in [Clients -> ClientPCs]
  /\ cmd \in [Clients -> {"none", "QUIT", "KILLSERVER"}]
  /\ resp \in [Clients -> BOOLEAN]
  /\ cpend \in [Clients -> BOOLEAN]
  /\ interrupts \in 0..MaxInterrupts

(* Handlers past admission whose session has not ended.                   *)
InSession == {c \in Clients :
                hpc[c] \in {"inc_load", "inc_store", "read_id", "opening",
                            "serving"}}

(* The acceptor's waitpid loop (read_request) lets the server exit only   *)
(* after every handler child it forked has terminated.                    *)
AcceptorOutlivesHandlers ==
  apc = "exited" => \A c \in Clients : ~HandlerAlive(c)

(* bibo_server never stores a pid past the end of child_pids: the write  *)
(* child_pids[num_children++] always lands inside the max_child entries   *)
(* malloc/realloc gave it, across every doubling.  It is about the resize *)
(* test of the parent branch and the start value max_child = max_clients. *)
ChildPidsInBounds == Cardinality(children) <= maxChild

(* Every request the acceptor has handed to a handler child is answered:  *)
(* the client gets past its first sem_wait (the handshake of lines        *)
(* 116-143 and check_connection_res).                                     *)
HandshakeCompletes ==
  \A c \in Clients : hpc[c] = "forked" ~> cpc[c] # "await_status"

(* At most max_clients sessions are admitted at once (spec 4.2).          *)
CapacityRespected == Cardinality(InSession) <= MaxClients

(* Session counter values are never handed out twice (spec 3).            *)
UniqueSessionIds ==
  \A c, d \in Clients : c # d /\ hid[c] # -1 => hid[c] # hid[d]

(* A handler that answered WAITING is eventually woken (spec 8: a queued  *)
(* connect client gets CONNECTED once a session ends).                    *)
WaitingEventuallyWoken ==
  \A c \in Clients : hpc[c] = "waitslot" ~> hpc[c] # "waitslot"

(* A SIGINT to the server eventually ends every process (spec 4.5: every *)
(* handler wakes from its blocking wait and tears down, the acceptor      *)
(* reaps them and exits, no client hangs past shutdown).  It is about     *)
(* cleaner_signal_handler, the EINTR paths of read_request, handle_client *)
(* and the waiting handler, and the client's reaction to its SIGINT.  A   *)
(* client that has not sent its request yet is not required to end.      *)
ShutdownCompletes ==
  interrupts > 0 ~> /\ apc = "exited"
                    /\ \A c \in Clients : /\ ~HandlerAlive(c)
                                          /\ cpc[c] \in {"init", "left", "exited"}

-----------------------------------------------------------------------------
(***************************************************************************)
(* Refinement of the handshake specification: where each client's request *)
(* is, read off the client's and its handler's program counters, the      *)
(* response cell and the session id.  A handler that exits after writing  *)
(* LEAVE rejected the request; one that exits without a session id was    *)
(* woken from the queue by a shutdown; a handler past its session (the   *)
(* dequeue and free_slot post of quit, or any other exit) has closed it.  *)
(***************************************************************************)
HandshakePhase(c) ==
  CASE cpc[c] = "init"                      -> "NEW"
    [] hpc[c] = "none"                      -> "SENT"
    [] hpc[c] = "forked"                    -> "ARRIVED"
    [] hpc[c] = "waitslot"                  -> "QUEUED"
    [] c \in InSession                      -> "ADMITTED"
    [] hpc[c] = "exit" /\ status[c] = "LEAVE" -> "REJECTED"
    [] hpc[c] = "exit" /\ hid[c] = -1       -> "CANCELLED"
    [] OTHER                                -> "CLOSED"

HS == INSTANCE Handshake
        WITH phase <- [c \in Clients |-> HandshakePhase(c)], kind <- mode

(* Every behaviour of the acceptor, handlers and clients is a behaviour   *)
(* of the handshake of spec 4.2: only tryConnect requests are answered    *)
(* LEAVE, only connect requests wait for a slot, a waiting handler is     *)
(* admitted or cancelled, and every request a handler was forked for is   *)
(* decided (bibo_server lines 116-143).                                   *)
HandshakeRefined == HS!Spec


=============================================================================
