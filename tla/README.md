# TLA+ models of the bibo file server

These are TLA+ models of the file server under `src/`: `server.c`, `client.c`, `src/queue.c`, `src/command_parser.c` and `src/logger.c`. TLC checks them. Each module is written from the C source. The properties come from `spec.md` and the code's own intent.

## 1. The system

One server process (the **acceptor**) reads connection requests from a named FIFO, `/tmp/bibo_server.<pid>`. For each request it does three things:

1. it enqueues the request in a queue kept in POSIX shared memory;
2. it `fork`s a **handler** child;
3. it records the child's pid in `child_pids`.

The handler then does the following:

- It reads `queue->size`. If the size exceeds `max_clients`, a `tryConnect` client is answered `LEAVE`, and a `connect` client is answered `WAITING` and blocks on the named semaphore `free_slot_sem`.
- Otherwise the answer is `CONNECTED`.
- The answer goes into the client's response shm cell (`res_shm.<pid>`) and is signalled on the client's named semaphore `client_sem.<pid>`.
- The handler takes a session id from the shared `*counter`, posts the semaphore a second time and opens the client's two FIFOs.
- It then serves commands until `quit`, `killServer` or a signal.
- On `quit` it decrements `queue->size`. It posts `free_slot_sem` if a backlog remains.

The **client** does the following:

- It writes its request.
- It waits twice on its semaphore, reading the answer in between.
- It opens the FIFOs and loops: it reads a command line, sends the command, and reads reply frames. Each reply frame is preceded by a `sem_wait`.

Shutdown is signal driven:

- SIGINT, SIGTSTP and SIGQUIT run `cleaner_signal_handler`, with no `SA_RESTART`.
- The handler sets `signal_received`, SIGINTs every pid in `child_pids` and posts `free_slot_sem`.
- Blocking calls return `EINTR`. The acceptor reacts only when `read()` of the FIFO is interrupted: it then `waitpid`s once per child and exits.
- A handler masks signals from `fork` until `remove_mask`.
- On `EINTR` a handler SIGINTs its client and exits.
- `killServer` makes the handler SIGINT the acceptor.

File commands (`readF`, `writeT`, `download`) lock the file by name with a named semaphore `client_sem.<file>`. The client's `upload` locks it the same way. Each command opens the semaphore, waits, posts and unlinks it.

### Inventory

| Part (spec.md) | Code | State | Operations |
|---|---|---|---|
| Admission Queue | `queue.c`, `server.c:94-101,148,395-397` | `queue->size/front/rear/capacity/data`, `*counter` | enqueue, dequeue, peek, size, counter increment |
| Connection Handshake | `server.c:109-147`, `client.c:77-96,344-365` | response cell, `client_sem.<pid>`, `free_slot_sem` | answer LEAVE/WAITING/CONNECTED, wait for a slot, the two client waits |
| Connection Handler | `server.c:331-884`, `client.c:102-328` | FIFOs, per-command frames | HELP, LIST, READF, WRITET, DOWNLOAD, UPLOAD, QUIT, KILLSERVER |
| Lock Manager | `server.c:511-600,607-732,771-816`, `client.c:235-277` | named semaphores `client_sem.<file>` | sem_open, sem_wait, sem_post, sem_close, sem_unlink |
| Transfer Codec | `server.c:462-487,527-594,627-728,780-810,845-876` | frames `{content[2048], is_complete, is_exit}` | chunking, line read, line insert, download bytes |
| Shutdown Coordinator | `server.c:49-59,111,127,297-317,347,358-374,938-970` | `signal_received`, masks, `child_pids` | signal delivery, EINTR paths, waitpid loop |
| Command parser | `src/command_parser.c` | `command_t.sub_type` (never reset) | text to `command_t` |
| Logger | `src/logger.c` | log file | formatted writes |

### Hard behaviours

Every item here is an interleaving of several processes, or a signal arriving at a particular point. None of them is reachable by a sequential unit test.

- `queue->size` is updated with plain read-modify-writes in shared memory: `size++` by the acceptor, `size--` by every finishing handler. `*counter` is updated the same way by every admitted handler.
- The capacity check runs after `fork`, when later requests may already be enqueued.
- `free_slot_sem` tokens are posted by the signal handler and on dequeue, whether or not anyone waits.
- A signal is delivered to a process that is not blocked where the code expects it. The acceptor outside `read()`, a handler inside its masked window, and `waitpid` interrupted by a second signal are all such cases.
- A file semaphore is unlinked while others still wait on it.
- Chunk framing has boundary cases: an empty file, a size that is a multiple of 2048, and the 255-byte tail buffer of `writeT`.
- Both ends of a session wait on the same `client_sem.<pid>`. During UPLOAD the handler waits on it too, and the upload's last frame carries no post.
- The reply FIFO is a byte stream. A reader that asks for a frame where a 4-byte answer is waiting, or for an answer where a frame is waiting, loses the frame alignment.

## 2. Modules

| Module | Part | MC module |
|---|---|---|
| `Admission.tla` | admission queue, handshake, shutdown | `MCAdmission.tla` (clients `c1..c3`) |
| `FileLock.tla` | lock manager (`client_sem.<file>`) | `MCFileLock.tla` (sessions `s1..s3`, file `f1`) |
| `Session.tla` | the command loop of one handler and its client, and chunk framing | `MCSession.tla` |
| `Handshake.tla` | what the handshake promises (spec.md 4.2), refined by `Admission.tla` | via `MCAdmission.tla` |
| `SemMutex.tla` | what a semaphore of initial value 1 promises as a lock, refined by `FileLock.tla` | via `MCFileLock.tla` |
| `CommandParser.tla` | `parse_command` and `get_type`, composed into `Session.tla`'s client | via `MCSession.tla` |
| `TransferCodec.tla` | the byte algorithms of READF with a line, WRITET, DOWNLOAD and UPLOAD on one file, up to the handler's end-of-file read | `MCTransferCodec.tla` |

### `Admission.tla`: connection lifecycle

This module covers the acceptor, one handler per client and the clients, from the request to the end of a session by `quit`, `killServer` or a signal.

The state is:

- `requests`: the server FIFO;
- `size` and `counter`: the shared cells;
- `freeSlot` and `conn[c]`: semaphore values;
- `status[c]`: the response cell;
- program counters `apc`, `hpc[c]` and `cpc[c]`;
- signal state: the pending bits `apend`, `hpend[c]` and `cpend[c]`, plus `hsig` (`signal_received`) and `hmask` (the add_mask window);
- `children`, `reaped` and `known[c]`: copies of `child_pids`;
- `maxChild`: the capacity of `child_pids`;
- `forkFails`: the failed `fork()` calls so far.

`Init` is the conjunction of one helper per creation function: `InitAcceptor` (`bibo_server`'s locals), `InitQueue` (`init_queue`), `InitCounter` (`init_counter` and `*counter = 0`), `InitFreeSlotSem`, and for the clients `InitResShm` (the zero-filled response cell reads `WAITING`, which is 0), `InitConnSem` and `InitClients`.

The actions, in code order:

- **Acceptor** (`bibo_server`, `read_request`):
  - `ReadRequest`;
  - `EnqueueLoad` and `EnqueueStore`, which model `queue_enqueue`'s `size++` as two steps;
  - `Fork`, and `ForkFails` (`fork()` returns -1: `perror` and `continue`, bounded by `MaxForkFails`);
  - `RecordChild`, with `GrowChildPids`: `child_pids` is doubled by `realloc` when `num_children >= max_child`, and `maxChild` holds `max_child`;
  - `AcceptorSignal`: the handler runs, and it is EINTR only if the acceptor is blocked in `read` or `waitpid`;
  - `Reap` and `ReapDone` (the waitpid loop);
  - `Interrupt` (the operator's SIGINT, bounded by `MaxInterrupts`).
- **Handler**:
  - `MaskSignals`: `add_mask`, the child's first statement after `fork` (`server.c:111`); until it runs, a SIGINT from the acceptor's handler runs `cleaner_signal_handler`;
  - `PeekEmpty`: `queue_peek` returns NULL when `size` reads 0, and the child crashes at `current_client->pid` before answering;
  - `CheckLeave`, `CheckWait` and `CheckConnect` (`server.c:116-143`);
  - `WakeCancelled` and `WakeAdmitted` (after `sem_wait(free_slot_sem)`);
  - `IncLoad`, `IncStore` and `ReadId` (`*counter += 1`, then the re-read);
  - `OpenChannels`: the first post in handle_client, the FIFO rendezvous and `remove_mask`;
  - `ServeKill` and `ServeQuit`;
  - `DequeueEmpty`, `DequeueLoad` and `DequeueStore` (`queue_dequeue`);
  - `PostFreeSlot`;
  - `HandlerSignal`: delivery of a pending SIGINT, whose effect depends on the blocking call it interrupts.
- **Client**:
  - `Request`;
  - `ClientLeave` and `ClientProceed` (first `sem_wait` plus `check_connection_res`);
  - `ClientGo`;
  - `SendCommand` and `BrokenPipe`;
  - `ClientAwaitReply`, `ClientReadExit` and `ClientReadEOF`. `ClientReadEOF` reads EOF into an uninitialised frame, so it makes a nondeterministic choice.
  - `ClientSignal`: EINTR in the call the client is blocked in.

`MaskSignals` is `add_mask`: the handler blocks SIGINT from then until `remove_mask`. The checks (`PeekEmpty`, `CheckLeave`, `CheckWait`, `CheckConnect`) run only after it; in `CheckWait` the mask is removed again before the first blocking call. A signal pending when `remove_mask` runs is delivered there, before the next blocking call. The `Unmask` helper models this: the handler sets the flag, and the following `read`/`open` is not interrupted.

### `Handshake.tla` and the refinement

`Handshake.tla` is the abstract handshake of spec.md 4.2, one phase per client: NEW, SENT, ARRIVED, then REJECTED (tryConnect only), QUEUED (connect only) or ADMITTED; a QUEUED request becomes ADMITTED or CANCELLED (shutdown); an ADMITTED session is CLOSED. Its only fairness is that an ARRIVED request is decided (`WF` of `Decide`): the handler's check never blocks. Waking a queued request depends on other sessions ending, so the abstract spec does not promise it (the waiting run shows that the code does not either), nor a bound on admitted sessions (the code breaks it, see `CapacityRespected` below).

`Admission.tla` defines `HandshakePhase(c)` from the program counters: client at `init` is NEW; no handler yet is SENT; a handler at `forked` is ARRIVED, at `waitslot` QUEUED; a client in `InSession` is ADMITTED; a handler that exited after answering LEAVE is REJECTED, one that exited without an id is CANCELLED, and any other end is CLOSED. `HandshakeRefined == HS!Spec`, where `HS` is `INSTANCE Handshake WITH phase <- ..., kind <- mode`.

### `CommandParser.tla`: the parser

A typed line is a sequence of tokens, as `sscanf`'s `%s` splits it: a keyword, a number (`"1"` for a positive `%d`, `"0"` for zero or a negative one) or another word `"w"`. `parse_command(toks, sub)` is one CASE over the code's `if`/`sscanf` chain, returning the return code, the type, whether `line > 0`, and `sub_type`. `init_command` does not reset `sub_type`, and the client's `command_t` is an uninitialised stack variable, so `sub` starts as any `SubTypes` value (a garbage value included); a bare `help` is rejected exactly when that stale value is `UNKNOWN`.

In `Session.tla` the client's `Type(toks)` sends the parsed command, `TypeInvalid(toks)` prints "Invalid command" and returns to the prompt, and `StdinClosed` is `fgets` returning NULL without EINTR (`exit(EXIT_FAILURE)`), after which the handler runs into the end-of-file re-execution. `MCSession.AllLines` has a line for every branch of the parser.

### `TransferCodec.tla`: the byte algorithms

A file is a sequence of bytes, each `"x"` or a newline; `Chunk` stands for `CHUNK_SIZE`, `TailBuf` for the 255 bytes WRITET keeps, and `IntSize` for `sizeof(CHUNK_SIZE)` (an `int`, 4 bytes). The code's algorithms are operators:

- `ReadfReply(f, line)`: READF with `command.line > 0`. Its `line_start`, `line_end` and `line_number` are reset for every chunk and `is_complete` is set after the first, so only the first `read()` is scanned. An empty file gives no frame.
- `ScanOffset` (RECURSIVE) and `WritetOffset`: WRITET's `while` loop over chunks with `line_number` kept across them, including its `break` when `line_number == command.line` after a chunk, which only line 1 can meet.
- `WritetFile`: read at most `TailBuf` bytes at the offset, write `text\n` there and the old bytes after it (`Overlay`, since nothing truncates the file).
- `DownloadFrame`, `DownloadFrom` (RECURSIVE) and `DownloadCopies`: DOWNLOAD's loop. A read shorter than `IntSize` gets `content[bytes_read - 1] = '\0'`; the client writes `strlen(content)` bytes of each frame. The handler's `response_t` is not cleared before the first read, so after a short first read that the `'\0'` store does not cut, `strlen` runs on over stale stack bytes (`Stale`); `DownloadCopies` is the set of copies the client may write, any number of stale bytes up to the end of `content`.
- `UploadCopies`: the client's upload loop sends a frame per `read() > 0` of its local file, from a `response_t` it clears only after each send; the handler writes `strlen(content)` bytes of each frame, so a local file shorter than a chunk may be stored with stale bytes of the client's stack after it.

The state machine applies `ReadF`, `ReadFMissing` (open fails: the handler exits), `WriteT`, `WriteAppend` (both open the file `O_CREAT`), `Download` and `Upload` (only to a missing file: `access()` finds an existing one and the upload is refused, changing nothing) to one file, `exists` saying whether it is in the directory, starting absent, one command at a time as the file lock serialises them. `ClientGone` is the end of the session: the client exits at its prompt on end of input, the handler's `read()` returns 0, and it runs its uninitialised `command_t` once more (`Redo`): the previous command, or, as any read of an uninitialised value may, something that does not touch this file. The reply write then raises SIGPIPE and the handler ends, so no action follows (`Serving`). `last` records the command and the file before it. The reference definitions `NumLines`, `LineOf` and `InsertLine` are spec.md's reading of lines (4.3, 8): a line ends at a newline, and a last line without one counts.

### `FileLock.tla`: the lock manager

A session is a client together with its handler. The model keeps the name table apart from the semaphore objects:

- `bound[f]` is the object that `client_sem.<f>` names, or 0 when the name is unbound;
- `semval[s]` is the value of object `s`, and `nsem` counts the objects created.

`sem_open(O_CREAT)` of a bound name returns the bound object; of an unbound name it creates an object with value 1 (`SemOpen`). `sem_unlink` clears the name only; a process that holds the old object keeps using it (`SemUnlink`).

The actions:

- READF, WRITET and DOWNLOAD in the handler: `Issue`, `DownloadOpen` (the missing-file answer comes before any lock), `SemOpen`, `SemWait`, `ReadOpen`, `ReadOpenFails` (`exit` while holding the lock), `WriteOpen`, `FileIO`, `SemPost`, `SemUnlink`.
- UPLOAD in the client: `SemOpen` and `SemWait`, then `ReadExistWord` (return to the prompt, still holding the lock, if the file exists), `SendChunk`, `SemPost`, `SemUnlink` and `SendExit`.
- UPLOAD in the handler: `ServerCheck` (`access`), `ServerTruncate` (`open(O_TRUNC)`), `ServerWrite` and `ServerFinish`. None of these takes the lock.
- `SemWaitInterrupted`: a SIGINT reaches a process blocked in `sem_wait(sem_file)` (`server.c:519`, 615, 779; `client.c:243`). The handlers are installed without `SA_RESTART`, so `sem_wait` returns -1 with EINTR; the code ignores the result and goes on into the file without having decremented the object.
- `Interrupted`: the handler's `write()` of a reply fails while it holds the lock: in READF's chunk loop (`server.c:583`) by EINTR (it cleans up and kills the client) or SIGPIPE, in DOWNLOAD's loop (794) by EINTR (it closes the FIFOs and exits) or SIGPIPE. Either way it exits without `sem_post` or `sem_unlink`, so the object stays at 0 and bound to the name. WRITET's write at 694 is to a regular file and cannot get EINTR.
- `SemWaitInterrupted` and `Interrupted` together happen at most `MaxInterrupts` times.

`held` is a ghost variable: the objects each session is past `sem_wait` on and has not posted.

`SemMutex.tla` is the abstract lock: `owner[s]` for each semaphore object, `Acquire` of a free object and `Release` by its owner, and no fairness, since a holder may exit. `FileLock` maps `owner[s]` to the session holding `s` (`Owner`, from `held`), and `SemaphoresAreMutexes == Mutex!Spec`. The refinement is per object, not per file name: `MutualExclusion` per name is broken by the unlink race (the lock_unlink run). Without signals each object is a mutex; the lock_eintr run shows that an interrupted `sem_wait` breaks that too.

`Abandoned(s)` holds when a session holds `s` outside the command that took it. This happens when its handler exited (READF of a missing file, `Interrupted`), or when its UPLOAD client returned to the prompt. Such a session may since have come back to wait on `s` itself. `WaitEndsUnlessAbandoned` states that every wait ends unless its object was abandoned.

### `Session.tla`: the command protocol

This module covers one handler and its client after the handshake.

**The reply stream.** `toCli` is the handler-to-client FIFO, as a sequence of 4-byte words:

- a `response_t` is `Chunk` content words followed by `is_complete` and `is_exit`;
- the existence answers of DOWNLOAD and UPLOAD are one word each;
- a client `read` returns the words available, at most the size asked for;
- a `read` overwrites only the front of the client's `response_t` (`Overlay`).

This is how a misaligned reader reads a flag out of the wrong place.

**The other state.**

- `toSrv`: commands and upload frames;
- `conn`: `client_sem.<pid>`;
- `spc`, `pending` and `after`: the handler's branch and the frames it still has to write;
- `last`: the stale `command_t`;
- `present` and `fsize`: the served file;
- `cpc`, `cmd`, `cbuf`, `ulLens`, `typed` and `sub`: the client.

**Framing operators.** The framing of each reply loop is a recursive operator:

- `ChunkLens`: READF whole-file mode and the client's upload loop;
- `DownloadLens`: reads until a short read, including a read of 0;
- `ReadfFrames`, `ListFrames` and `DownloadFrames`.

**Handler actions.** There is one per branch of `handle_client`:

- `ServeKill`, `ServeQuit`, `ServeHelp`, `ServeList`, `ServeReadf`, `ServeWritet`, `ServeDownload`, `ServeUpload` (the `access` check and its answer word);
- `UploadOpen`: for a new file, `open(O_CREAT|O_TRUNC)` after the answer (`server.c:835`), which creates the file empty;
- `SendFrame`: one `write` plus `sem_post`. A write after the client has exited is SIGPIPE and ends the handler.
- `UploadWait` and `UploadRead`: the receive loop.

`ReadCommand` covers end of file. Once the client has exited, `read` returns 0, and the handler runs the command still in `command_t` again; if the client exited before sending any command, that variable is uninitialised and the handler may run any command (or spin, which the model leaves as no step).

**Client actions.**

- `Type` and `TypeInvalid`: parse a line; write the command and take the branch for its type, or print "Invalid command";
- `StdinClosed`: end of the user's input;
- `ClientWait`;
- `ReplyRead`: the generic loop;
- `DownloadWord` and `DownloadRead`;
- `UploadWord`, `UploadSend` and `UploadExit`.

**Undefined values.** Each is a nondeterministic choice:

- `is_exit` in the HELP, LIST, READF and WRITET replies, which is never initialised;
- the flags of the client's first `response_t`;
- `is_file_exist` at end of file;
- `is_exit` when the upload loop reads a command or end of file.

## 3. Runs

| Run | Module / cfg | Bounds | Checks | Result |
|---|---|---|---|---|
| quit | MCAdmission / `Admission_quit.cfg` | 2 clients, max 1, QUIT and KILLSERVER, 1 failed fork, 1 operator SIGINT | `TypeOK`, `ChildPidsInBounds` | pass (493,416 states) |
| reap | MCAdmission / `Admission_reap.cfg` | 2 clients, max 1, KILLSERVER, 1 operator SIGINT | `AcceptorOutlivesHandlers` | violated: waitpid interrupted |
| handshake | MCAdmission / `Admission_handshake.cfg` | 2 clients, max 1, QUIT, no SIGINT | `HandshakeRefined` | violated: `queue_peek` returns NULL |
| waiting | MCAdmission / `Admission_waiting.cfg` | 2 clients, max 1 | `WaitingEventuallyWoken` | violated: both connects wait |
| shutdown | MCAdmission / `Admission_shutdown.cfg` | 2 clients, 1 SIGINT | `ShutdownCompletes` | violated: a late request is never read |
| lock_eintr | MCFileLock / `FileLock_eintr.cfg` | 2 sessions, 2 commands each, all four file commands, 1 signal | `SemaphoresAreMutexes` | violated: interrupted `sem_wait` enters |
| lock_progress | MCFileLock / `FileLock_progress.cfg` | 3 sessions, 1 command each, all four file commands, file absent at start, 1 signal | `WaitEndsUnlessAbandoned` | pass (435,028 states, about 2 min) |
| lock_unlink | MCFileLock / `FileLock_unlink.cfg` | 3 WRITETs | `MutualExclusion` | violated: unlink after post |
| session_all | MCSession / `Session_all.cfg` | every parser branch (`AllLines`), 4 typed, chunk of 2 words, no file at first, local file of 3 words | `TypeOK`, `ReplyFullyConsumed` | pass (97,460 states) |
| session_upload | MCSession / `Session_upload.cfg` | UPLOAD then QUIT | `QuitEndsSession` | violated: the client takes the handler's token |
| file_commands | MCTransferCodec / `TransferCodec_spec.cfg` | chunk 3, int 2, tail buffer 2, files up to 6 bytes, lines 1-3 | `FileCommandsFollowSpec` | violated: upload of a short file stores stale bytes |
| session_download | MCSession / `Session_download.cfg` | DOWNLOAD of a 1-word file | `CommandCompletes` | violated: misaligned frames |

What the passing runs show:

- **quit**: `child_pids[num_children++]` always lands inside the array, across the `realloc` doubling that the second child triggers from `max_clients = 1`, with a failed `fork()`, users who quit or kill the server, and an operator SIGINT at any point; and the session ids handed out stay in range.
- **lock_progress**: a session waiting for a file lock is kept waiting forever only by an abandoned semaphore, also when a signal interrupts a waiter or a holder's reply. No live holders wait on each other, and no lock is lost except through an exit or early return that skips `sem_post`.
- **session_all**: whenever the client is back at its prompt, it has read every word the handler wrote and the handler has nothing left to write. Each later reply therefore starts at a frame boundary. This holds over every command and interleaving, including the garbage `is_exit`, end-of-file re-execution and SIGPIPE.

The violation runs are the findings in `PROJECT.json`:

- **handshake**: a quitting handler's `size--` (load, store) interleaves with the acceptor's `size++` for the next request; the increment is lost and the new child finds `size = 0`. `queue_peek` returns NULL, the child crashes at `current_client->pid` (`server.c:112-113`) before answering, and its client waits in `sem_wait` forever: the request is ARRIVED and never decided.
- **reap**: the operator's SIGINT sends the acceptor into its `waitpid` loop; a user's `killServer` then sends it a second SIGINT, `waitpid` returns -1 with EINTR, and the acceptor runs `perror` and `exit` (`server.c:303`) while a handler it forked is still serving. spec.md 4.5 says it waits for every handler.
- **waiting**: the acceptor enqueues both connect requests before either child compares `size` with `max_clients` (`server.c:116`), so both children see `size = 2 > 1` and both clients are answered WAITING. No session runs, so no one ever posts `free_slot_sem`.
- **lock_eintr**: session s2 holds the file's semaphore; session s1 blocks in `sem_wait`, a SIGINT interrupts it, and s1 goes on into the file, since the return value is not checked. Its later `sem_post` raises the object to 2. The object no longer behaves as `SemMutex`'s lock.
- **shutdown**: `ShutdownCompletes` asks, with spec.md 4.5, that after a SIGINT every process ends: the acceptor, every handler and every client that sent a request. The acceptor interrupted in `read()` reaps its recorded children and exits without reading the FIFO again, so a request written meanwhile has no handler and its client waits in `sem_wait` forever. With such late requests excluded by a state constraint, TLC finds the other route: a SIGINT that reaches the acceptor outside `read()` is lost.
- **lock_unlink**: a writer blocked on the old semaphore enters after the post. The unlink removes the name, and a third writer creates a fresh semaphore. Two writers are then in the file.
- **session_upload**: the upload's closing frame has no post, so the handler needs a token the client already posted. If the user's next command reaches `sem_wait` first, the client takes that token. The handler then never reads the closing frame, and the client blocks in `read()`.
- **file_commands**: `FileCommandsFollowSpec` is spec.md's reading of the file commands (4.3, 8): readF k answers line k, writeT k inserts before line k, download gives the client the file byte for byte and upload stores the local file byte for byte (the round trip of spec.md 8), and after the client has gone the file does not change. TLC's shortest trace is UPLOAD of the 2-byte local file `x\n`: the client's `response_t` is not cleared before its first `read()`, and the handler's `strlen` runs over the stale stack bytes after the 2 bytes read, storing `x\n?`. DOWNLOAD has the same defect on the handler's side for a file shorter than a chunk. Each other divergence was confirmed by TLC with the ones before it taken out of the property or the model (stale bytes, writeT at line 1, or `Texts = {<<"x">>}`):
  - download of a file whose last chunk is shorter than `sizeof(int)` loses its last byte (`x\nx\n` comes back as `x\nx` with a 3-byte chunk); in the real server every file of 1 to 3 bytes, and every file of 2048k + 1..3 bytes, is affected;
  - writeT at line 1 on a file whose first chunk holds a newline appends the text at the end of the file: `line_number` starts at 1 and is only compared after a newline;
  - after the client exits at its prompt, the handler applies the last writeT a second time (`x\n` becomes `x\nx\n`);
  - readF of a line that starts past the first chunk answers the end of the first chunk (line 2 of `x\nx\n` comes back empty with a 2-byte chunk);
  - writeT before a tail longer than the 255-byte buffer loses the bytes the new line displaces.
- **session_download**: for an existing file the handler sends no existence word, but the client reads one. That word is the first word of the frame. The client's next read is shifted one word, so it reads `is_complete` from `is_exit` and waits for a frame that never comes.

Each property of a passing run has a mutant in `PROJECT.json`, which TLC catches:

- `ReadIdBeforeIncrement`: the id is taken from the value loaded before the increment (breaks `TypeOK`).
- `SemPostSkipWriteT`: WRITET does not post (breaks `WaitEndsUnlessAbandoned`).
- `ClientWaitNoBlock`: the client's `sem_wait` does not block.
- `ReadfFramesLe`: READF marks a full chunk complete (`<=` for `<`).
- `GrowWhenOver`: `child_pids` grows only when `num_children > max_child` (breaks `ChildPidsInBounds`).

Some properties are stated but checked by no run, for lack of run slots:

- `CapacityRespected` (Admission): violated with 3 clients, QUIT and no SIGINT, when a lost `size--` or a stale `free_slot_sem` token admits a second session with `max_clients = 1`.
- `UniqueSessionIds` (Admission): violated by the `*counter` race, with 2 clients and `max_clients = 2`. This is the same lost-update mechanism the handshake run shows.
- `HandshakeCompletes` (Admission): every forked handler answers its client. The handshake run's trace breaks it as well.
- `MutualExclusion` is also broken by the interrupted `sem_wait` of lock_eintr, without any unlink.
- `LockEventuallyAcquired`, the unconditional form of `WaitEndsUnlessAbandoned`: with `Ops = {"READF","UPLOAD"}` and no file present, READF of the missing file exits holding `client_sem.<file>` and UPLOAD of an existing file returns to the prompt holding it, and a later user of the name waits forever.
- `MutualExclusion` with two UPLOADs of a new file: the handler truncates and writes without the lock. This can be reproduced with `Ops = {"UPLOAD","READF"}`.
- `CommandCompletes` and `ReplyFullyConsumed` on the other framing hazards:
  - READF of a file of 0 or 2 words;
  - LIST of an empty directory;
  - UPLOAD of a missing local file, with `LocalExists = FALSE`.

  TLC finds each of these violated when the cfg is changed as described.

### Bounds

**Admission.** Two clients with `max_clients = 1` produce every kind of answer: CONNECTED, WAITING (a second client while one is served) and LEAVE. They also produce every shutdown path: a session in progress, a queued handler, and an unread request. A third client is needed only where a lost update must coincide with a pending request, as for `CapacityRespected`. One failed `fork()` (`MaxForkFails = 1`) in the quit run leaves one request without a handler while the other client is served. The second recorded child makes `RecordChild` double `child_pids` from `max_clients = 1`. One operator SIGINT and one `killServer` give the acceptor the two SIGINTs of the reap run.

**FileLock.** Two sessions with two commands each reach these cases:

- every pairing of file commands;
- the unlink race;
- the reuse of a name after unlink.

Three sessions are needed where a third process must `sem_open` between another's post and unlink, and for lock_progress, where two sessions wait on the semaphore that a third holds. With one command each, an UPLOAD finds the file when another session has created it first. A session coming back to wait on the semaphore it abandoned needs two commands; lock_eintr's bounds (2 sessions, 2 commands) reach that case. One signal (`MaxInterrupts = 1`) is enough to interrupt either a waiter or a holder. Three sessions with two commands each do not finish in 10 minutes.

**Session.** A chunk of 2 words makes these boundaries reachable with files of 0 to 3 words:

- a short read;
- an exact multiple of the chunk;
- a read of 0;
- a multi-frame reply.

A frame of 4 words with a 1-word answer gives every misalignment the real 2056-byte frame with a 4-byte answer has. Each misalignment shifts the frame by one field. Four typed commands reach an UPLOAD followed by a READF of the uploaded file, and a DOWNLOAD after a WRITET.

**TransferCodec.** A chunk of 3 bytes, an `int` of 2 bytes and a tail buffer of 2 bytes keep the code's order `int < chunk` and make every case reachable with files of up to 6 bytes and line numbers 1 to 3: a line starting in the second chunk, a newline in the first chunk before a writeT at line 1, a tail longer than the buffer, lines past the end of the file, a last chunk shorter than an `int` (4 bytes), one of exactly a chunk (a final read of 0), and a file shorter than a chunk. Local files of 2 and 4 bytes upload a file shorter and one longer than a chunk. Texts of one and two bytes tell an insertion from an append.

### Fairness

The fairness in every module is justified the same way: a process that is not blocked runs.

- **Admission:** the following are weakly fair:
  - the acceptor;
  - each handler;
  - each client's kernel-level steps (semaphore waits, reads, signal delivery);
  - a connected user's next command.

  Neither a new client's arrival (`Request`) nor the operator's `Interrupt` is fair.
- **FileLock:** each session's steps other than `Issue` are weakly fair. A user need not type another command, and a signal (`SemWaitInterrupted`, `Interrupted`) need not come. `SemMutex` has no fairness.
- **Session:** the handler's steps and the client's steps other than `Type` are weakly fair.
- **TransferCodec:** no fairness; its property is an invariant. Its cfg sets `CHECK_DEADLOCK FALSE` because the handler ends after its end-of-file read.

`CHECK_DEADLOCK FALSE` is set in every cfg. The server legitimately blocks in `read()` forever when no client comes or the user stops typing.

## 4. Not modelled, and what is left

- The parser's strings (file names, the text of `writeT`) are abstracted to tokens; the overflow of `cmd_type_str` by a long first word is not modelled. `get_message` and `log_command` only produce text.
- `logger.c`, `printf` and `perror` are output only.
- The following are not modelled:
  - the ring buffer's contents. `init_queue` frees the array `queue->data` points to (`server.c:201`), so every store is a use after free. Every item enqueued is the same address, `&client_info` of the acceptor loop, and the forked child reads its own copy of that variable, so the handler always gets the request just read whatever `front` is: the order of the ring buffer (and the loss of FIFO order when `realloc` grows a wrapped buffer, `queue.c:24`) changes nothing the server does. The model keeps `queue->size`, the one field every process reads;
  - a `max_clients` of 0 (`atoi` of a non-number): `Admission` assumes `MaxClients > 0`; with 0, `malloc(0)` and `0 * 2` leave every `child_pids` store out of bounds;
  - named objects left over by an earlier process, including a `client_sem.<file>` left bound at 0 by a handler that exited holding it (`FileLock` shows it abandoned, not a restart that meets it). `/COUNTER` is a fixed name, and no semaphore or shm of a session is unlinked, so a restart or a reused pid meets old objects (`EEXIST` for the `O_EXCL` semaphores). Every model starts from freshly created objects.
- The name `client_sem.<file>` can collide with a client's `client_sem.<pid>` when a file is named by a number. This is not modelled.
- Session keeps only the framing of READF, WRITET and DOWNLOAD and their effect on the file size; their byte algorithms are `TransferCodec.tla`, checked on their own. `snprintf`'s truncation of a 255-byte writeT text is not modelled.
- `content[-1]` at DOWNLOAD's final read of 0 bytes is a store outside `content`, which is the first field of `response_t`; what it overwrites is not modelled.
- Files with NUL bytes are not modelled (the byte alphabet is `"x"` and newline, plus the stale byte); `strlen` would cut a frame at the first NUL. DOWNLOAD of a missing file and UPLOAD to an existing one change nothing and are left out of `TransferCodec` (Session models their answers).

Still to do, in order:

1. Compose `TransferCodec`'s byte algorithms with `FileLock` so that two sessions' file commands interleave on one file.

The run budget of 12 is spent. Each new run has to replace one of the violation runs above.
