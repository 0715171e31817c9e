------------------------------ MODULE Session ------------------------------
(***************************************************************************)
(* The command protocol between one connection handler (the loop of       *)
(* handle_client, server.c) and its client (the command loop of           *)
(* connect_to_server, client.c) once the handshake is over.  The two      *)
(* FIFOs are byte streams and the named semaphore client_sem.<pid>        *)
(* counts the reply frames the handler has posted.                        *)
(*                                                                         *)
(* The unit of the reply stream is a 4-byte word: a reply frame           *)
(* (response_t) is Chunk content words followed by is_complete and       *)
(* is_exit; the existence answers of DOWNLOAD and UPLOAD are one word.    *)
(* A read(fd, buf, n) of a FIFO returns the words that are there, at most *)
(* n, so a reader that asks for a frame where a word is waiting, or for a *)
(* word where a frame is waiting, loses the frame alignment.  A content   *)
(* word is Data (non-zero) or 0 (the padding left by memset).        *)
(*                                                                         *)
(* The file locks of READF, WRITET, DOWNLOAD and UPLOAD are FileLock's    *)
(* subject and signals are Admission's; this module has one session, one *)
(* served file and the client's one local file.                           *)
(***************************************************************************)
EXTENDS Naturals, Sequences, SequencesExt, CommandParser

CONSTANTS
    Lines,        \* lines the user may type: token sequences (CommandParser)
    Chunk,        \* CHUNK_SIZE in words
    InitPresent,  \* the served file exists when the session starts
    InitSize,     \* its size in words
    OtherFiles,   \* other regular files of the directory (LIST lines)
    LocalExists,  \* the client's local file for UPLOAD exists
    LocalSize,    \* its size in words
    MaxCmds       \* bound on the commands the user types

\* a data word is any non-zero value; 2 stands for one that is neither 0 nor 1
Data == 2
Word == {0, 1, Data}
FrameLen == Chunk + 2
CompleteAt == Chunk + 1
ExitAt == Chunk + 2

\* command_t as the handler reads it; line is command.line > 0 (READF/WRITET)
CmdMsg == [type : CommandTypes \ {"UNKNOWN"}, line : BOOLEAN]
\* response_t frames written by the client's UPLOAD loop
UpFrame == [type : {"FRAME"}, len : 0..Chunk, exit : {0, 1}]
None == [type |-> "NONE", line |-> FALSE]

VARIABLES
    toSrv,    \* client -> handler FIFO: commands and upload frames
    toCli,    \* handler -> client FIFO: words
    conn,     \* value of client_sem.<pid>
    spc,      \* handler: "cmd", "send", "ul_open", "ul_wait", "ul_read", "exited"
    pending,  \* frames the current handler branch has still to write and post
    after,    \* where the handler goes once pending is written
    last,     \* the command_t variable: the last command read
    present,  \* the served file exists
    fsize,    \* its size in words
    cpc,      \* client: "prompt", "reply", "reply_read", "dl_word", "dl_wait",
              \*   "dl_read", "ul_word", "ul_send", "exited"
    cmd,      \* type of the command the client is serving
    cbuf,     \* the client's response_t
    ulLens,   \* lengths of the upload chunks the client has still to send
    typed,    \* lines typed so far
    sub       \* sub_type left in the client's command_t

vars == <<toSrv, toCli, conn, spc, pending, after, last, present, fsize,
          cpc, cmd, cbuf, ulLens, typed, sub>>
srvVars == <<spc, pending, after, last, present, fsize>>
cliVars == <<cpc, cmd, cbuf, ulLens, typed, sub>>

-----------------------------------------------------------------------------
(* Framing of the reply loops.                                             *)

\* Lengths returned by read(fd, chunk, CHUNK_SIZE) until it returns 0: the
\* READF whole-file loop and the client's UPLOAD loop.
RECURSIVE ChunkLens(_)
ChunkLens(n) ==
    IF n = 0 THEN <<>>
    ELSE IF n < Chunk THEN <<n>>
    ELSE <<Chunk>> \o ChunkLens(n - Chunk)

\* Lengths of the DOWNLOAD loop, which reads until a read is short,
\* a read of 0 bytes at end of file included.
RECURSIVE DownloadLens(_)
DownloadLens(n) ==
    IF n < Chunk THEN <<n>> ELSE <<Chunk>> \o DownloadLens(n - Chunk)

\* A response_t: len data words, zero padding, is_complete, is_exit.
Frame(len, complete, exit) ==
    [i \in 1..FrameLen |->
        IF i = CompleteAt THEN complete
        ELSE IF i = ExitAt THEN exit
        ELSE IF i <= len THEN Data ELSE 0]

\* READF without a line: is_complete only after a short read.
ReadfFramesLe(n, e) ==
    LET ls == ChunkLens(n)
    IN  [i \in 1..Len(ls) |-> Frame(ls[i], IF ls[i] <= Chunk THEN 1 ELSE 0, e)]

ReadfFrames(n, e) ==
    LET ls == ChunkLens(n)
    IN  [i \in 1..Len(ls) |-> Frame(ls[i], IF ls[i] < Chunk THEN 1 ELSE 0, e)]

\* LIST: for (i = 0; i < len; i += CHUNK_SIZE), complete when i+CHUNK >= len.
ListFrames(n, e) ==
    LET ls == ChunkLens(n)
    IN  [i \in 1..Len(ls) |-> Frame(ls[i], IF i = Len(ls) THEN 1 ELSE 0, e)]

DownloadFrames(n) ==
    LET ls == DownloadLens(n)
    IN  [i \in 1..Len(ls) |-> Frame(ls[i], IF ls[i] < Chunk THEN 1 ELSE 0, 0)]

-----------------------------------------------------------------------------
Init ==
    /\ toSrv = <<>>
    /\ toCli = <<>>
    /\ conn = 0
    /\ spc = "cmd"
    /\ pending = <<>>
    /\ after = "cmd"
    /\ last = None
    /\ present = InitPresent
    /\ fsize = InitSize
    /\ cpc = "prompt"
    /\ cmd = "NONE"
    \* the stack response_t before its first read: its flags are garbage
    /\ cbuf \in {[i \in 1..FrameLen |-> IF i <= Chunk THEN 0 ELSE f[i]] :
                    f \in [1..FrameLen -> {0, 1}]}
    /\ ulLens = <<>>
    /\ typed = 0
    \* the stack command_t is not initialised
    /\ sub \in SubTypes

-----------------------------------------------------------------------------
(* The handler.                                                            *)

\* read(client_fifo_fd_read, &command, sizeof(command)): the next command,
\* or, once the client has closed its end, 0 bytes and the command_t
\* variable still holding the previous command.  Before any command that
\* variable is uninitialised: any command, or (no branch matching its type)
\* a loop that reads 0 bytes forever, which the model leaves as no step.
ReadCommand(m) ==
    \/ /\ toSrv # <<>>
       /\ Head(toSrv) = m
       /\ toSrv' = Tail(toSrv)
    \/ /\ toSrv = <<>>
       /\ cpc = "exited"
       /\ last \in {m, None}
       /\ UNCHANGED toSrv

\* A branch that writes frames, each followed by sem_post, then goes on.
Reply(frames, next) ==
    /\ pending' = frames
    /\ after' = next
    /\ spc' = IF frames = <<>> THEN next ELSE "send"

ServeKill ==
    /\ spc = "cmd"
    /\ \E m \in CmdMsg : m.type = "KILLSERVER" /\ ReadCommand(m) /\ last' = m
    /\ spc' = "exited"
    /\ UNCHANGED <<toCli, conn, pending, after, present, fsize, cliVars>>

\* QUIT: one frame, memset to 0 with is_exit = 1, then sem_post and exit.
ServeQuitNoExit ==
    /\ spc = "cmd"
    /\ \E m \in CmdMsg : m.type = "QUIT" /\ ReadCommand(m) /\ last' = m
    /\ Reply(<<Frame(0, 0, 0)>>, "exited")
    /\ UNCHANGED <<toCli, conn, present, fsize, cliVars>>

ServeQuit ==
    /\ spc = "cmd"
    /\ \E m \in CmdMsg : m.type = "QUIT" /\ ReadCommand(m) /\ last' = m
    /\ Reply(<<Frame(0, 0, 1)>>, "exited")
    /\ UNCHANGED <<toCli, conn, present, fsize, cliVars>>

\* HELP: one complete frame; response.is_exit is never set.
ServeHelp ==
    /\ spc = "cmd"
    /\ \E m \in CmdMsg : m.type = "HELP" /\ ReadCommand(m) /\ last' = m
    /\ \E e \in {0, 1} : Reply(<<Frame(1, 1, e)>>, "cmd")
    /\ UNCHANGED <<toCli, conn, present, fsize, cliVars>>

\* LIST: one line per regular file, in chunks; none for an empty directory.
ServeList ==
    /\ spc = "cmd"
    /\ \E m \in CmdMsg : m.type = "LIST" /\ ReadCommand(m) /\ last' = m
    /\ \E e \in {0, 1} :
         Reply(ListFrames(OtherFiles + (IF present THEN 1 ELSE 0), e), "cmd")
    /\ UNCHANGED <<toCli, conn, present, fsize, cliVars>>

\* READF: open fails -> exit(EXIT_FAILURE); with a line, only the first
\* chunk is looked at and its frame is complete; otherwise chunk by chunk.
ServeReadf ==
    /\ spc = "cmd"
    /\ \E m \in CmdMsg :
         /\ m.type = "READF" /\ ReadCommand(m) /\ last' = m
         /\ IF ~present
              THEN spc' = "exited" /\ UNCHANGED <<pending, after>>
              ELSE \E e \in {0, 1} :
                     Reply(IF ~m.line THEN ReadfFrames(fsize, e)
                           ELSE IF fsize = 0 THEN <<>>
                           ELSE <<Frame(IF fsize < Chunk THEN fsize ELSE Chunk, 1, e)>>,
                           "cmd")
    /\ UNCHANGED <<toCli, conn, present, fsize, cliVars>>

\* WRITET: open(O_CREAT), append or insert one line, then one complete frame.
ServeWritet ==
    /\ spc = "cmd"
    /\ \E m \in CmdMsg : m.type = "WRITET" /\ ReadCommand(m) /\ last' = m
    /\ present' = TRUE
    /\ fsize' = fsize + 1
    /\ \E e \in {0, 1} : Reply(<<Frame(1, 1, e)>>, "cmd")
    /\ UNCHANGED <<toCli, conn, cliVars>>

\* DOWNLOAD: a missing file is answered by the word 0 and a post; an
\* existing one by its frames alone, with no existence word.
ServeDownload ==
    /\ spc = "cmd"
    /\ \E m \in CmdMsg : m.type = "DOWNLOAD" /\ ReadCommand(m) /\ last' = m
    /\ Reply(IF present THEN DownloadFrames(fsize) ELSE <<<<0>>>>, "cmd")
    /\ UNCHANGED <<toCli, conn, present, fsize, cliVars>>

\* UPLOAD: access(), the one-byte answer and a post; for a new file
\* the handler goes on to open it and receive.
ServeUpload ==
    /\ spc = "cmd"
    /\ \E m \in CmdMsg : m.type = "UPLOAD" /\ ReadCommand(m) /\ last' = m
    /\ Reply(<<<<IF present THEN 1 ELSE 0>>>>, IF present THEN "cmd" ELSE "ul_open")
    /\ UNCHANGED <<toCli, conn, present, fsize, cliVars>>

\* open(O_WRONLY | O_CREAT | O_TRUNC), after the answer was written and
\* posted: a handler killed by SIGPIPE at the answer creates no file.
UploadOpen ==
    /\ spc = "ul_open"
    /\ spc' = "ul_wait"
    /\ present' = TRUE
    /\ fsize' = 0
    /\ UNCHANGED <<toSrv, toCli, conn, pending, after, last, cliVars>>

\* write(client_fifo_fd_write, ...) then sem_post; a write to a FIFO whose
\* reader has exited raises SIGPIPE, which ends the handler.
SendFrame ==
    /\ spc = "send"
    /\ IF cpc = "exited"
         THEN /\ spc' = "exited"
              /\ UNCHANGED <<toCli, conn, pending>>
         ELSE /\ toCli' = toCli \o Head(pending)
              /\ conn' = conn + 1
              /\ pending' = Tail(pending)
              /\ spc' = IF Tail(pending) = <<>> THEN after ELSE "send"
    /\ UNCHANGED <<toSrv, after, last, present, fsize, cliVars>>

UploadWait ==
    /\ spc = "ul_wait"
    /\ conn > 0
    /\ conn' = conn - 1
    /\ spc' = "ul_read"
    /\ UNCHANGED <<toSrv, toCli, pending, after, last, present, fsize, cliVars>>

\* read(client_fifo_fd_read, &response, sizeof(response)): an upload frame.
\* A command read here (the client sent no upload) or end of file leaves
\* is_exit as whatever the response_t held; the bytes are written to the
\* file as strlen(content) of garbage, which the model does not count.
UpFrameRead == toSrv # <<>> /\ Head(toSrv) \in UpFrame
ExitRead == IF UpFrameRead THEN {Head(toSrv).exit} ELSE {0, 1}
UploadRead ==
    /\ spc = "ul_read"
    /\ toSrv # <<>> \/ cpc = "exited"
    /\ toSrv' = IF toSrv # <<>> THEN Tail(toSrv) ELSE toSrv
    /\ \E e \in ExitRead :
         /\ spc' = IF e = 1 THEN "cmd" ELSE "ul_wait"
         /\ fsize' = IF e = 0 /\ UpFrameRead THEN fsize + Head(toSrv).len ELSE fsize
    /\ UNCHANGED <<toCli, conn, pending, after, last, present, cliVars>>

-----------------------------------------------------------------------------
(* The client.                                                             *)

\* The client's read of up to n words: the words read, or none at end of
\* file (the handler has exited and the FIFO is drained).
Avail(n) == IF Len(toCli) < n THEN Len(toCli) ELSE n
CanRead == toCli # <<>> \/ spc = "exited"
\* read() into the response_t: the words read overwrite its front.
Overlay(buf) ==
    [i \in 1..FrameLen |-> IF i <= Avail(FrameLen) THEN toCli[i] ELSE buf[i]]
\* memset(response.content, 0, ...) after the frame is used.
ClearContent(buf) == [i \in 1..FrameLen |-> IF i <= Chunk THEN 0 ELSE buf[i]]

\* fgets returns a line; parse_command fails: "Invalid command", and the
\* loop goes back to the prompt.
TypeInvalid(toks) ==
    /\ cpc = "prompt"
    /\ typed < MaxCmds
    /\ parse_command(toks, sub).rc = -1
    /\ typed' = typed + 1
    /\ sub' = parse_command(toks, sub).sub
    /\ UNCHANGED <<toSrv, toCli, conn, srvVars, cpc, cmd, cbuf, ulLens>>

\* ... parse_command succeeds: write(client_fd_write, &command, ...), then
\* the branch for its type.  The generic reply loop sets is_complete = 0.
Type(toks) ==
    /\ cpc = "prompt"
    /\ typed < MaxCmds
    /\ LET p == parse_command(toks, sub)
           t == p.type
       IN  /\ p.rc = 0
           /\ typed' = typed + 1
           /\ sub' = p.sub
           /\ cmd' = t
           /\ IF spc = "exited"
                THEN cpc' = "exited" /\ UNCHANGED <<toSrv, cbuf, ulLens>>
                ELSE /\ toSrv' = Append(toSrv, [type |-> t, line |-> p.line])
                     /\ cpc' = CASE t = "KILLSERVER" -> "exited"
                                 [] t = "DOWNLOAD"   -> "dl_word"
                                 [] t = "UPLOAD"     -> IF LocalExists THEN "ul_word" ELSE "prompt"
                                 [] OTHER            -> "reply"
                     /\ cbuf' = IF t \in {"KILLSERVER", "DOWNLOAD", "UPLOAD"} THEN cbuf
                                ELSE [cbuf EXCEPT ![CompleteAt] = 0]
                     /\ UNCHANGED ulLens
    /\ UNCHANGED <<toCli, conn, srvVars>>

\* fgets returns NULL at end of input (not EINTR): exit(EXIT_FAILURE),
\* without a word to the handler.
StdinClosed ==
    /\ cpc = "prompt"
    /\ cpc' = "exited"
    /\ UNCHANGED <<toSrv, toCli, conn, srvVars, cmd, cbuf, ulLens, typed, sub>>

\* sem_wait(client_connection_sem) in the reply and download loops.
ClientWaitNoBlock ==
    /\ cpc \in {"reply", "dl_wait"}
    /\ conn' = conn - 1
    /\ cpc' = IF cpc = "reply" THEN "reply_read" ELSE "dl_read"
    /\ UNCHANGED <<toSrv, toCli, srvVars, cmd, cbuf, ulLens, typed, sub>>

ClientWait ==
    /\ cpc \in {"reply", "dl_wait"}
    /\ conn > 0
    /\ conn' = conn - 1
    /\ cpc' = IF cpc = "reply" THEN "reply_read" ELSE "dl_read"
    /\ UNCHANGED <<toSrv, toCli, srvVars, cmd, cbuf, ulLens, typed, sub>>

\* The generic loop: exit on is_exit, back to the prompt on is_complete.
ReplyRead ==
    /\ cpc = "reply_read"
    /\ CanRead
    /\ LET buf == Overlay(cbuf)
       IN  /\ cbuf' = ClearContent(buf)
           /\ cpc' = IF buf[ExitAt] # 0 THEN "exited"
                     ELSE IF buf[CompleteAt] # 0 THEN "prompt" ELSE "reply"
    /\ toCli' = SubSeq(toCli, Avail(FrameLen) + 1, Len(toCli))
    /\ UNCHANGED <<toSrv, conn, srvVars, cmd, ulLens, typed, sub>>

\* DOWNLOAD: read(client_fd_read, &is_file_exist, 4), no sem_wait; at end
\* of file the uninitialised int decides.
DownloadWord ==
    /\ cpc = "dl_word"
    /\ CanRead
    /\ \E w \in (IF toCli # <<>> THEN {Head(toCli)} ELSE {0, Data}) :
         /\ cpc' = IF w # 0 THEN "dl_wait" ELSE "prompt"
         /\ cbuf' = IF w # 0 THEN [cbuf EXCEPT ![CompleteAt] = 0] ELSE cbuf
    /\ toCli' = SubSeq(toCli, Avail(1) + 1, Len(toCli))
    /\ UNCHANGED <<toSrv, conn, srvVars, cmd, ulLens, typed, sub>>

DownloadRead ==
    /\ cpc = "dl_read"
    /\ CanRead
    /\ LET buf == Overlay(cbuf)
       IN  /\ cbuf' = ClearContent(buf)
           /\ cpc' = IF buf[CompleteAt] # 0 THEN "prompt" ELSE "dl_wait"
    /\ toCli' = SubSeq(toCli, Avail(FrameLen) + 1, Len(toCli))
    /\ UNCHANGED <<toSrv, conn, srvVars, cmd, ulLens, typed, sub>>

\* UPLOAD: read the one-byte answer into an int initialised to 0.
UploadWord ==
    /\ cpc = "ul_word"
    /\ CanRead
    /\ IF toCli # <<>> /\ Head(toCli) = 1
         THEN cpc' = "prompt" /\ UNCHANGED ulLens
         ELSE cpc' = "ul_send" /\ ulLens' = ChunkLens(LocalSize)
    /\ toCli' = SubSeq(toCli, Avail(1) + 1, Len(toCli))
    /\ UNCHANGED <<toSrv, conn, srvVars, cmd, cbuf, typed, sub>>

\* One chunk of the local file, then sem_post.
UploadSend ==
    /\ cpc = "ul_send"
    /\ ulLens # <<>>
    /\ toSrv' = Append(toSrv, [type |-> "FRAME", len |-> Head(ulLens), exit |-> 0])
    /\ conn' = conn + 1
    /\ ulLens' = Tail(ulLens)
    /\ UNCHANGED <<toCli, srvVars, cpc, cmd, cbuf, typed, sub>>

\* The closing frame, is_exit = 1, with no sem_post.
UploadExit ==
    /\ cpc = "ul_send"
    /\ ulLens = <<>>
    /\ toSrv' = Append(toSrv, [type |-> "FRAME", len |-> 0, exit |-> 1])
    /\ cpc' = "prompt"
    /\ UNCHANGED <<toCli, conn, srvVars, cmd, cbuf, ulLens, typed, sub>>

-----------------------------------------------------------------------------
ServerStep ==
    \/ ServeKill \/ ServeQuit \/ ServeHelp \/ ServeList
    \/ ServeReadf \/ ServeWritet \/ ServeDownload \/ ServeUpload
    \/ SendFrame \/ UploadOpen \/ UploadWait \/ UploadRead

ClientStep ==
    \/ ClientWait \/ ReplyRead \/ DownloadWord \/ DownloadRead
    \/ UploadWord \/ UploadSend \/ UploadExit

Next ==
    \/ ServerStep
    \/ ClientStep
    \/ \E toks \in Lines : Type(toks) \/ TypeInvalid(toks)
    \/ StdinClosed

\* Both processes run whenever they are not blocked; the user need not type.
Spec == Init /\ [][Next]_vars /\ WF_vars(ServerStep) /\ WF_vars(ClientStep)

-----------------------------------------------------------------------------
TypeOK ==
    /\ toSrv \in Seq(CmdMsg \cup UpFrame)
    /\ toCli \in Seq(Word)
    /\ conn \in Nat
    /\ spc \in {"cmd", "send", "ul_open", "ul_wait", "ul_read", "exited"}
    /\ pending \in Seq(Seq(Word))
    /\ last \in CmdMsg \cup {None}
    /\ present \in BOOLEAN
    /\ fsize \in Nat
    /\ cpc \in {"prompt", "reply", "reply_read", "dl_word", "dl_wait", "dl_read",
                "ul_word", "ul_send", "exited"}
    /\ cbuf \in [1..FrameLen -> Word]
    /\ typed \in 0..MaxCmds
    /\ sub \in SubTypes

\* Back at the prompt, the client has read every word the handler wrote for
\* the commands before, and the handler has nothing left to write: the
\* reply stream of the next command starts at a frame boundary.  Stale
\* words break the framing of every later reply.
ReplyFullyConsumed ==
    cpc = "prompt" => toCli = <<>> /\ pending = <<>>

\* A QUIT the user types ends the client: the handler's is_exit frame
\* reaches the generic reply loop (client.c), whatever came before it.
QuitEndsSession ==
    (cpc = "reply" /\ cmd = "QUIT") ~> cpc = "exited"

\* Every command the client sends is eventually finished: the client is
\* back at its prompt or has exited, rather than blocked in sem_wait or
\* read() on a reply that never comes.
CommandCompletes ==
    cpc \in {"reply", "reply_read", "dl_word", "dl_wait", "dl_read", "ul_word", "ul_send"}
        ~> cpc \in {"prompt", "exited"}

====
