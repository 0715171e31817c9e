---------------------------- MODULE TransferCodec ---------------------------
(***************************************************************************)
(* The byte algorithms of the Transfer Codec (handle_client, server.c,    *)
(* and bibo_client, client.c): READF with a line number sends the bytes of *)
(* that line, WRITET with a line number inserts "text\n" before that line, *)
(* DOWNLOAD streams the file in chunks that the client writes out with     *)
(* strlen.  One file of the server directory is a sequence of bytes, a     *)
(* byte being "x" or a newline; the state machine applies the code's       *)
(* algorithms to it, one command at a time, as the file lock serialises    *)
(* them, until the client goes away and the handler reads end of file.     *)
(*                                                                         *)
(* Chunk stands for CHUNK_SIZE (2048), the size of each read();  TailBuf   *)
(* for the MAX_WRITE_STRING_LENGTH - 1 (255) bytes WRITET reads of the     *)
(* old content after the insertion point; IntSize for sizeof(CHUNK_SIZE),  *)
(* the size of an int (4), which DOWNLOAD compares a short read against.   *)
(***************************************************************************)
EXTENDS Integers, Sequences, FiniteSets

CONSTANTS
  Chunk,    \* bytes per read(file_fd, chunk, sizeof(chunk))
  TailBuf,  \* bytes of old content WRITET keeps
  MaxLen,   \* bound on the file's length
  MaxLine,  \* line numbers users type: 1..MaxLine
  Texts,    \* the text of writeT lines: sequences without a newline
  IntSize,  \* sizeof(CHUNK_SIZE); 0 < IntSize < Chunk as 4 < 2048
  Locals    \* contents of the client's local files that users upload

NL == "\n"
Bytes == {"x", NL}
Stale == "?"   \* a byte left on the handler's stack by an earlier reply

VARIABLES
  exists, \* the file is in the server's directory
  file,   \* the file's content
  reply,  \* READF's frame content, or the bytes DOWNLOAD makes the client
          \* write; "none" when there is none
  last    \* the last command and the file before it (history)

vars == <<exists, file, reply, last>>

MinOf(a, b) == IF a < b THEN a ELSE b
MaxOf(a, b) == IF a > b THEN a ELSE b

\* Bytes from offset off (0-based) for at most n bytes: one read().
ReadAt(f, off, n) == SubSeq(f, off + 1, MinOf(off + n, Len(f)))

\* Newlines among the first i bytes of s.
NLsUpTo(s, i) == Cardinality({j \in 1..i : s[j] = NL})

\* Positions (1-based) of the newlines of s at which line_number, counted
\* from ln at the start of s, becomes n.
NLReaching(s, ln, n) == {i \in 1..Len(s) : s[i] = NL /\ ln + NLsUpTo(s, i) = n}

LeastOf(S) == CHOOSE i \in S : \A j \in S : i <= j

\* pwrite-like overwrite of f from offset off with s, growing f if needed.
Overlay(f, off, s) ==
  [i \in 1..MaxOf(Len(f), off + Len(s)) |->
     IF off < i /\ i <= off + Len(s) THEN s[i - off] ELSE f[i]]

-----------------------------------------------------------------------------
(* READF with command.line > 0.  line_start, line_end and line_number are   *)
(* reset for every chunk, and is_complete is set at the end of the first   *)
(* one whatever it found, so only the first read() is scanned: line_start  *)
(* is after the newline where line_number reaches line, line_end at the    *)
(* newline where it reaches line + 1, else the end of the chunk.  An       *)
(* empty file gives no read() > 0 and so no frame.                        *)
ReadfReply(f, line) ==
  IF Len(f) = 0 THEN "none"
  ELSE LET c == ReadAt(f, 0, Chunk)
           starts == NLReaching(c, 1, line)
           ends == NLReaching(c, 1, line + 1)
           lineStart == IF starts = {} THEN 0 ELSE LeastOf(starts)
           lineEnd == IF ends = {} THEN Len(c) ELSE LeastOf(ends) - 1
       IN  SubSeq(c, lineStart + 1, lineEnd)

(* WRITET with command.line > 0: the offset.  The while loop reads chunk   *)
(* by chunk with line_number kept across chunks; at the newline where it   *)
(* reaches line, offset is that newline's end.  After a chunk without      *)
(* such a newline the loop stops if line_number = line (only possible with *)
(* line = 1 and no newline read yet), else adds the chunk to offset.       *)
RECURSIVE ScanOffset(_, _, _, _)
ScanOffset(f, line, off, ln) ==
  LET c == ReadAt(f, off, Chunk)
      hit == NLReaching(c, ln, line)
  IN  CASE Len(c) = 0                       -> off
        [] hit # {}                         -> off + LeastOf(hit)
        [] ln + NLsUpTo(c, Len(c)) = line    -> off
        [] OTHER -> ScanOffset(f, line, off + Len(c), ln + NLsUpTo(c, Len(c)))

WritetOffset(f, line) == ScanOffset(f, line, 0, 1)

(* Then: read up to TailBuf bytes of old content at offset, write          *)
(* "text\n" at offset, and write the old content after it.                 *)
WritetFile(f, line, text) ==
  LET off == WritetOffset(f, line)
  IN  Overlay(f, off, text \o <<NL>> \o ReadAt(f, off, TailBuf))

(* DOWNLOAD, one frame: read() of a chunk at off; when the read is shorter *)
(* than IntSize, content[bytes_read - 1] = '\0'; the client writes         *)
(* strlen(content) bytes.  Later frames start from a zeroed content, so    *)
(* strlen stops after the bytes read or at that '\0'.  (For bytes_read 0   *)
(* the store is content[-1], outside the frame, and the zeroed content     *)
(* gives strlen 0.)                                                        *)
DownloadFrame(c) == IF Len(c) < IntSize THEN SubSeq(c, 1, Len(c) - 1) ELSE c

(* The frames from off on: the loop stops after the first read shorter    *)
(* than the chunk (is_complete = bytes_read < sizeof(content)).            *)
RECURSIVE DownloadFrom(_, _)
DownloadFrom(f, off) ==
  LET c == ReadAt(f, off, Chunk)
  IN  IF Len(c) < Chunk THEN DownloadFrame(c)
      ELSE c \o DownloadFrom(f, off + Chunk)

(* What the client may write.  The handler's response_t is not cleared    *)
(* before the first read(), so after a first read shorter than the chunk  *)
(* and not cut by the '\0' store, strlen runs on over stale stack bytes    *)
(* up to the first zero: any number of them up to the end of content.     *)
DownloadCopies(f) ==
  IF Len(f) >= Chunk \/ (0 < Len(f) /\ Len(f) < IntSize)
  THEN {DownloadFrom(f, 0)}
  ELSE {f \o [i \in 1..k |-> Stale] : k \in 0..(Chunk - Len(f))}

(* UPLOAD: the client read()s its file chunk by chunk while a read       *)
(* returns more than 0 and sends each chunk in a response_t whose content *)
(* it has not cleared before the first read and zeroes after every send;  *)
(* the handler writes strlen(content) bytes of each frame (a full content *)
(* is followed by is_complete = 0).  After a first read shorter than the  *)
(* chunk, strlen runs on over the client's stale stack bytes.             *)
UploadCopies(l) ==
  IF Len(l) = 0 \/ Len(l) >= Chunk THEN {l}
  ELSE {l \o [i \in 1..k |-> Stale] : k \in 0..(Chunk - Len(l))}

-----------------------------------------------------------------------------
(* The file is not in the server's directory yet.                          *)
Init ==
  /\ exists = FALSE
  /\ file = <<>>
  /\ reply = "none"
  /\ last = [cmd |-> "NONE", line |-> 0, text |-> <<>>, before |-> <<>>]

(* The handler serves commands until its read() of a command returns end *)
(* of file.                                                                 *)
Serving == last.cmd # "EOF"

ReadF(line) ==
  /\ Serving
  /\ exists
  /\ reply' = ReadfReply(file, line)
  /\ last' = [cmd |-> "READF", line |-> line, text |-> <<>>, before |-> file]
  /\ UNCHANGED <<exists, file>>

(* READF of a missing file: open() fails and the handler exits.           *)
ReadFMissing ==
  /\ Serving
  /\ ~exists
  /\ last' = [cmd |-> "EXIT", line |-> 0, text |-> <<>>, before |-> file]
  /\ UNCHANGED <<exists, file, reply>>

(* WRITET opens the file O_RDWR | O_CREAT.                                 *)
WriteT(line, text) ==
  /\ Serving
  /\ Len(WritetFile(file, line, text)) <= MaxLen
  /\ file' = WritetFile(file, line, text)
  /\ exists' = TRUE
  /\ last' = [cmd |-> "WRITET", line |-> line, text |-> text, before |-> file]
  /\ reply' = "none"

(* WRITET without a line: lseek(SEEK_END) and write "text\n".              *)
WriteAppend(text) ==
  /\ Serving
  /\ Len(file) + Len(text) + 1 <= MaxLen
  /\ file' = file \o text \o <<NL>>
  /\ exists' = TRUE
  /\ last' = [cmd |-> "APPEND", line |-> 0, text |-> text, before |-> file]
  /\ reply' = "none"

(* DOWNLOAD of an existing file: the client's copy gets the bytes the     *)
(* frames carry.  (Of a missing file: the answer 0, nothing changes.)      *)
Download ==
  /\ Serving
  /\ exists
  /\ \E copy \in DownloadCopies(file) : reply' = copy
  /\ last' = [cmd |-> "DOWNLOAD", line |-> 0, text |-> <<>>, before |-> file]
  /\ UNCHANGED <<exists, file>>

(* UPLOAD of local content l to a missing file: access() fails, the       *)
(* handler opens it O_CREAT | O_TRUNC and writes the frames' bytes.  (To  *)
(* an existing file: the answer 1, nothing changes.)                      *)
Upload(l) ==
  /\ Serving
  /\ ~exists
  /\ \E copy \in UploadCopies(l) : file' = copy
  /\ exists' = TRUE
  /\ last' = [cmd |-> "UPLOAD", line |-> 0, text |-> l, before |-> file]
  /\ reply' = "none"

(* The client has exited (end of stdin at its prompt: exit(EXIT_FAILURE)). *)
(* The handler's read() returns 0 and leaves the uninitialised command_t,  *)
(* which on the stack still holds the previous command or, as any read of  *)
(* an uninitialised value may, something that is not a command on this   *)
(* file; the handler runs it, and its reply write raises SIGPIPE, which    *)
(* ends the handler.                                                       *)
Redo(f, l) ==
  CASE l.cmd = "WRITET" -> WritetFile(f, l.line, l.text)
    [] l.cmd = "APPEND" -> f \o l.text \o <<NL>>
    [] OTHER            -> f

ClientGone ==
  /\ last.cmd \in {"READF", "WRITET", "APPEND", "DOWNLOAD", "UPLOAD"}
  /\ \E after \in {Redo(file, last), file} :
       /\ Len(after) <= MaxLen
       /\ file' = after
  /\ last' = [cmd |-> "EOF", line |-> 0, text |-> <<>>, before |-> file]
  /\ reply' = "none"
  /\ UNCHANGED exists

Next ==
  \/ \E line \in 1..MaxLine : ReadF(line)
  \/ \E line \in 1..MaxLine, text \in Texts : WriteT(line, text)
  \/ \E text \in Texts : WriteAppend(text)
  \/ ReadFMissing
  \/ Download
  \/ \E l \in Locals : Upload(l)
  \/ ClientGone

Spec == Init /\ [][Next]_vars

-----------------------------------------------------------------------------
(* The lines of a file as spec.md 6 and 8 read them: a line ends at a      *)
(* newline, and a last line without one counts.                            *)
Ends(f) == {i \in 1..Len(f) : f[i] = NL}
NumLines(f) ==
  Cardinality(Ends(f)) + (IF Len(f) > 0 /\ f[Len(f)] # NL THEN 1 ELSE 0)
KthEnd(f, k) == CHOOSE i \in Ends(f) : NLsUpTo(f, i) = k

\* The bytes of line k, without its newline.
LineOf(f, k) ==
  LET s == IF k = 1 THEN 0 ELSE KthEnd(f, k - 1)
      e == IF Cardinality(Ends(f)) >= k THEN KthEnd(f, k) - 1 ELSE Len(f)
  IN  SubSeq(f, s + 1, e)

\* writeT at line k: "text\n" right after line k-1's newline (the start of
\* the file for k = 1), or at end of file when there are fewer lines.
InsertLine(f, k, text) ==
  LET off == CASE k = 1                          -> 0
               [] Cardinality(Ends(f)) >= k - 1  -> KthEnd(f, k - 1)
               [] OTHER                          -> Len(f)
  IN  SubSeq(f, 1, off) \o text \o <<NL>> \o SubSeq(f, off + 1, Len(f))

TypeOK ==
  /\ exists \in BOOLEAN
  /\ file \in Seq(Bytes \cup {Stale}) /\ Len(file) <= MaxLen
  /\ reply = "none" \/ reply \in Seq(Bytes \cup {Stale})
  /\ last.cmd \in {"NONE", "READF", "WRITET", "APPEND", "DOWNLOAD", "UPLOAD",
                   "EOF", "EXIT"}

(* The file commands do what spec.md 4.3 and 8 say: readF k of a file    *)
(* with at least k lines answers exactly line k; writeT k inserts          *)
(* "text\n" before line k leaving every other byte in place; download      *)
(* gives the client the file byte for byte and upload puts the local     *)
(* file byte for byte (the round trip of spec 8);                         *)
(* and a command runs once: after the client has gone the file does not    *)
(* change.  It is about READF's per-chunk scan, WRITET's offset scan and   *)
(* tail buffer, DOWNLOAD's short-read test and uncleared frame, UPLOAD's  *)
(* uncleared frame, and the                                               *)
(* handler's use of command_t after a read() of 0 bytes.                   *)
FileCommandsFollowSpec ==
  /\ last.cmd = "READF" /\ last.line <= NumLines(file)
       => reply = LineOf(file, last.line)
  /\ last.cmd = "WRITET"
       => file = InsertLine(last.before, last.line, last.text)
  /\ last.cmd = "DOWNLOAD" => reply = file
  /\ last.cmd = "UPLOAD" => file = last.text
  /\ last.cmd = "EOF" => file = last.before

=============================================================================
