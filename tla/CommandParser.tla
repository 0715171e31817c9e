--------------------------- MODULE CommandParser ---------------------------
(***************************************************************************)
(* parse_command and get_type (command_parser.c): a typed line, split by   *)
(* sscanf's %s into whitespace-separated tokens, becomes a command_t.     *)
(*                                                                         *)
(* A token is a keyword, a number (what %d accepts: "1" stands for a      *)
(* positive one, "0" for zero or a negative one) or any other word "w".   *)
(* Every token is also a %s word, so a keyword or a number can be a file  *)
(* name or text.  File names and text are not kept: the model keeps which *)
(* command was parsed, whether its line is positive (what the handler     *)
(* tests) and the sub_type, the one field init_command does not reset.    *)
(***************************************************************************)
EXTENDS Integers, Sequences

\* strcmp(cmd_type_str, ...) of parse_command, keyword -> command_type_t
TypeOf == [help |-> "HELP", list |-> "LIST", readF |-> "READF",
           writeT |-> "WRITET", upload |-> "UPLOAD", download |-> "DOWNLOAD",
           quit |-> "QUIT", killServer |-> "KILLSERVER"]
Keywords == DOMAIN TypeOf
Numbers == {"1", "0"}
Tokens == Keywords \cup Numbers \cup {"w"}

\* command_type_t; the stack command_t's first sub_type is whatever the
\* slot held, which is one of these values or another int (as UNKNOWN for
\* get_message, but not equal to UNKNOWN).
CommandTypes == {"HELP", "LIST", "READF", "WRITET", "UPLOAD", "DOWNLOAD",
                 "QUIT", "KILLSERVER", "UNKNOWN"}
SubTypes == CommandTypes \cup {"GARBAGE"}

\* get_type: "help" is not a sub_type.
get_type(str) ==
  IF str \in Keywords \ {"help"} THEN TypeOf[str] ELSE "UNKNOWN"

\* The result of parse_command(input_str, command): its return value, the
\* type it sets, command->line > 0, and command->sub_type, which only a
\* help line with an argument writes.  help's command->line = line copies
\* an uninitialised int that nothing reads; it is left FALSE.
Parsed(rc, type, line, sub) == [rc |-> rc, type |-> type, line |-> line, sub |-> sub]

parse_command(toks, sub) ==
  LET n == Len(toks)
      at(i) == IF i <= n THEN toks[i] ELSE "none"
      kw == at(1)
      ok(line, s) == Parsed(0, TypeOf[kw], line, s)
      fail == Parsed(-1, IF kw \in Keywords THEN TypeOf[kw] ELSE "UNKNOWN",
                     FALSE, sub)
  IN  CASE n = 0 \/ kw \notin Keywords          -> fail
        [] kw = "help" /\ n >= 2                -> ok(FALSE, get_type(at(2)))
        [] kw = "help" /\ sub = "UNKNOWN"       -> fail
        [] kw \in {"help", "list", "quit", "killServer"} -> ok(FALSE, sub)
        \* "%s %s %d" == 3, else "%s %s" == 2
        [] kw = "readF" /\ n >= 3 /\ at(3) \in Numbers -> ok(at(3) = "1", sub)
        [] kw = "readF" /\ n >= 2               -> ok(FALSE, sub)
        \* "%s %s %d %[^\n]" == 4, else "%s %s %[^\n]" == 3
        [] kw = "writeT" /\ n >= 4 /\ at(3) \in Numbers -> ok(at(3) = "1", sub)
        [] kw = "writeT" /\ n >= 3              -> ok(FALSE, sub)
        [] kw \in {"upload", "download"} /\ n >= 2 -> ok(FALSE, sub)
        [] OTHER                                -> fail

=============================================================================
