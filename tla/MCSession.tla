----------------------------- MODULE MCSession -----------------------------
(* Lines the user types, as token sequences: one for every branch of      *)
(* parse_command, and the valid lines of each command.                    *)
EXTENDS Session

AllLines ==
  { <<>>, <<"w">>,
    <<"help">>, <<"help", "readF">>, <<"help", "w">>,
    <<"list">>,
    <<"readF">>, <<"readF", "w">>, <<"readF", "w", "1">>, <<"readF", "w", "0">>,
    <<"writeT", "w">>, <<"writeT", "w", "1">>, <<"writeT", "w", "1", "w">>,
    <<"upload">>, <<"upload", "w">>,
    <<"download">>, <<"download", "w">>,
    <<"quit">>, <<"killServer">> }

UploadQuitLines == { <<"upload", "w">>, <<"quit">> }

DownloadLines == { <<"download", "w">> }
====
