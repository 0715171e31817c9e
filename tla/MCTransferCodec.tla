--------------------------- MODULE MCTransferCodec --------------------------
(* Instantiation of TransferCodec for TLC: writeT texts of one and two    *)
(* bytes, so that an insertion is told from an append; local files for    *)
(* UPLOAD shorter than a chunk and longer than one.                       *)
EXTENDS TransferCodec

MCTexts == {<<"x">>, <<"x", "x">>}

MCLocals == {<<"x", "\n">>, <<"x", "x", "x", "\n">>}

=============================================================================
