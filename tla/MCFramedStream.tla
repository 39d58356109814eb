----------------------------- MODULE MCFramedStream -----------------------------
(***************************************************************************)
(* FramedStream with a two-digit ternary header (0 to 8) and a limit of    *)
(* three bytes: a frame of every admissible length, an empty one and one   *)
(* too long, and raw writes that declare 0, the limit plus one, and a      *)
(* header that stops half way.                                             *)
(***************************************************************************)
EXTENDS FramedStream

MCPayloads == {<<>>, <<1>>, <<0, 1>>, <<1, 0, 2>>, <<1, 1, 1, 1>>}
MCRaw == {<<0, 0>>, <<1, 1, 2, 2, 2, 2>>, <<0>>, <<2, 2, 1>>}
===============================================================================
