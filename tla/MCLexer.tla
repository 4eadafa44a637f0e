------------------------------- MODULE MCLexer --------------------------------
(* Lexer for TLC: every text of up to three characters, and longer ones over*)
(* the characters that belong together.                                     *)
EXTENDS Lexer, SequencesExt

MCChars == Blank \cup Alnum \cup Operator \cup Single \cup {Quote, Tick, BackSlash, "$"}

MCTexts ==
  {<<"k">>} \cup BoundedSeq(MCChars \ {"k"}, 3)
    \cup BoundedSeq({"/", "*", NewLine}, 7)
    \cup BoundedSeq({"<", ">", "=", ".", "-"}, 4)
    \cup BoundedSeq({"0", "9", "b", ".", "e", "-"}, 4)
    \cup BoundedSeq({Quote, BackSlash, "x", "a", "r"}, 5)
    \cup BoundedSeq({Tick, BackSlash, "x", "a", "b"}, 5)
    \cup BoundedSeq({Quote, "$", NewLine, Return}, 5)
    \cup BoundedSeq({"$", NewLine}, 7)
=============================================================================
