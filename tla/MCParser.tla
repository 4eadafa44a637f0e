------------------------------- MODULE MCParser -------------------------------
(* Parser for TLC: files of at least one token for each way the parser can  *)
(* go on, with blocks of up to two statements and two declarations. "port", *)
(* "Self" and "~" go the ways of "self", "id" and "-".                      *)
EXTENDS Parser

MCTokens ==
  {"id", "self", "int", "u8", "ptr", "error", "eof", "impl",
   "(", ")", "lbrace", "rbrace", "[", "]", "<", ">", "comma", "semi", ":", "::", ".", "=",
   "->", "#", "!", "?",
   "&", "*", "-", "as", "or", "mut", "pub",
   "fn", "interrupt", "struct", "module", "import", "const", "driver", "syscall",
   "let", "return", "break", "defer", "if", "else", "loop", "while", "for", "in"}
=============================================================================
