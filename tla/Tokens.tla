------------------------------- MODULE Tokens -------------------------------
(***************************************************************************)
(* parse_tokens of init.cc, for TDG_TOOL_METRICS and TDG_PAPI_METRICS.  A  *)
(* string is a sequence of lexemes: a comma, or a word without commas.     *)
(* npos is 0, so that npos + 1 is the first position, as in the code.      *)
(***************************************************************************)
EXTENDS Integers, Sequences, FiniteSetsExt

npos == 0

Find(str, from) ==
  LET commas == {k \in from .. Len(str) : str[k] = ","}
  IN  IF commas = {} THEN npos ELSE Min(commas)

\* Mutation: as many tokens as commas.
NumTokens_Commas(str) == Len(SelectSeq(str, LAMBDA c : c = ","))

NumTokens(str) ==
  IF str = <<>> THEN 0 ELSE Len(SelectSeq(str, LAMBDA c : c = ",")) + 1

ParseTokens(str) ==
  LET Loop[i \in Nat] ==
        IF i = 0
        THEN [last |-> 1, tokens |-> <<>>]
        ELSE LET l == Loop[i - 1]
                 c == Find(str, l.last)
             IN  [last   |-> c + 1,
                  tokens |-> Append(l.tokens,
                               SubSeq(str, l.last, IF c = npos THEN Len(str) ELSE c - 1))]
  IN  Loop[NumTokens(str)].tokens
=============================================================================
