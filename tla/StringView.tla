----------------------------- MODULE StringView -----------------------------
(***************************************************************************)
(* What hw-6 uses of std::string and std::string_view.  A character is its *)
(* code, positions count from 0.  Npos is -1 as in the code, where the     *)
(* largest size_t and 1 make 0.                                            *)
(***************************************************************************)
EXTENDS Integers, Sequences

Npos == -1

\* s.find(t, from), and s.find_first_of(C, from) for a set C of characters.
FirstOf(P) == IF P = {} THEN Npos ELSE CHOOSE i \in P : \A j \in P : i <= j
Find(s, t, from) ==
  FirstOf({i \in from .. Len(s) - Len(t) : SubSeq(s, i + 1, i + Len(t)) = t})
FindIn(s, C, from) == FirstOf({i \in from .. Len(s) - 1 : s[i + 1] \in C})

\* s.substr(pos, n) and s.remove_prefix(n), for pos and n up to s.size().
Substr(s, pos, n) ==
  SubSeq(s, pos + 1, IF n = Npos \/ pos + n > Len(s) THEN Len(s) ELSE pos + n)
RemovePrefix(s, n) == SubSeq(s, n + 1, Len(s))

NUL == 0
TAB == 9
LF == 10
CR == 13
Space == 32
Percent == 37
Amp == 38
Slash == 47
Colon == 58
Equals == 61
Question == 63
Endline == <<CR, LF>>
HeadersEnd == Endline \o Endline

\* tolower in the "C" locale.
Lower(c) == IF c \in 65 .. 90 THEN c + 32 ELSE c
LowerCase(s) == [i \in DOMAIN s |-> Lower(s[i])]
=============================================================================
