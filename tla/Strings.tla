------------------------------- MODULE Strings -------------------------------
(* Texts are sequences of characters: strings.Index, Split, SplitN and Cut.   *)
EXTENDS Integers, SequencesExt

\* How many characters stand before each occurrence of piece in s, at or after
\* the first from characters.
Occurrences(s, piece, from) ==
  {i \in from..(Len(s) - Len(piece)) :
     \A j \in DOMAIN piece : s[i + j] = piece[j]}

Leftmost(I) == CHOOSE i \in I : \A j \in I : i <= j

\* What follows the first n characters.
From(s, n) == SubSeq(s, n + 1, Len(s))

Split(s, separator) ==
  FoldLeft(LAMBDA pieces, c :
             IF c = separator THEN Append(pieces, <<>>)
             ELSE [pieces EXCEPT ![Len(pieces)] = Append(@, c)],
           <<<<>>>>, s)

\* Each piece after a separator.
Prefixed(pieces, separator) ==
  FoldLeft(LAMBDA s, piece : s \o <<separator>> \o piece, <<>>, pieces)

\* In at most n pieces; the last one keeps its separators.
SplitN(s, separator, n) ==
  LET pieces == Split(s, separator)
      cut == FoldLeft(LAMBDA k, piece : k + Len(piece) + 1, 0, SubSeq(pieces, 1, n - 1))
  IN IF Len(pieces) <= n THEN pieces
     ELSE Append(SubSeq(pieces, 1, n - 1), From(s, cut))

CutAt(s, n) == [before |-> SubSeq(s, 1, n), after |-> From(s, n + 1), found |-> TRUE]
Uncut(s) == [before |-> s, after |-> <<>>, found |-> FALSE]

\* Around the first separator.
Cut(s, separator) ==
  LET found == Occurrences(s, <<separator>>, 0)
  IN IF found = {} THEN Uncut(s) ELSE CutAt(s, Leftmost(found))
=============================================================================
