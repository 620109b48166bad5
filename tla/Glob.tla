-------------------------------- MODULE Glob --------------------------------
(***************************************************************************)
(* The path globs of the blocklist (src/policy.go globMatches).            *)
(* A pattern and a path are sequences of characters; Star matches any run  *)
(* of characters, slashes included, and the match is anchored at both      *)
(* ends.  The code cuts the pattern at its stars and looks for the pieces  *)
(* from left to right, never going back.                                   *)
(***************************************************************************)
EXTENDS Strings

CONSTANT Star

NoMatch == -1

\* Slip: the search for a middle piece starts over at the front of the path.
SearchFromFront(s, piece, at) ==
  LET found == Occurrences(s, piece, 0)
  IN IF at = NoMatch \/ found = {} THEN NoMatch
     ELSE Leftmost(found) + Len(piece)

\* Past the first occurrence of a middle piece, strings.Index and the reslice.
Search(s, piece, at) ==
  LET found == IF at = NoMatch THEN {} ELSE Occurrences(s, piece, at)
  IN IF found = {} THEN NoMatch ELSE Leftmost(found) + Len(piece)

globMatches(pattern, s) ==
  LET parts == Split(pattern, Star)
      first == Head(parts)
      \* how much of s the pieces before the last consume
      consumed == FoldLeft(LAMBDA at, piece : Search(s, piece, at),
                           IF IsPrefix(first, s) THEN Len(first) ELSE NoMatch,
                           Tail(Front(parts)))
  IN /\ pattern # <<>>
     /\ IF Len(parts) = 1 THEN pattern = s
        ELSE consumed # NoMatch /\ IsSuffix(Last(parts), From(s, consumed))

-----------------------------------------------------------------------------
(* What a glob means: Star stands for some run of characters.               *)

\* How much of s the pattern can stand for, in every way it can be read.
Reach(pattern, s) ==
  FoldLeft(LAMBDA ends, c :
             IF c = Star THEN {j \in 0..Len(s) : \E i \in ends : i <= j}
             ELSE {j \in 1..Len(s) : j - 1 \in ends /\ s[j] = c},
           {0}, pattern)

Means(pattern, s) == pattern # <<>> /\ Len(s) \in Reach(pattern, s)
=============================================================================
