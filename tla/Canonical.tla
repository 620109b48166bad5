------------------------------ MODULE Canonical ------------------------------
(***************************************************************************)
(* Canonicalising a request before anything decides on it                  *)
(* (src/canonical.go).  Texts are sequences of characters.  In an escaped  *)
(* path an escape counts as one: "%2e" for a dot, "%2f" for a slash, and   *)
(* "%" for one that decodes to nothing; "x" is any letter.  In an          *)
(* authority "1" is any digit, "a" and "A" a letter in both cases and "#"  *)
(* every character of a URL that no hostname has.  Surrounding space,      *)
(* which is trimmed, and the lengths of names and labels are left out.     *)
(***************************************************************************)
EXTENDS Strings

Refused == [ok |-> FALSE]

-----------------------------------------------------------------------------
(* Authorities.                                                              *)

\* strings.ToLower.
Lower(s) == [i \in DOMAIN s |-> IF s[i] = "A" THEN "a" ELSE s[i]]

Unbracketed(h) ==
  IF Len(h) > 1 /\ Head(h) = "[" /\ Last(h) = "]" THEN SubSeq(h, 2, Len(h) - 1) ELSE h

canonicalHost(s) ==
  LET h == Unbracketed(Lower(s))
  IN IF Len(h) > 1 /\ Last(h) = "." THEN Front(h) ELSE h

\* net.ParseIP on texts too short for eight groups or a dotted quad that is not
\* a hostname anyway: groups of at most four hexadecimal digits with one "::".
IsIP(h) ==
  LET groups == Split(h, ":")
      doubled == Occurrences(h, <<":", ":">>, 0)
  IN /\ Cardinality(doubled) = 1
     /\ \A i \in DOMAIN groups : Len(groups[i]) <= 4 /\ ToSet(groups[i]) \subseteq {"1", "a"}
     /\ groups[1] = <<>> => 0 \in doubled
     /\ Last(groups) = <<>> => Len(h) - 2 \in doubled

validHostname(h) ==
  \/ IsIP(h)
  \/ LET labels == Split(h, ".")
     IN \A i \in DOMAIN labels :
          /\ labels[i] # <<>> /\ labels[i][1] # "-" /\ Last(labels[i]) # "-"
          /\ ToSet(labels[i]) \subseteq {"a", "A", "1", "-"}

\* net.SplitHostPort: the last colon parts a host, in brackets if it has colons
\* of its own, from a port.
SplitHostPort(a) ==
  LET colons == {i \in DOMAIN a : a[i] = ":"}
      i == Max(colons)
      closing == {j \in DOMAIN a : a[j] = "]"}
      bracketed == a[1] = "["
      host == IF bracketed THEN SubSeq(a, 2, Min(closing) - 1) ELSE SubSeq(a, 1, i - 1)
      rest == SubSeq(a, IF bracketed THEN Min(closing) + 1 ELSE 1, Len(a))
  IN IF \/ colons = {}
        \/ bracketed /\ closing = {}
        \/ bracketed /\ Min(closing) + 1 # i
        \/ ~bracketed /\ Cardinality(colons) > 1
        \/ "[" \in ToSet(IF bracketed THEN Tail(a) ELSE a) \/ "]" \in ToSet(rest)
     THEN Refused
     ELSE [ok |-> TRUE, host |-> host, port |-> From(a, i)]

splitAuthority(a) ==
  LET parted == SplitHostPort(a)
      host == canonicalHost(IF parted.ok THEN parted.host ELSE a)
      port == IF parted.ok THEN parted.port ELSE <<>>
  IN IF \/ a = <<>> \/ "#" \in ToSet(a)
        \/ Len(port) > 5 \/ ~(ToSet(port) \subseteq {"1"})
        \/ ~validHostname(host)
     THEN Refused
     ELSE [ok |-> TRUE, host |-> host, port |-> port]

\* Slip: an IPv6 literal is rendered without its brackets.
authorityUnbracketed(host, port) ==
  IF port = <<>> THEN host ELSE host \o <<":">> \o port

authorityOf(host, port) ==
  LET h == IF ":" \in ToSet(host) THEN <<"[">> \o host \o <<"]">> ELSE host
  IN IF port = <<>> THEN h ELSE h \o <<":">> \o port

-----------------------------------------------------------------------------
(* Paths.                                                                    *)

\* url.PathUnescape, where there is no "%" on its own.
Unescape(s) ==
  [i \in DOMAIN s |-> CASE s[i] = "%2e" -> "." [] s[i] = "%2f" -> "/" [] OTHER -> s[i]]

IsDirectory(path) == \E tail \in {<<"/">>, <<"/", ".">>, <<"/", ".", ".">>} : IsSuffix(tail, path)

\* Slip: ".." takes back the decoded segment and leaves the one to be sent.
WalkMatchOnly(segments) ==
  FoldLeft(LAMBDA acc, seg :
             LET d == Unescape(seg)
             IN IF d \in {<<>>, <<".">>} THEN acc
                ELSE IF d = <<".", ".">>
                THEN [acc EXCEPT !.dec = IF @ = <<>> THEN @ ELSE Front(@)]
                ELSE [raw |-> Append(acc.raw, seg), dec |-> Append(acc.dec, d)],
           [raw |-> <<>>, dec |-> <<>>], segments)

\* The loop over the segments: the ones kept, as they came and decoded.
Walk(segments) ==
  FoldLeft(LAMBDA acc, seg :
             LET d == Unescape(seg)
             IN IF d \in {<<>>, <<".">>} THEN acc
                ELSE IF d # <<".", ".">>
                THEN [raw |-> Append(acc.raw, seg), dec |-> Append(acc.dec, d)]
                ELSE IF acc.raw = <<>> THEN acc
                ELSE [raw |-> Front(acc.raw), dec |-> Front(acc.dec)],
           [raw |-> <<>>, dec |-> <<>>], segments)

Join(segments) == Prefixed(segments, "/")

cleanPath(escaped) ==
  LET kept == Walk(Split(escaped, "/"))
      end == IF IsDirectory(escaped) THEN <<"/">> ELSE <<>>
  IN IF "%" \in ToSet(escaped) THEN Refused
     ELSE IF kept.raw = <<>> THEN [ok |-> TRUE, forward |-> <<"/">>, match |-> <<"/">>]
     ELSE [ok |-> TRUE, forward |-> Join(kept.raw) \o end, match |-> Join(kept.dec) \o end]
=============================================================================
