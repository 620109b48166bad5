------------------------------ MODULE Redirect ------------------------------
(***************************************************************************)
(* What transparent mode asks of the kernel (src/redirect.go,              *)
(* src/redirect_linux.go): per address family one chain in the nat table,  *)
(* the hooks in OUTPUT that lead into it, and the iptables commands that   *)
(* build it and take it out.  A rule is named for what it matches: mark,   *)
(* lo and exempt return, http and tls redirect to the guard; "hook" is the *)
(* rule that goes into OUTPUT.                                             *)
(***************************************************************************)
EXTENDS SequencesExt

Families == {"v4", "v6"}
Webs == {"http", "tls"}   \* destination ports 80 and 443

NoTable == [there |-> FALSE, rules |-> <<>>, hooks |-> 0]

Returns(exempt) == <<"mark", "lo">> \o [i \in 1..Cardinality(exempt) |-> "exempt"]

\* Slip: the exemptions are appended after the redirects.
redirectRulesReturnsLast(exempt) ==
  <<"http", "tls">> \o Returns(exempt) \o <<"hook">>

\* In order; the hook goes last, so the chain is never live while half-built.
redirectRules(exempt) == Returns(exempt) \o <<"http", "tls", "hook">>

Creation(exempt) == <<"-N">> \o redirectRules(exempt)
Removal == <<"-D", "-F", "-X">>

\* Which commands the kernel takes; the rest of them fail and change nothing.
Accepts(t, cmd) ==
  CASE cmd = "-N" -> ~t.there
    [] cmd = "-D" -> t.hooks > 0
    [] cmd = "-X" -> t.there /\ t.hooks = 0 /\ t.rules = <<>>
    [] OTHER -> t.there

After(t, cmd) ==
  CASE cmd = "-N" -> [t EXCEPT !.there = TRUE]
    [] cmd = "-D" -> [t EXCEPT !.hooks = @ - 1]
    [] cmd = "-F" -> [t EXCEPT !.rules = <<>>]
    [] cmd = "-X" -> [t EXCEPT !.there = FALSE]
    [] cmd = "hook" -> [t EXCEPT !.hooks = @ + 1]
    [] OTHER -> [t EXCEPT !.rules = Append(@, cmd)]

\* Whether a packet that matches the rules in "names" is redirected: the chain is
\* walked to the first rule that matches.
Redirected(t, names) ==
  LET hits == {i \in DOMAIN t.rules : t.rules[i] \in names}
  IN t.hooks > 0 /\ hits # {} /\ t.rules[Min(hits)] \in Webs
=============================================================================
