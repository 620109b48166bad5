-------------------------- MODULE Lifecycle_proofs --------------------------
(***************************************************************************)
(* Theorems about guards that share a machine: any number of guards, any   *)
(* invocations and hosts, any bounds on failures and kills.                *)
(***************************************************************************)
EXTENDS Lifecycle, Sums_proofs, SequenceTheorems, TLAPS

-----------------------------------------------------------------------------
(* What each guard holds, by its place.                                      *)

Places ==
  {"off", "pull", "ca", "listen", "http", "tls", "anchor", "refresh", "mark", "clear",
   "install", "undo", "close", "publish", "notify", "serving", "start", "build",
   "cleanup", "rebuild", "unredirect", "flushing", "unpublish", "exited", "killed"}
Commands == {"-N", "-D", "-F", "-X", "mark", "lo", "exempt", "http", "tls", "hook"}
Chains == [there : BOOLEAN, rules : Seq(Commands), hooks : Nat]
Holder == Guards \cup {None}

Jobs == [family : Families, cmds : Seq(Commands)]
Cleanups == Seq({"listeners", "trust", "redirect"})
Parents == {"none", "clear", "poll", "ok", "failed"}
Causes == {"", "taken", "fault", "refused", "v6", "typo"}

LifeTyped ==
  /\ opts \in Machines /\ host \in Hosts
  /\ at \in [Guards -> Places] /\ job \in [Guards -> Jobs]
  /\ cleanup \in [Guards -> Cleanups]
  /\ own \in [Guards -> [v6 : BOOLEAN, marked : BOOLEAN]]
  /\ failed \in [Guards -> Causes]
  /\ parent \in [Guards -> Parents]
  /\ port \in Holder /\ web \in [Webs -> [Families -> Holder]]
  /\ table \in [Families -> Chains]
  /\ file \in [ca : Anyone, state : Anyone, anchor : Holder]
  /\ trusted \in Holder /\ faults \in Nat /\ kills \in Nat

\* The cleanups of a guard in transparent mode, before and after its redirect.
Base(g) == IF opts[g].installCA THEN <<"listeners", "trust">> ELSE <<"listeners">>
Whole(g) == IF opts[g].redirect THEN Append(Base(g), "redirect") ELSE Base(g)

Covering == Installing \cup {"mark", "unredirect"}

Stacked(g) ==
  /\ at[g] \in {"http", "tls", "anchor", "refresh", "mark"} \cup Installing
       => opts[g].transparent /\ opts[g].cmd # "exec"
  /\ at[g] \in {"off", "pull", "ca", "listen", "http", "tls", "flushing", "unpublish", "exited"}
       => cleanup[g] = <<>>
  /\ at[g] \in {"anchor", "refresh"} => cleanup[g] = <<"listeners">> /\ opts[g].installCA
  /\ at[g] = "rebuild" => cleanup[g] = <<"listeners">>
  /\ at[g] \in Covering => cleanup[g] = Base(g) /\ opts[g].redirect
  /\ at[g] \in Up \cup {"publish"} =>
       cleanup[g] = IF opts[g].transparent /\ opts[g].cmd # "exec" THEN Whole(g) ELSE <<>>
  /\ at[g] = "cleanup" => cleanup[g] \in {<<>>, <<"listeners">>, Base(g), Whole(g)}

Listening(g) == at[g] = "tls" \/ (at[g] \notin Dead /\ cleanup[g] # <<>>)

\* Where a guard has not taken the proxy port yet, or has closed it.
Portless == Dead \cup {"pull", "ca", "listen", "flushing", "unpublish"}

Bound ==
  /\ \A g \in Guards : Listening(g) =>
       /\ web["http"]["v4"] = g
       /\ at[g] # "tls" => web["tls"]["v4"] = g
  /\ \A g \in Guards, w \in Webs, f \in Families : web[w][f] = g =>
       /\ web[w]["v4"] = g /\ Listening(g)
       /\ w = "tls" => at[g] # "tls"
  /\ port # None => at[port] \notin Portless
  /\ \A g \in Guards : Listening(g) /\ at[g] # "tls" /\ own[g].v6 =>
       web["http"]["v6"] = g /\ web["tls"]["v6"] = g

-----------------------------------------------------------------------------
(* The trust store.                                                          *)

Trusts(g) == at[g] \notin Dead /\ Contains(cleanup[g], "trust")

Trusting ==
  /\ \A g \in Guards :
       /\ Trusts(g) => trusted = g /\ file.anchor = g
       /\ at[g] = "refresh" => file.anchor = g
       /\ at[g] = "rebuild" => file.anchor = None
  /\ NobodyKilled /\ faults = 0 =>
       /\ file.anchor # None => Trusts(file.anchor) \/ at[file.anchor] = "refresh"
       /\ trusted # None => Trusts(trusted) \/ at[trusted] = "rebuild"

-----------------------------------------------------------------------------
(* The kernel.                                                               *)

Quiet(t) == t.hooks = 0 \/ t.rules = <<>>

\* What removing a table comes to, n faults later: nothing is left of it, or with
\* one fault nothing that redirects.
Gone(t, n) == (n = 0 => ~t.there) /\ (n <= 1 => Quiet(t))

\* The commands are what is left of a removal.
Removes(t, cmds, n) ==
  \/ cmds = Removal
  \/ cmds = <<"-F", "-X">> /\ (n = 0 => t.hooks = 0)
  \/ cmds = <<"-X">> /\ (n = 0 => t.hooks = 0 /\ t.rules = <<>>) /\ (n <= 1 => Quiet(t))
  \/ cmds = <<>> /\ Gone(t, n)

\* The commands are what is left of an installation, and the table is what those
\* before them made.
Builds(t, cmds, exempt, n) ==
  LET all == Creation(exempt)
      k == Len(all) - Len(cmds)
  IN /\ k \in Nat /\ \A i \in 1..Len(cmds) : cmds[i] = all[i + k]
     /\ k = 0 => Gone(t, n)
     /\ k > 0 =>
          /\ t.there /\ t.hooks = (IF cmds = <<>> THEN 1 ELSE 0)
          /\ Len(t.rules) = (IF cmds = <<>> THEN k - 2 ELSE k - 1)
          /\ \A i \in 1..Len(t.rules) : t.rules[i] = all[i + 1]

\* The table redirects both ports.
Laid(t) ==
  t.hooks > 0 /\ \A w \in Webs : \E i \in DOMAIN t.rules : t.rules[i] = w

\* Nothing of a table that is not there; its first rule lets marked packets go.
Proper(t) ==
  /\ ~t.there => t.rules = <<>> /\ t.hooks = 0
  /\ t.rules # <<>> => t.rules[1] = "mark"

Holds6(g) == own[g].v6 \/ Gone(table["v6"], faults)
Undoing(g) == Removes(table[job[g].family], job[g].cmds, faults)
Redirects(g) ==
  \/ at[g] \in {"install", "undo", "close", "unredirect"}
  \/ at[g] \in Up \cup {"publish", "cleanup"} /\ Contains(cleanup[g], "redirect")

Kernel(g) ==
  /\ at[g] \in {"clear", "unredirect"} =>
       Undoing(g) /\ (job[g].family = "v6" => Gone(table["v4"], faults))
  /\ at[g] = "install" =>
       Builds(table[job[g].family], job[g].cmds,
              IF job[g].family = "v4" THEN opts[g].exempt ELSE {}, faults)
  /\ at[g] \in {"undo", "close"} => Undoing(g)
  /\ at[g] \in {"install", "undo", "close"} =>
       IF job[g].family = "v4" THEN Gone(table["v6"], faults)
       ELSE Laid(table["v4"]) /\ own[g].v6 /\ at[g] # "close"
  /\ at[g] \in Up \cup {"publish"} /\ Redirects(g) =>
       Laid(table["v4"]) /\ (host.routable6 => Laid(table["v6"]))
  /\ at[g] \in Up \cup {"publish", "cleanup", "unredirect"} /\ Redirects(g) => Holds6(g)
  /\ at[g] = "clear" \/ Redirects(g) => own[g].marked

KernelInv ==
  /\ \A f \in Families : Proper(table[f])
  /\ ~host.ip6tables => table["v6"] = NoTable
  /\ \A g \in Guards : Kernel(g)
  /\ NobodyKilled /\ (\A g \in Guards : ~Redirects(g)) =>
       Gone(table["v4"], faults) /\ Gone(table["v6"], faults)

-----------------------------------------------------------------------------
(* Detach.                                                                   *)

Published(g) == at[g] \notin Rising \cup {"off"}
\* Where exec can be: it is never transparent, and publishes nothing.
ExecPlaces ==
  {"off", "pull", "ca", "listen", "start", "build", "cleanup", "rebuild", "unredirect",
   "flushing", "exited", "killed"}

\* The state file names a serving guard that is up; a parent polls for a new one.
StateInv ==
  /\ \A g \in Guards : opts[g].cmd = "exec" => at[g] \in ExecPlaces
  /\ file.state \in Guards => opts[file.state].cmd # "exec" /\ Published(file.state)
  /\ \A g \in Guards : parent[g] \in {"poll", "ok", "failed"} => file.state # Earlier
  /\ \A g \in Guards :
       parent[g] = "ok" /\ (\A h \in Guards \ {g} : opts[h].cmd = "exec") => Published(g)

-----------------------------------------------------------------------------
(* Commands and cleanups are short sequences.                                *)

\* All of a sequence but its last element, where that is known.
LEMMA FrontIs ==
  ASSUME NEW S, NEW s \in Seq(S), NEW t \in Seq(S), Len(s) = Len(t) + 1,
         \A i \in 1..Len(t) : s[i] = t[i]
  PROVE  Front(s) = t
<1>1. PICK n : n = Len(t) /\ n \in Nat /\ Len(s) - 1 = n
  OBVIOUS
<1>2. \A i \in 1..n : s[i] \in S /\ s[i] = t[i]
  BY <1>1
<1>3. /\ SubSeq(s, 1, n) \in Seq(S)
      /\ Len(SubSeq(s, 1, n)) = IF 1 <= n THEN n - 1 + 1 ELSE 0
      /\ \A i \in 1..n-1+1 : SubSeq(s, 1, n)[i] = s[1+i-1]
  BY <1>1, <1>2, SubSeqProperties, SMT
<1>4. Len(SubSeq(s, 1, n)) = n /\ \A i \in 1..n : SubSeq(s, 1, n)[i] = s[i]
  BY <1>1, <1>3
<1>5. SubSeq(s, 1, n) = t
  BY <1>1, <1>2, <1>3, <1>4, SeqEqual
<1> QED
  BY <1>1, <1>5 DEF Front

\* What stop has left to do after each of its cleanups.
LEMMA Popped ==
  /\ Last(<<"listeners">>) = "listeners" /\ Front(<<"listeners">>) = <<>>
  /\ Last(<<"listeners", "trust">>) = "trust"
  /\ Front(<<"listeners", "trust">>) = <<"listeners">>
  /\ Last(<<"listeners", "redirect">>) = "redirect"
  /\ Front(<<"listeners", "redirect">>) = <<"listeners">>
  /\ Last(<<"listeners", "trust", "redirect">>) = "redirect"
  /\ Front(<<"listeners", "trust", "redirect">>) = <<"listeners", "trust">>
<1>1. ASSUME NEW s \in Cleanups, NEW t \in Cleanups, Len(s) = Len(t) + 1,
             \A i \in 1..Len(t) : s[i] = t[i]
      PROVE  Front(s) = t
  BY <1>1, FrontIs DEF Cleanups
<1>2. /\ <<>> \in Cleanups /\ <<"listeners">> \in Cleanups
      /\ <<"listeners", "trust">> \in Cleanups /\ <<"listeners", "redirect">> \in Cleanups
      /\ <<"listeners", "trust", "redirect">> \in Cleanups
  BY DEF Cleanups
<1>3. Front(<<"listeners">>) = <<>>
  <2>1. Len(<<"listeners">>) = Len(<<>>) + 1 /\ \A i \in 1..Len(<<>>) : <<"listeners">>[i] = <<>>[i]
    OBVIOUS
  <2> QED
    BY <1>1, <1>2, <2>1, Zenon
<1>4. Front(<<"listeners", "trust">>) = <<"listeners">>
  <2>1. Len(<<"listeners", "trust">>) = Len(<<"listeners">>) + 1
    OBVIOUS
  <2>2. \A i \in 1..Len(<<"listeners">>) : <<"listeners", "trust">>[i] = <<"listeners">>[i]
    OBVIOUS
  <2> QED
    BY <1>1, <1>2, <2>1, <2>2, Zenon
<1>5. Front(<<"listeners", "redirect">>) = <<"listeners">>
  <2>1. Len(<<"listeners", "redirect">>) = Len(<<"listeners">>) + 1
    OBVIOUS
  <2>2. \A i \in 1..Len(<<"listeners">>) : <<"listeners", "redirect">>[i] = <<"listeners">>[i]
    OBVIOUS
  <2> QED
    BY <1>1, <1>2, <2>1, <2>2, Zenon
<1>6. Front(<<"listeners", "trust", "redirect">>) = <<"listeners", "trust">>
  <2>1. Len(<<"listeners", "trust", "redirect">>) = Len(<<"listeners", "trust">>) + 1
    OBVIOUS
  <2>2. \A i \in 1..Len(<<"listeners", "trust">>) :
          <<"listeners", "trust", "redirect">>[i] = <<"listeners", "trust">>[i]
    OBVIOUS
  <2> QED
    BY <1>1, <1>2, <2>1, <2>2, Zenon
<1>7. /\ Last(<<"listeners">>) = "listeners" /\ Last(<<"listeners", "trust">>) = "trust"
      /\ Last(<<"listeners", "redirect">>) = "redirect"
      /\ Last(<<"listeners", "trust", "redirect">>) = "redirect"
  BY DEF Last
<1> QED
  BY <1>3, <1>4, <1>5, <1>6, <1>7

\* What is pushed on the cleanups on the way up.
LEMMA Pushed ==
  /\ Append(<<"listeners">>, "trust") = <<"listeners", "trust">>
  /\ Append(<<"listeners">>, "redirect") = <<"listeners", "redirect">>
  /\ Append(<<"listeners", "trust">>, "redirect") = <<"listeners", "trust", "redirect">>
<1>1. ASSUME NEW s \in Cleanups, NEW t \in Cleanups, NEW x \in {"listeners", "trust", "redirect"},
             Len(t) = Len(s) + 1, t[Len(t)] = x, \A i \in 1..Len(s) : t[i] = s[i]
      PROVE  Append(s, x) = t
  <2>1. PICK n \in Nat : n = Len(s) /\ Len(t) = n + 1
    BY <1>1 DEF Cleanups
  <2>2. PICK u : u = Append(s, x)
    OBVIOUS
  <2>3. u \in Cleanups /\ Len(u) = n + 1 /\ u[n + 1] = x /\ \A i \in 1..n : u[i] = s[i]
    BY <1>1, <2>1, <2>2 DEF Cleanups
  <2>4. \A i \in 1..n+1 : u[i] = t[i]
    BY <1>1, <2>1, <2>3
  <2> QED
    BY <1>1, <2>1, <2>2, <2>3, <2>4, SeqEqual DEF Cleanups
<1>2. /\ <<"listeners">> \in Cleanups
      /\ <<"listeners", "trust">> \in Cleanups /\ <<"listeners", "redirect">> \in Cleanups
      /\ <<"listeners", "trust", "redirect">> \in Cleanups
  BY DEF Cleanups
<1>3. /\ Len(<<"listeners">>) = 1 /\ Len(<<"listeners", "trust">>) = 2
      /\ Len(<<"listeners", "redirect">>) = 2 /\ Len(<<"listeners", "trust", "redirect">>) = 3
  OBVIOUS
<1>4. \A i \in 1..1 : /\ <<"listeners", "trust">>[i] = <<"listeners">>[i]
                      /\ <<"listeners", "redirect">>[i] = <<"listeners">>[i]
  OBVIOUS
<1>5. \A i \in 1..2 : <<"listeners", "trust", "redirect">>[i] = <<"listeners", "trust">>[i]
  OBVIOUS
<1>6. /\ <<"listeners", "trust">>[2] = "trust" /\ <<"listeners", "redirect">>[2] = "redirect"
      /\ <<"listeners", "trust", "redirect">>[3] = "redirect"
  OBVIOUS
<1>7. Append(<<"listeners">>, "trust") = <<"listeners", "trust">>
  <2>1. Len(<<"listeners", "trust">>) = Len(<<"listeners">>) + 1
    BY <1>3
  <2> QED
    BY <1>1, <1>2, <1>3, <1>4, <1>6, <2>1, Zenon
<1>8. Append(<<"listeners">>, "redirect") = <<"listeners", "redirect">>
  <2>1. Len(<<"listeners", "redirect">>) = Len(<<"listeners">>) + 1
    BY <1>3
  <2> QED
    BY <1>1, <1>2, <1>3, <1>4, <1>6, <2>1, Zenon
<1>9. Append(<<"listeners", "trust">>, "redirect") = <<"listeners", "trust", "redirect">>
  <2>1. Len(<<"listeners", "trust", "redirect">>) = Len(<<"listeners", "trust">>) + 1
    BY <1>3
  <2> QED
    BY <1>1, <1>2, <1>3, <1>5, <1>6, <2>1, Zenon
<1> QED
  BY <1>7, <1>8, <1>9

\* What the cleanups of a guard are, and what is in them.
LEMMA Contents ==
  /\ ~Contains(<<>>, "trust") /\ ~Contains(<<>>, "redirect")
  /\ <<"listeners">> # <<>>
  /\ ~Contains(<<"listeners">>, "trust") /\ ~Contains(<<"listeners">>, "redirect")
  /\ <<"listeners", "trust">> # <<>>
  /\ Contains(<<"listeners", "trust">>, "trust")
  /\ ~Contains(<<"listeners", "trust">>, "redirect")
  /\ <<"listeners", "redirect">> # <<>>
  /\ ~Contains(<<"listeners", "redirect">>, "trust")
  /\ Contains(<<"listeners", "redirect">>, "redirect")
  /\ <<"listeners", "trust", "redirect">> # <<>>
  /\ Contains(<<"listeners", "trust", "redirect">>, "trust")
  /\ Contains(<<"listeners", "trust", "redirect">>, "redirect")
<1>1. /\ Len(<<>>) = 0 /\ Len(<<"listeners">>) = 1 /\ Len(<<"listeners", "trust">>) = 2
      /\ Len(<<"listeners", "redirect">>) = 2 /\ Len(<<"listeners", "trust", "redirect">>) = 3
  OBVIOUS
<1>2. /\ <<"listeners">>[1] = "listeners"
      /\ <<"listeners", "trust">>[1] = "listeners" /\ <<"listeners", "trust">>[2] = "trust"
      /\ <<"listeners", "redirect">>[1] = "listeners"
      /\ <<"listeners", "redirect">>[2] = "redirect"
      /\ <<"listeners", "trust", "redirect">>[2] = "trust"
      /\ <<"listeners", "trust", "redirect">>[3] = "redirect"
  OBVIOUS
<1> QED
  BY <1>1, <1>2 DEF Contains

\* So has the rest of a stack of cleanups.
LEMMA FrontTyped ==
  ASSUME NEW s \in Cleanups, s # <<>>
  PROVE  Front(s) \in Cleanups
<1> DEFINE S == {"listeners", "trust", "redirect"}
<1>1. PICK n : n = Len(s) /\ n \in Nat /\ n > 0 /\ \A i \in 1..n : s[i] \in S
  BY DEF Cleanups
<1> HIDE DEF S
<1>2. SubSeq(s, 1, n - 1) \in Seq(S)
  BY <1>1, SubSeqProperties, SMT
<1> QED
  BY <1>1, <1>2 DEF Front, Cleanups, S

\* The commands that lay a chain: it is made first and hooked last, and what they
\* append begins with the return of marked packets and ends with the redirects.
LEMMA CreationIs ==
  ASSUME NEW e \in SUBSET {"cidr", "typo"}
  PROVE  LET all == Creation(e)
             n == Len(all)
         IN /\ all \in Seq(Commands) /\ n >= 6
            /\ all[1] = "-N" /\ all[2] = "mark" /\ all[n] = "hook"
            /\ all[n - 2] = "http" /\ all[n - 1] = "tls"
            /\ \A i \in 2..n-1 : all[i] \in {"mark", "lo", "exempt", "http", "tls"}
<1>1. PICK m : m = Cardinality(e) /\ m \in Nat
  <2>1. IsFiniteSet({"cidr"} \cup {"typo"})
    BY FS_Singleton, FS_AddElement
  <2>2. e \subseteq {"cidr"} \cup {"typo"}
    OBVIOUS
  <2> QED
    BY <2>1, <2>2, FS_Subset, FS_CardinalityType
<1> DEFINE x == [i \in 1..m |-> "exempt"]
<1>2. x \in Seq(Commands) /\ Len(x) = m /\ \A i \in 1..m : x[i] = "exempt"
  BY <1>1 DEF Commands
<1>3. Creation(e) = <<"-N">> \o ((<<"mark", "lo">> \o x) \o <<"http", "tls", "hook">>)
  BY <1>1 DEF Creation, redirectRules, Returns
<1> HIDE DEF x
<1>4. PICK y : y = <<"mark", "lo">> \o x
  OBVIOUS
<1>5. /\ y \in Seq(Commands) /\ Len(y) = m + 2 /\ y[1] = "mark" /\ y[2] = "lo"
      /\ \A i \in 3..m+2 : y[i] = "exempt"
  <2>1. <<"mark", "lo">> \in Seq(Commands) /\ Len(<<"mark", "lo">>) = 2
    BY DEF Commands
  <2>2. /\ y \in Seq(Commands) /\ Len(y) = 2 + m
        /\ \A i \in 1..2+m : y[i] = IF i <= 2 THEN <<"mark", "lo">>[i] ELSE x[i - 2]
    BY <1>2, <1>4, <2>1, ConcatProperties
  <2>3. <<"mark", "lo">>[1] = "mark" /\ <<"mark", "lo">>[2] = "lo"
    OBVIOUS
  <2>4. ASSUME NEW i \in 3..m+2 PROVE y[i] = "exempt"
    BY <1>1, <1>2, <2>2
  <2> QED
    BY <1>1, <2>2, <2>3, <2>4
<1>6. PICK z : z = y \o <<"http", "tls", "hook">>
  OBVIOUS
<1>7. /\ z \in Seq(Commands) /\ Len(z) = m + 5 /\ \A i \in 1..m+2 : z[i] = y[i]
      /\ z[m + 3] = "http" /\ z[m + 4] = "tls" /\ z[m + 5] = "hook"
  <2>1. PICK t : t = <<"http", "tls", "hook">>
    OBVIOUS
  <2>2. /\ t \in Seq(Commands) /\ Len(t) = 3
        /\ t[1] = "http" /\ t[2] = "tls" /\ t[3] = "hook"
    BY <2>1 DEF Commands
  <2>3. z = y \o t
    BY <1>6, <2>1
  <2>4. /\ z \in Seq(Commands) /\ Len(z) = m + 2 + 3
        /\ \A i \in 1..m+2+3 : z[i] = IF i <= m + 2 THEN y[i] ELSE t[i - (m + 2)]
    <3>1. y \in Seq(Commands) /\ Len(y) = m + 2
      BY <1>5
    <3>2. t \in Seq(Commands)
      BY <2>2
    <3>3. /\ z \in Seq(Commands) /\ Len(z) = Len(y) + Len(t)
          /\ \A i \in 1..Len(y)+Len(t) :
               z[i] = IF i <= Len(y) THEN y[i] ELSE t[i - Len(y)]
      BY <2>3, <3>1, <3>2, ConcatProperties, Zenon
    <3>4. Len(t) = 3
      BY <2>2
    <3> QED
      BY <3>1, <3>3, <3>4
  <2>5. z[m + 3] = t[1] /\ z[m + 4] = t[2] /\ z[m + 5] = t[3]
    BY <1>1, <2>4
  <2>6. Len(z) = m + 5 /\ \A i \in 1..m+2 : z[i] = y[i]
    BY <1>1, <2>4
  <2> QED
    BY <2>2, <2>4, <2>5, <2>6
<1>8. PICK c : c = <<"-N">> \o z
  OBVIOUS
<1>9. /\ c \in Seq(Commands) /\ Len(c) = m + 6 /\ c[1] = "-N"
      /\ \A i \in 1..m+5 : c[i + 1] = z[i]
  BY <1>1, <1>7, <1>8 DEF Commands
<1>10. c[2] = z[1] /\ c[m + 6] = z[m + 5] /\ c[m + 5] = z[m + 4] /\ c[m + 4] = z[m + 3]
  BY <1>1, <1>9
<1>11. ASSUME NEW i \in 2..m+5
       PROVE  c[i] \in {"mark", "lo", "exempt", "http", "tls"}
  <2>1. i - 1 \in 1..m+4 /\ c[(i - 1) + 1] = z[i - 1] /\ (i - 1) + 1 = i
    BY <1>1, <1>9
  <2>2. i - 1 = 1 \/ i - 1 = 2 \/ i - 1 \in 3..m+2 \/ i - 1 = m + 3 \/ i - 1 = m + 4
    BY <1>1, <2>1
  <2>3. i - 1 \in 3..m+2 => z[i - 1] = "exempt"
    BY <1>1, <1>5, <1>7
  <2>4. z[1] = "mark" /\ z[2] = "lo"
    BY <1>1, <1>5, <1>7
  <2> QED
    BY <1>7, <2>1, <2>2, <2>3, <2>4
<1>12. Creation(e) = c
  BY <1>3, <1>4, <1>6, <1>8
<1>13. c[2] = "mark" /\ c[m + 4] = "http" /\ c[m + 5] = "tls" /\ c[m + 6] = "hook"
  BY <1>1, <1>5, <1>7, <1>10
<1>14. /\ Len(c) >= 6 /\ Len(c) - 2 = m + 4 /\ Len(c) - 1 = m + 5 /\ Len(c) = m + 6
       /\ 2..Len(c)-1 = 2..m+5
  BY <1>1, <1>9
<1> QED
  BY <1>9, <1>11, <1>12, <1>13, <1>14

\* A job that the steps give is a job.
LEMMA JobsTyped ==
  /\ Removal \in Seq(Commands) /\ <<>> \in Seq(Commands)
  /\ \A s \in Seq(Commands) : s # <<>> => Head(s) \in Commands /\ Tail(s) \in Seq(Commands)
BY DEF Removal, Commands

\* What an invocation says, and what its guard knows of itself, have their types.
LEMMA OptsTyped ==
  ASSUME LifeTyped, NEW g \in Guards
  PROVE  /\ opts[g] \in Invocations /\ Creation(opts[g].exempt) \in Seq(Commands)
         /\ Creation({}) \in Seq(Commands)
<1>1. opts[g] \in Invocations
  BY LifecycleAssumption DEF LifeTyped
<1>2. opts[g].exempt \in SUBSET {"cidr", "typo"} /\ {} \in SUBSET {"cidr", "typo"}
  BY <1>1 DEF Invocations
<1> QED
  BY <1>1, <1>2, CreationIs

\* A place in the code and the job that goes with it have their types.
LEMMA JobGiven ==
  ASSUME job \in [Guards -> Jobs], NEW g \in Guards, NEW f \in Families,
         NEW c \in Seq(Commands), Job(g, f, c)
  PROVE  /\ job' \in [Guards -> Jobs] /\ \A h \in Guards \ {g} : job'[h] = job[h]
         /\ job'[g].family = f /\ job'[g].cmds = c
<1>1. [family |-> f, cmds |-> c] \in Jobs
  BY DEF Jobs
<1>2. job' = [job EXCEPT ![g] = [family |-> f, cmds |-> c]]
  BY DEF Job
<1> QED
  BY <1>1, <1>2

\* A guard that goes somewhere is in one of its places, and no other guard moves.
LEMMA PlaceGiven ==
  ASSUME at \in [Guards -> Places], NEW g \in Guards, NEW p \in Places, Go(g, p)
  PROVE  at' \in [Guards -> Places] /\ \A h \in Guards \ {g} : at'[h] = at[h]
BY DEF Go

\* What stops a guard has its type.
LEMMA CauseGiven ==
  ASSUME failed \in [Guards -> Causes], NEW g \in Guards, NEW c \in Causes,
         failed' = [failed EXCEPT ![g] = c]
  PROVE  failed' \in [Guards -> Causes] /\ \A h \in Guards \ {g} : failed'[h] = failed[h]
OBVIOUS

\* A stack of cleanups that the steps give has its type.
LEMMA StackGiven ==
  ASSUME cleanup \in [Guards -> Cleanups], NEW g \in Guards, NEW c \in Cleanups,
         cleanup' = [cleanup EXCEPT ![g] = c]
  PROVE  /\ cleanup' \in [Guards -> Cleanups] /\ cleanup'[g] = c
         /\ \A h \in Guards \ {g} : cleanup'[h] = cleanup[h]
OBVIOUS

\* The cleanups of a guard are a sequence of cleanups.
LEMMA StackTyped ==
  /\ <<>> \in Cleanups /\ <<"listeners">> \in Cleanups
  /\ \A s \in Cleanups : Append(s, "trust") \in Cleanups /\ Append(s, "redirect") \in Cleanups
BY DEF Cleanups

\* What an iptables command leaves is a chain.
LEMMA AfterTyped ==
  ASSUME NEW t \in Chains, NEW cmd \in Commands, Accepts(t, cmd)
  PROVE  After(t, cmd) \in Chains
<1>1. cmd = "-D" => t.hooks - 1 \in Nat
  BY DEF Accepts, Chains
<1>2. Append(t.rules, cmd) \in Seq(Commands) /\ <<>> \in Seq(Commands)
  BY DEF Chains
<1>3. t = [there |-> t.there, rules |-> t.rules, hooks |-> t.hooks] /\ t.hooks + 1 \in Nat
  BY DEF Chains
<1>4. CASE cmd \in {"-N", "-X", "-F"}
  BY <1>2, <1>4 DEF After, Chains
<1>5. CASE cmd \in {"-D", "hook"}
  BY <1>1, <1>3, <1>5 DEF After, Chains
<1>6. CASE cmd \notin {"-N", "-X", "-F", "-D", "hook"}
  <2>1. After(t, cmd) = [t EXCEPT !.rules = Append(@, cmd)]
    BY <1>6 DEF After
  <2> QED
    BY <1>2, <2>1 DEF Chains
<1> QED
  BY <1>4, <1>5, <1>6

-----------------------------------------------------------------------------
(* A step changes one guard, and what it changes keeps its type.             *)

Others(g) ==
  \A h \in Guards \ {g} :
    /\ at'[h] = at[h] /\ job'[h] = job[h] /\ cleanup'[h] = cleanup[h]
    /\ own'[h] = own[h] /\ failed'[h] = failed[h] /\ parent'[h] = parent[h]

Moves(g) ==
  LifeTyped' /\ Others(g) /\ faults <= faults' /\ UNCHANGED <<opts, host>>

\* No step moves another guard: not its place, its cleanups or what it knows.
LEMMA StepMoves ==
  ASSUME LifeTyped, NEW g \in Guards, Rise(g) \/ Fall(g) \/ Outside(g)
  PROVE  Moves(g)

<1>Launch. ASSUME Launch(g) PROVE Moves(g)
  <2>at. at' \in [Guards -> Places] /\ \A h \in Guards \ {g} : at'[h] = at[h]
    BY <1>Launch DEF LifeTyped, Launch, Go, Places, Dead
  <2>parent. parent' \in [Guards -> Parents] /\ \A h \in Guards \ {g} : parent'[h] = parent[h]
    BY <1>Launch DEF LifeTyped, Launch, Go, Parents
  <2> QED
    BY <1>Launch, <2>at, <2>parent DEF Moves, Others, LifeTyped, Launch, machine,
       process
<1>Pull. ASSUME Pull(g) PROVE Moves(g)
  <2>at. at' \in [Guards -> Places] /\ \A h \in Guards \ {g} : at'[h] = at[h]
    BY <1>Pull DEF LifeTyped, Pull, Go, Places, Dead
  <2> QED
    BY <1>Pull, <2>at DEF Moves, Others, LifeTyped, Pull, machine, process
<1>WriteCA. ASSUME WriteCA(g) PROVE Moves(g)
  <2>at. at' \in [Guards -> Places] /\ \A h \in Guards \ {g} : at'[h] = at[h]
    BY <1>WriteCA DEF LifeTyped, WriteCA, Go, Fault, Works, Places, Dead
  <2>file. file' \in [ca : Anyone, state : Anyone, anchor : Holder]
    BY <1>WriteCA DEF LifeTyped, WriteCA, Go, Fault, Works, Anyone, Holder
  <2>faults. faults' \in Nat /\ faults <= faults'
    BY <1>WriteCA DEF LifeTyped, WriteCA, Go, Fault, Works
  <2> QED
    BY <1>WriteCA, <2>at, <2>file, <2>faults DEF Moves, Others, LifeTyped, WriteCA,
       machine, process
<1>Listen. ASSUME Listen(g) PROVE Moves(g)
  <2>at. at' \in [Guards -> Places] /\ \A h \in Guards \ {g} : at'[h] = at[h]
    BY <1>Listen DEF LifeTyped, Listen, Go, Places, Dead
  <2>port. port' \in Holder
    BY <1>Listen DEF LifeTyped, Listen, Go, Holder
  <2>file. file' \in [ca : Anyone, state : Anyone, anchor : Holder]
    BY <1>Listen DEF LifeTyped, Listen, Go, Anyone, Holder
  <2> QED
    BY <1>Listen, <2>at, <2>port, <2>file DEF Moves, Others, LifeTyped, Listen,
       machine, process
<1>BindHTTP. ASSUME BindHTTP(g) PROVE Moves(g)
  <2>at. at' \in [Guards -> Places] /\ \A h \in Guards \ {g} : at'[h] = at[h]
    <3>1. \E p \in {"tls", "cleanup"} : Go(g, p)
      BY <1>BindHTTP DEF BindHTTP, Fail
    <3> QED
      BY <3>1, PlaceGiven DEF LifeTyped, Places
  <2>failed. failed' \in [Guards -> Causes] /\ \A h \in Guards \ {g} : failed'[h] = failed[h]
    BY <1>BindHTTP DEF LifeTyped, BindHTTP, Go, Fail, BothLoopbacks, Causes
  <2>web. web' \in [Webs -> [Families -> Holder]]
    BY <1>BindHTTP DEF LifeTyped, BindHTTP, Go, Fail, BothLoopbacks, Holder, Webs,
       Families
  <2> QED
    BY <1>BindHTTP, <2>at, <2>failed, <2>web DEF Moves, Others, LifeTyped, BindHTTP,
       machine, process
<1>BindTLS. ASSUME BindTLS(g) PROVE Moves(g)
  <2>at. at' \in [Guards -> Places] /\ \A h \in Guards \ {g} : at'[h] = at[h]
    <3>1. \E p \in {"anchor", "mark", "publish", "cleanup"} : Go(g, p)
      BY <1>BindTLS DEF BindTLS, Fail, AfterTrust
    <3> QED
      BY <3>1, PlaceGiven DEF LifeTyped, Places
  <2>failed. failed' \in [Guards -> Causes] /\ \A h \in Guards \ {g} : failed'[h] = failed[h]
    BY <1>BindTLS DEF LifeTyped, BindTLS, Go, Fail, BothLoopbacks, CloseWeb,
       AfterTrust, Causes
  <2>web. web' \in [Webs -> [Families -> Holder]]
    BY <1>BindTLS DEF LifeTyped, BindTLS, Go, Fail, BothLoopbacks, CloseWeb,
       AfterTrust, Holder, Webs, Families
  <2>own. own' \in [Guards -> [v6 : BOOLEAN, marked : BOOLEAN]] /\ \A h \in Guards \ {g} : own'[h] = own[h]
    <3>1. own' = own \/ \E b \in BOOLEAN : own' = [own EXCEPT ![g].v6 = b]
      BY <1>BindTLS DEF BindTLS
    <3> QED
      BY <3>1 DEF LifeTyped
  <2>cleanup. cleanup' \in [Guards -> Cleanups] /\ \A h \in Guards \ {g} : cleanup'[h] = cleanup[h]
    <3>1. cleanup' = cleanup \/ cleanup' = [cleanup EXCEPT ![g] = <<"listeners">>]
      BY <1>BindTLS DEF BindTLS
    <3>2. cleanup \in [Guards -> Cleanups] /\ cleanup[g] \in Cleanups
      BY DEF LifeTyped
    <3> QED
      BY <3>1, <3>2, StackGiven, StackTyped
  <2> QED
    BY <1>BindTLS, <2>at, <2>failed, <2>web, <2>own, <2>cleanup DEF Moves, Others,
       LifeTyped, BindTLS, machine, process
<1>WriteAnchor. ASSUME WriteAnchor(g) PROVE Moves(g)
  <2>at. at' \in [Guards -> Places] /\ \A h \in Guards \ {g} : at'[h] = at[h]
    BY <1>WriteAnchor DEF LifeTyped, WriteAnchor, Go, Fail, Fault, Works, Places, Dead
  <2>file. file' \in [ca : Anyone, state : Anyone, anchor : Holder]
    BY <1>WriteAnchor DEF LifeTyped, WriteAnchor, Go, Fail, Fault, Works, Anyone, Holder
  <2>failed. failed' \in [Guards -> Causes] /\ \A h \in Guards \ {g} : failed'[h] = failed[h]
    BY <1>WriteAnchor DEF LifeTyped, WriteAnchor, Go, Fail, Fault, Works, Causes
  <2>faults. faults' \in Nat /\ faults <= faults'
    BY <1>WriteAnchor DEF LifeTyped, WriteAnchor, Go, Fail, Fault, Works
  <2> QED
    BY <1>WriteAnchor, <2>at, <2>file, <2>failed, <2>faults DEF Moves, Others,
       LifeTyped, WriteAnchor, machine, process
<1>Refresh. ASSUME Refresh(g) PROVE Moves(g)
  <2>at. at' \in [Guards -> Places] /\ \A h \in Guards \ {g} : at'[h] = at[h]
    BY <1>Refresh DEF LifeTyped, Refresh, Go, Fail, Fault, Works, AfterTrust, Places,
       Dead
  <2>file. file' \in [ca : Anyone, state : Anyone, anchor : Holder]
    BY <1>Refresh DEF LifeTyped, Refresh, Go, Fail, Fault, Works, AfterTrust, Anyone,
       Holder
  <2>failed. failed' \in [Guards -> Causes] /\ \A h \in Guards \ {g} : failed'[h] = failed[h]
    BY <1>Refresh DEF LifeTyped, Refresh, Go, Fail, Fault, Works, AfterTrust, Causes
  <2>faults. faults' \in Nat /\ faults <= faults'
    BY <1>Refresh DEF LifeTyped, Refresh, Go, Fail, Fault, Works, AfterTrust
  <2>cleanup. cleanup' \in [Guards -> Cleanups] /\ \A h \in Guards \ {g} : cleanup'[h] = cleanup[h]
    <3>1. cleanup' = cleanup \/ cleanup' = [cleanup EXCEPT ![g] = Append(@, "trust")]
      BY <1>Refresh DEF Refresh
    <3>2. cleanup \in [Guards -> Cleanups] /\ cleanup[g] \in Cleanups
      BY DEF LifeTyped
    <3> QED
      BY <3>1, <3>2, StackGiven, StackTyped
  <2>trusted. trusted' \in Holder
    BY <1>Refresh DEF LifeTyped, Refresh, Go, Fail, Fault, Works, AfterTrust, Holder
  <2> QED
    BY <1>Refresh, <2>at, <2>file, <2>failed, <2>faults, <2>cleanup, <2>trusted
       DEF Moves, Others, LifeTyped, Refresh, machine, process
<1>Mark. ASSUME Mark(g) PROVE Moves(g)
  <2>at. at' \in [Guards -> Places] /\ \A h \in Guards \ {g} : at'[h] = at[h]
    BY <1>Mark DEF LifeTyped, Mark, Go, Job, Places, Dead
  <2>own. own' \in [Guards -> [v6 : BOOLEAN, marked : BOOLEAN]] /\ \A h \in Guards \ {g} : own'[h] = own[h]
    BY <1>Mark DEF LifeTyped, Mark, Go, Job
  <2>job. job' \in [Guards -> Jobs] /\ \A h \in Guards \ {g} : job'[h] = job[h]
    <3>1. Job(g, "v4", Removal)
      BY <1>Mark DEF Mark
    <3> QED
      BY <3>1, JobGiven, JobsTyped, OptsTyped DEF LifeTyped, Families
  <2> QED
    BY <1>Mark, <2>at, <2>own, <2>job DEF Moves, Others, LifeTyped, Mark, machine,
       process
<1>Iptables. ASSUME Iptables(g) PROVE Moves(g)
  <2>at. at' \in [Guards -> Places] /\ \A h \in Guards \ {g} : at'[h] = at[h]
    BY <1>Iptables DEF LifeTyped, Iptables, Go, Job, Fault, Works, Places, Dead
  <2>failed. failed' \in [Guards -> Causes] /\ \A h \in Guards \ {g} : failed'[h] = failed[h]
    BY <1>Iptables DEF LifeTyped, Iptables, Go, Job, Fault, Works, Causes
  <2>job. job' \in [Guards -> Jobs] /\ \A h \in Guards \ {g} : job'[h] = job[h]
    <3>1. \/ job' = job
          \/ Job(g, job[g].family, Tail(job[g].cmds)) \/ Job(g, job[g].family, <<>>)
          \/ Job(g, job[g].family, Removal)
      BY <1>Iptables DEF Iptables
    <3>2. job[g].family \in Families /\ Tail(job[g].cmds) \in Seq(Commands)
      BY <1>Iptables, JobsTyped DEF Iptables, LifeTyped, Jobs
    <3> QED
      BY <3>1, <3>2, JobGiven, JobsTyped DEF LifeTyped
  <2>table. table' \in [Families -> Chains]
    <3>1. PICK f, cmd : f = job[g].family /\ cmd = Head(job[g].cmds)
      OBVIOUS
    <3>2. f \in Families /\ cmd \in Commands
      BY <1>Iptables, <3>1, JobsTyped DEF Iptables, LifeTyped, Jobs
    <3>3. \/ Accepts(table[f], cmd) /\ table' = [table EXCEPT ![f] = After(@, cmd)]
          \/ table' = table
      BY <1>Iptables, <3>1 DEF Iptables
    <3> QED
      BY <3>2, <3>3, AfterTyped DEF LifeTyped
  <2>faults. faults' \in Nat /\ faults <= faults'
    BY <1>Iptables DEF LifeTyped, Iptables, Go, Job, Fault, Works
  <2> QED
    BY <1>Iptables, <2>at, <2>failed, <2>job, <2>table, <2>faults DEF Moves, Others,
       LifeTyped, Iptables, machine, process
<1>Proceed. ASSUME Proceed(g) PROVE Moves(g)
  <2>at. at' \in [Guards -> Places] /\ \A h \in Guards \ {g} : at'[h] = at[h]
    <3>1. at' = at \/ \E p \in {"cleanup", "install", "close", "publish"} : Go(g, p)
      BY <1>Proceed DEF Proceed, NoV6, Covered, Fail
    <3> QED
      BY <3>1, PlaceGiven DEF LifeTyped, Places
  <2>failed. failed' \in [Guards -> Causes] /\ \A h \in Guards \ {g} : failed'[h] = failed[h]
    <3>1. \/ failed' = failed
          \/ \E c \in {"typo", "v6", "", failed[g]} : failed' = [failed EXCEPT ![g] = c]
      BY <1>Proceed DEF Proceed, NoV6, Covered, Fail
    <3>2. failed \in [Guards -> Causes] /\ {"typo", "v6", "", failed[g]} \subseteq Causes
      BY DEF LifeTyped, Causes
    <3> QED
      BY <3>1, <3>2, CauseGiven
  <2>job. job' \in [Guards -> Jobs] /\ \A h \in Guards \ {g} : job'[h] = job[h]
    <3>1. \/ job' = job \/ Job(g, "v6", Removal) \/ Job(g, "v4", Removal)
          \/ Job(g, "v4", Creation(opts[g].exempt)) \/ Job(g, "v6", Creation({}))
      BY <1>Proceed DEF Proceed, NoV6, Covered, Fail
    <3> QED
      BY <3>1, JobGiven, JobsTyped, OptsTyped DEF LifeTyped, Families
  <2>cleanup. cleanup' \in [Guards -> Cleanups] /\ \A h \in Guards \ {g} : cleanup'[h] = cleanup[h]
    <3>1. cleanup' = cleanup \/ cleanup' = [cleanup EXCEPT ![g] = Append(@, "redirect")]
      BY <1>Proceed DEF Proceed, NoV6, Covered, Fail
    <3>2. cleanup \in [Guards -> Cleanups] /\ cleanup[g] \in Cleanups
      BY DEF LifeTyped
    <3> QED
      BY <3>1, <3>2, StackGiven, StackTyped
  <2> QED
    BY <1>Proceed, <2>at, <2>failed, <2>job, <2>cleanup DEF Moves, Others, LifeTyped,
       Proceed, machine, process
<1>Publish. ASSUME Publish(g) PROVE Moves(g)
  <2>at. at' \in [Guards -> Places] /\ \A h \in Guards \ {g} : at'[h] = at[h]
    BY <1>Publish DEF LifeTyped, Publish, Go, Fail, Fault, Works, Places, Dead
  <2>failed. failed' \in [Guards -> Causes] /\ \A h \in Guards \ {g} : failed'[h] = failed[h]
    BY <1>Publish DEF LifeTyped, Publish, Go, Fail, Fault, Works, Causes
  <2>file. file' \in [ca : Anyone, state : Anyone, anchor : Holder]
    BY <1>Publish DEF LifeTyped, Publish, Go, Fail, Fault, Works, Anyone, Holder
  <2>faults. faults' \in Nat /\ faults <= faults'
    BY <1>Publish DEF LifeTyped, Publish, Go, Fail, Fault, Works
  <2> QED
    BY <1>Publish, <2>at, <2>failed, <2>file, <2>faults DEF Moves, Others, LifeTyped,
       Publish, machine, process
<1>Notify. ASSUME Notify(g) PROVE Moves(g)
  <2>at. at' \in [Guards -> Places] /\ \A h \in Guards \ {g} : at'[h] = at[h]
    BY <1>Notify DEF LifeTyped, Notify, Go, Places, Dead
  <2> QED
    BY <1>Notify, <2>at DEF Moves, Others, LifeTyped, Notify, machine, process
<1>StartChild. ASSUME StartChild(g) PROVE Moves(g)
  <2>at. at' \in [Guards -> Places] /\ \A h \in Guards \ {g} : at'[h] = at[h]
    BY <1>StartChild DEF LifeTyped, StartChild, Go, Places, Dead
  <2> QED
    BY <1>StartChild, <2>at DEF Moves, Others, LifeTyped, StartChild, machine, process
<1>Cleanup. ASSUME Cleanup(g) PROVE Moves(g)
  <2>at. at' \in [Guards -> Places] /\ \A h \in Guards \ {g} : at'[h] = at[h]
    BY <1>Cleanup DEF LifeTyped, Cleanup, Go, StopListeners, Untrust, Unredirect,
       CloseWeb, Fault, Works, Job, Places, Dead
  <2>job. job' \in [Guards -> Jobs] /\ \A h \in Guards \ {g} : job'[h] = job[h]
    <3>1. job' = job \/ Job(g, "v4", Removal)
      BY <1>Cleanup DEF Cleanup, StopListeners, Untrust, Unredirect
    <3> QED
      BY <3>1, JobGiven, JobsTyped, OptsTyped DEF LifeTyped, Families
  <2>cleanup. cleanup' \in [Guards -> Cleanups] /\ \A h \in Guards \ {g} : cleanup'[h] = cleanup[h]
    <3>1. cleanup[g] # <<>> /\ cleanup' = [cleanup EXCEPT ![g] = Front(@)]
      BY <1>Cleanup DEF Cleanup
    <3>2. cleanup \in [Guards -> Cleanups] /\ cleanup[g] \in Cleanups
      BY DEF LifeTyped
    <3> QED
      BY <3>1, <3>2, StackGiven, FrontTyped
  <2>web. web' \in [Webs -> [Families -> Holder]]
    BY <1>Cleanup DEF LifeTyped, Cleanup, Go, StopListeners, Untrust, Unredirect,
       CloseWeb, Fault, Works, Job, Holder, Webs, Families
  <2>file. file' \in [ca : Anyone, state : Anyone, anchor : Holder]
    BY <1>Cleanup DEF LifeTyped, Cleanup, Go, StopListeners, Untrust, Unredirect,
       CloseWeb, Fault, Works, Job, Anyone, Holder
  <2>faults. faults' \in Nat /\ faults <= faults'
    BY <1>Cleanup DEF LifeTyped, Cleanup, Go, StopListeners, Untrust, Unredirect,
       CloseWeb, Fault, Works, Job
  <2>same. UNCHANGED <<opts, host, port, table, trusted, own, failed, parent, kills>>
    BY <1>Cleanup DEF Cleanup, StopListeners, Untrust, Unredirect, machine, process
  <2> QED
    BY <2>same, <2>at, <2>job, <2>cleanup, <2>web, <2>file, <2>faults DEF Moves,
       Others, LifeTyped
<1>Rebuild. ASSUME Rebuild(g) PROVE Moves(g)
  <2>at. at' \in [Guards -> Places] /\ \A h \in Guards \ {g} : at'[h] = at[h]
    BY <1>Rebuild DEF LifeTyped, Rebuild, Go, Fault, Works, Places, Dead
  <2>trusted. trusted' \in Holder
    BY <1>Rebuild DEF LifeTyped, Rebuild, Go, Fault, Works, Holder
  <2>faults. faults' \in Nat /\ faults <= faults'
    BY <1>Rebuild DEF LifeTyped, Rebuild, Go, Fault, Works
  <2> QED
    BY <1>Rebuild, <2>at, <2>trusted, <2>faults DEF Moves, Others, LifeTyped, Rebuild,
       machine, process
<1>Unredirected. ASSUME Unredirected(g) PROVE Moves(g)
  <2>at. at' \in [Guards -> Places] /\ \A h \in Guards \ {g} : at'[h] = at[h]
    BY <1>Unredirected DEF LifeTyped, Unredirected, Go, Job, Places, Dead
  <2>job. job' \in [Guards -> Jobs] /\ \A h \in Guards \ {g} : job'[h] = job[h]
    <3>1. job' = job \/ Job(g, "v6", Removal)
      BY <1>Unredirected DEF Unredirected
    <3> QED
      BY <3>1, JobGiven, JobsTyped, OptsTyped DEF LifeTyped, Families
  <2> QED
    BY <1>Unredirected, <2>at, <2>job DEF Moves, Others, LifeTyped, Unredirected,
       machine, process
<1>Shutdown. ASSUME Shutdown(g) PROVE Moves(g)
  <2>at. at' \in [Guards -> Places] /\ \A h \in Guards \ {g} : at'[h] = at[h]
    BY <1>Shutdown DEF LifeTyped, Shutdown, Go, ClosePort, Places, Dead
  <2>port. port' \in Holder
    BY <1>Shutdown DEF LifeTyped, Shutdown, Go, ClosePort, Holder
  <2> QED
    BY <1>Shutdown, <2>at, <2>port DEF Moves, Others, LifeTyped, Shutdown, machine,
       process
<1>RemoveCA. ASSUME RemoveCA(g) PROVE Moves(g)
  <2>at. at' \in [Guards -> Places] /\ \A h \in Guards \ {g} : at'[h] = at[h]
    BY <1>RemoveCA DEF LifeTyped, RemoveCA, Go, Places, Dead
  <2>file. file' \in [ca : Anyone, state : Anyone, anchor : Holder]
    BY <1>RemoveCA DEF LifeTyped, RemoveCA, Go, Anyone, Holder
  <2>same. UNCHANGED <<opts, host, port, web, table, trusted, job, cleanup, own, failed, parent, faults, kills>>
    BY <1>RemoveCA DEF RemoveCA, machine, process
  <2> QED
    BY <2>same, <2>at, <2>file DEF Moves, Others, LifeTyped
<1>Unpublish. ASSUME Unpublish(g) PROVE Moves(g)
  <2>at. at' \in [Guards -> Places] /\ \A h \in Guards \ {g} : at'[h] = at[h]
    BY <1>Unpublish DEF LifeTyped, Unpublish, Go, Places, Dead
  <2>file. file' \in [ca : Anyone, state : Anyone, anchor : Holder]
    BY <1>Unpublish DEF LifeTyped, Unpublish, Go, Anyone, Holder
  <2> QED
    BY <1>Unpublish, <2>at, <2>file DEF Moves, Others, LifeTyped, Unpublish, machine,
       process
<1>Signal. ASSUME Signal(g) PROVE Moves(g)
  <2>at. at' \in [Guards -> Places] /\ \A h \in Guards \ {g} : at'[h] = at[h]
    BY <1>Signal DEF LifeTyped, Signal, Go, Places, Dead
  <2> QED
    BY <1>Signal, <2>at DEF Moves, Others, LifeTyped, Signal, machine, process
<1>ChildEnds. ASSUME ChildEnds(g) PROVE Moves(g)
  <2>at. at' \in [Guards -> Places] /\ \A h \in Guards \ {g} : at'[h] = at[h]
    BY <1>ChildEnds DEF LifeTyped, ChildEnds, Go, Places, Dead
  <2> QED
    BY <1>ChildEnds, <2>at DEF Moves, Others, LifeTyped, ChildEnds, machine, process
<1>Kill. ASSUME Kill(g) PROVE Moves(g)
  <2>at. at' \in [Guards -> Places] /\ \A h \in Guards \ {g} : at'[h] = at[h]
    BY <1>Kill DEF LifeTyped, Kill, Die, ClosePort, CloseWeb, Dead, Places
  <2>port. port' \in Holder
    BY <1>Kill DEF LifeTyped, Kill, Die, ClosePort, CloseWeb, Dead, Holder
  <2>web. web' \in [Webs -> [Families -> Holder]]
    BY <1>Kill DEF LifeTyped, Kill, Die, ClosePort, CloseWeb, Dead, Holder, Webs,
       Families
  <2>kills. kills' \in Nat
    BY <1>Kill DEF LifeTyped, Kill, Die, ClosePort, CloseWeb, Dead
  <2> QED
    BY <1>Kill, <2>at, <2>port, <2>web, <2>kills DEF Moves, Others, LifeTyped, Kill,
       machine, process
<1>ParentClears. ASSUME ParentClears(g) PROVE Moves(g)
  <2>parent. parent' \in [Guards -> Parents] /\ \A h \in Guards \ {g} : parent'[h] = parent[h]
    BY <1>ParentClears DEF LifeTyped, ParentClears, Parents
  <2>file. file' \in [ca : Anyone, state : Anyone, anchor : Holder]
    BY <1>ParentClears DEF LifeTyped, ParentClears, Anyone, Holder
  <2> QED
    BY <1>ParentClears, <2>parent, <2>file DEF Moves, Others, LifeTyped, ParentClears,
       machine, process
<1>ParentSees. ASSUME ParentSees(g) PROVE Moves(g)
  <2>parent. parent' \in [Guards -> Parents] /\ \A h \in Guards \ {g} : parent'[h] = parent[h]
    BY <1>ParentSees DEF LifeTyped, ParentSees, Parents
  <2> QED
    BY <1>ParentSees, <2>parent DEF Moves, Others, LifeTyped, ParentSees, machine,
       process
<1>ParentGivesUp. ASSUME ParentGivesUp(g) PROVE Moves(g)
  <2>at. at' \in [Guards -> Places] /\ \A h \in Guards \ {g} : at'[h] = at[h]
    BY <1>ParentGivesUp DEF LifeTyped, ParentGivesUp, Die, ClosePort, CloseWeb, Dead,
       Places
  <2>port. port' \in Holder
    BY <1>ParentGivesUp DEF LifeTyped, ParentGivesUp, Die, ClosePort, CloseWeb, Dead,
       Holder
  <2>web. web' \in [Webs -> [Families -> Holder]]
    BY <1>ParentGivesUp DEF LifeTyped, ParentGivesUp, Die, ClosePort, CloseWeb, Dead,
       Holder, Webs, Families
  <2>parent. parent' \in [Guards -> Parents] /\ \A h \in Guards \ {g} : parent'[h] = parent[h]
    BY <1>ParentGivesUp DEF LifeTyped, ParentGivesUp, Die, ClosePort, CloseWeb, Dead,
       Parents
  <2> QED
    BY <1>ParentGivesUp, <2>at, <2>port, <2>web, <2>parent DEF Moves, Others,
       LifeTyped, ParentGivesUp, machine, process

<1> QED
  BY <1>Launch, <1>Pull, <1>WriteCA, <1>Listen, <1>BindHTTP, <1>BindTLS, <1>WriteAnchor,
     <1>Refresh, <1>Mark, <1>Iptables, <1>Proceed, <1>Publish, <1>Notify, <1>StartChild,
     <1>Cleanup, <1>Rebuild, <1>Unredirected, <1>Shutdown, <1>RemoveCA, <1>Unpublish,
     <1>Signal, <1>ChildEnds, <1>Kill, <1>ParentClears, <1>ParentSees, <1>ParentGivesUp
  DEF Rise, Fall, Outside

\* Every step keeps what the place of a guard says of its cleanups.
LEMMA StepStacked ==
  ASSUME LifeTyped, NEW g \in Guards, Rise(g) \/ Fall(g) \/ Outside(g), Moves(g), Stacked(g)
  PROVE  Stacked(g)'
<1> DEFINE c == cleanup[g]  p == at[g]
<1>1. at \in [Guards -> Places] /\ cleanup \in [Guards -> Cleanups] /\ opts' = opts
  BY DEF LifeTyped, Moves
<1>Launch. ASSUME Launch(g) PROVE Stacked(g)'
  BY <1>1, <1>Launch DEF Stacked, Base, Whole, Covering, Installing, Up, Launch, Go,
     machine, process
<1>Pull. ASSUME Pull(g) PROVE Stacked(g)'
  BY <1>1, <1>Pull DEF Stacked, Base, Whole, Covering, Installing, Up, Pull, Go,
     machine, process
<1>WriteCA. ASSUME WriteCA(g) PROVE Stacked(g)'
  BY <1>1, <1>WriteCA DEF Stacked, Base, Whole, Covering, Installing, Up, WriteCA, Go,
     machine, process
<1>Listen. ASSUME Listen(g) PROVE Stacked(g)'
  BY <1>1, <1>Listen DEF Stacked, Base, Whole, Covering, Installing, Up, Listen, Go,
     machine, process
<1>BindHTTP. ASSUME BindHTTP(g) PROVE Stacked(g)'
  BY <1>1, <1>BindHTTP DEF Stacked, Base, Whole, Covering, Installing, Up, BindHTTP,
     Go, Fail, machine, process
<1>BindTLS. ASSUME BindTLS(g) PROVE Stacked(g)'
  <2>1. at[g] = "tls"
    BY <1>BindTLS DEF BindTLS
  <2>2. \/ at'[g] = "cleanup" /\ cleanup' = cleanup
        \/ /\ at'[g] = IF opts[g].installCA THEN "anchor" ELSE AfterTrust(g)
           /\ cleanup'[g] = <<"listeners">>
    BY <1>1, <1>BindTLS DEF BindTLS, Go, Fail
  <2> QED
    BY <1>1, <2>1, <2>2 DEF Stacked, Base, Whole, Covering, Installing, Up, AfterTrust
<1>WriteAnchor. ASSUME WriteAnchor(g) PROVE Stacked(g)'
  BY <1>1, <1>WriteAnchor DEF Stacked, Base, Whole, Covering, Installing, Up,
     WriteAnchor, Go, Fail, machine, process
<1>Refresh. ASSUME Refresh(g) PROVE Stacked(g)'
  <2>1. at[g] = "refresh"
    BY <1>Refresh DEF Refresh
  <2>2. \/ at'[g] = "cleanup" /\ cleanup' = cleanup
        \/ at'[g] = AfterTrust(g) /\ cleanup'[g] = Append(cleanup[g], "trust")
    BY <1>1, <1>Refresh DEF Refresh, Go, Fail
  <2> QED
    BY <1>1, <2>1, <2>2, Pushed DEF Stacked, Base, Whole, Covering, Installing, Up,
       AfterTrust
<1>Mark. ASSUME Mark(g) PROVE Stacked(g)'
  BY <1>1, <1>Mark DEF Stacked, Base, Whole, Covering, Installing, Up, Mark, Go,
     machine, process
<1>Iptables. ASSUME Iptables(g) PROVE Stacked(g)'
  BY <1>1, <1>Iptables DEF Stacked, Base, Whole, Covering, Installing, Up, Iptables,
     Go, machine, process
<1>Proceed. ASSUME Proceed(g) PROVE Stacked(g)'
  <2>1. at[g] \in Installing
    BY <1>Proceed DEF Proceed
  <2>2. \/ at'[g] \in Installing \cup {"cleanup"} /\ cleanup' = cleanup
        \/ at'[g] = "publish" /\ cleanup'[g] = Append(cleanup[g], "redirect")
    BY <1>1, <1>Proceed DEF Proceed, Go, Fail, NoV6, Covered, Installing
  <2> QED
    BY <1>1, <2>1, <2>2 DEF Stacked, Base, Whole, Covering, Installing, Up
<1>Publish. ASSUME Publish(g) PROVE Stacked(g)'
  BY <1>1, <1>Publish DEF Stacked, Base, Whole, Covering, Installing, Up, Publish, Go,
     Fail, machine, process
<1>Notify. ASSUME Notify(g) PROVE Stacked(g)'
  BY <1>1, <1>Notify DEF Stacked, Base, Whole, Covering, Installing, Up, Notify, Go,
     machine, process
<1>StartChild. ASSUME StartChild(g) PROVE Stacked(g)'
  BY <1>1, <1>StartChild DEF Stacked, Base, Whole, Covering, Installing, Up,
     StartChild, Go, machine, process
<1>Cleanup. ASSUME Cleanup(g) PROVE Stacked(g)'
  <2>1. /\ at[g] = "cleanup" /\ cleanup[g] # <<>> /\ cleanup'[g] = Front(cleanup[g])
        /\ \/ Last(cleanup[g]) = "listeners" /\ at' = at
           \/ Last(cleanup[g]) = "trust" /\ at'[g] \in {"rebuild", "cleanup"}
           \/ Last(cleanup[g]) = "redirect" /\ at'[g] = "unredirect"
    BY <1>1, <1>Cleanup DEF Cleanup, Go, StopListeners, Untrust, Unredirect, Latest
  <2> QED
    BY <1>1, <2>1, Pushed, Popped DEF Stacked, Base, Whole, Covering, Installing, Up
<1>Rebuild. ASSUME Rebuild(g) PROVE Stacked(g)'
  BY <1>1, <1>Rebuild DEF Stacked, Base, Whole, Covering, Installing, Up, Rebuild, Go,
     machine, process
<1>Unredirected. ASSUME Unredirected(g) PROVE Stacked(g)'
  BY <1>1, <1>Unredirected DEF Stacked, Base, Whole, Covering, Installing, Up,
     Unredirected, Go, machine, process
<1>Shutdown. ASSUME Shutdown(g) PROVE Stacked(g)'
  BY <1>1, <1>Shutdown DEF Stacked, Base, Whole, Covering, Installing, Up, Shutdown,
     Go, machine, process
<1>RemoveCA. ASSUME RemoveCA(g) PROVE Stacked(g)'
  BY <1>1, <1>RemoveCA DEF Stacked, Base, Whole, Covering, Installing, Up, RemoveCA,
     Go, machine, process
<1>Unpublish. ASSUME Unpublish(g) PROVE Stacked(g)'
  BY <1>1, <1>Unpublish DEF Stacked, Base, Whole, Covering, Installing, Up, Unpublish,
     Go, machine, process
<1>Signal. ASSUME Signal(g) PROVE Stacked(g)'
  BY <1>1, <1>Signal DEF Stacked, Base, Whole, Covering, Installing, Up, Signal, Go,
     machine, process
<1>ChildEnds. ASSUME ChildEnds(g) PROVE Stacked(g)'
  BY <1>1, <1>ChildEnds DEF Stacked, Base, Whole, Covering, Installing, Up, ChildEnds,
     Go, machine, process
<1>Kill. ASSUME Kill(g) PROVE Stacked(g)'
  BY <1>1, <1>Kill DEF Stacked, Base, Whole, Covering, Installing, Up, Kill, Die,
     machine, process
<1>ParentClears. ASSUME ParentClears(g) PROVE Stacked(g)'
  BY <1>1, <1>ParentClears DEF Stacked, Base, Whole, Covering, Installing, Up,
     ParentClears, machine, process
<1>ParentSees. ASSUME ParentSees(g) PROVE Stacked(g)'
  BY <1>1, <1>ParentSees DEF Stacked, Base, Whole, Covering, Installing, Up,
     ParentSees, machine, process
<1>ParentGivesUp. ASSUME ParentGivesUp(g) PROVE Stacked(g)'
  BY <1>1, <1>ParentGivesUp DEF Stacked, Base, Whole, Covering, Installing, Up,
     ParentGivesUp, Die, machine, process
<1> QED
  BY <1>Launch, <1>Pull, <1>WriteCA, <1>Listen, <1>BindHTTP, <1>BindTLS,
     <1>WriteAnchor, <1>Refresh, <1>Mark, <1>Iptables, <1>Proceed, <1>Publish,
     <1>Notify, <1>StartChild, <1>Cleanup, <1>Rebuild, <1>Unredirected, <1>Shutdown,
     <1>RemoveCA, <1>Unpublish, <1>Signal, <1>ChildEnds, <1>Kill, <1>ParentClears,
     <1>ParentSees, <1>ParentGivesUp DEF Rise, Fall, Outside

-----------------------------------------------------------------------------
(* Who listens.                                                              *)

\* A step that leaves sockets alone, and g where it is as a listener.
KeepsBound(g) ==
  /\ UNCHANGED <<web, port>> /\ own'[g].v6 = own[g].v6
  /\ Listening(g)' <=> Listening(g)
  /\ at'[g] = "tls" <=> at[g] = "tls"
  /\ at'[g] \in Portless => at[g] \in Portless

\* Such a step keeps who answers where.
LEMMA BoundKept ==
  ASSUME LifeTyped, Bound, NEW g \in Guards, Moves(g), KeepsBound(g)
  PROVE  Bound'
<1>1. \A h \in Guards \ {g} :
        /\ at'[h] = at[h] /\ cleanup'[h] = cleanup[h] /\ own'[h] = own[h]
        /\ Listening(h)' <=> Listening(h)
  BY DEF Moves, Others, Listening
<1>2. \A h \in Guards :
        /\ Listening(h)' <=> Listening(h)
        /\ at'[h] = "tls" <=> at[h] = "tls"
        /\ own'[h].v6 = own[h].v6
        /\ at'[h] \in Portless => at[h] \in Portless
  BY <1>1 DEF KeepsBound
<1>3. web' = web /\ port' = port
  BY DEF KeepsBound
<1>4. port' # None => port \in Guards
  BY <1>3 DEF LifeTyped, Holder
<1> QED
  BY <1>2, <1>3, <1>4 DEF Bound

\* All steps but those that listen or close are such steps.
LEMMA MostKeepBound ==
  ASSUME LifeTyped, NEW g \in Guards, Stacked(g), Stacked(g)', Moves(g),
         \/ Launch(g) \/ Pull(g) \/ WriteCA(g) \/ WriteAnchor(g) \/ Refresh(g) \/ Mark(g)
         \/ Iptables(g) \/ Proceed(g) \/ Publish(g) \/ Notify(g) \/ StartChild(g)
         \/ Cleanup(g) /\ Latest(g) # "listeners"
         \/ Rebuild(g) \/ Unredirected(g) \/ RemoveCA(g) \/ Unpublish(g) \/ Signal(g)
         \/ ChildEnds(g) \/ ParentClears(g) \/ ParentSees(g)
  PROVE  KeepsBound(g)
<1>0. at \in [Guards -> Places] /\ cleanup \in [Guards -> Cleanups] /\ opts' = opts
      /\ own \in [Guards -> [v6 : BOOLEAN, marked : BOOLEAN]] /\ job \in [Guards -> Jobs]
  BY DEF LifeTyped, Moves
<1>1. Base(g) # <<>> /\ Whole(g) # <<>>
  BY Pushed, Contents DEF Base, Whole
<1>Launch. ASSUME Launch(g) PROVE KeepsBound(g)
  BY <1>0, <1>1, <1>Launch DEF KeepsBound, Listening, Portless, Dead, Stacked,
     Covering, Installing, Up, Launch, Go, machine, process
<1>Pull. ASSUME Pull(g) PROVE KeepsBound(g)
  BY <1>0, <1>1, <1>Pull DEF KeepsBound, Listening, Portless, Dead, Stacked, Covering,
     Installing, Up, Pull, Go, machine, process
<1>WriteCA. ASSUME WriteCA(g) PROVE KeepsBound(g)
  BY <1>0, <1>1, <1>WriteCA DEF KeepsBound, Listening, Portless, Dead, Stacked,
     Covering, Installing, Up, WriteCA, Go, machine, process
<1>WriteAnchor. ASSUME WriteAnchor(g) PROVE KeepsBound(g)
  BY <1>0, <1>1, <1>WriteAnchor DEF KeepsBound, Listening, Portless, Dead, Stacked,
     Covering, Installing, Up, WriteAnchor, Go, Fail, machine, process
<1>Refresh. ASSUME Refresh(g) PROVE KeepsBound(g)
  BY <1>0, <1>1, <1>Refresh DEF KeepsBound, Listening, Portless, Dead, Stacked,
     Covering, Installing, Up, Refresh, Go, Fail, AfterTrust, machine, process
<1>Mark. ASSUME Mark(g) PROVE KeepsBound(g)
  BY <1>0, <1>1, <1>Mark DEF KeepsBound, Listening, Portless, Dead, Stacked, Covering,
     Installing, Up, Mark, Go, machine, process
<1>Iptables. ASSUME Iptables(g) PROVE KeepsBound(g)
  BY <1>0, <1>1, <1>Iptables DEF KeepsBound, Listening, Portless, Dead, Stacked,
     Covering, Installing, Up, Iptables, Go, machine, process
<1>Proceed. ASSUME Proceed(g) PROVE KeepsBound(g)
  <2>1. at[g] \in Installing /\ UNCHANGED <<web, port, own>>
    BY <1>Proceed DEF Proceed, machine
  <2>2. \/ at'[g] \in Installing \cup {"cleanup"} /\ cleanup' = cleanup
        \/ at'[g] = "publish" /\ cleanup'[g] = Append(cleanup[g], "redirect")
    BY <1>0, <1>Proceed DEF Proceed, Go, Fail, NoV6, Covered, Installing
  <2>3. cleanup[g] # <<>> /\ cleanup'[g] # <<>>
    BY <1>0, <1>1, <2>1, <2>2, Pushed, Contents DEF Stacked, Covering, Base
  <2> QED
    BY <2>1, <2>2, <2>3 DEF KeepsBound, Listening, Portless, Dead, Installing
<1>Publish. ASSUME Publish(g) PROVE KeepsBound(g)
  BY <1>0, <1>1, <1>Publish DEF KeepsBound, Listening, Portless, Dead, Stacked,
     Covering, Installing, Up, Publish, Go, Fail, machine, process
<1>Notify. ASSUME Notify(g) PROVE KeepsBound(g)
  BY <1>0, <1>1, <1>Notify DEF KeepsBound, Listening, Portless, Dead, Stacked,
     Covering, Installing, Up, Notify, Go, machine, process
<1>StartChild. ASSUME StartChild(g) PROVE KeepsBound(g)
  BY <1>0, <1>1, <1>StartChild DEF KeepsBound, Listening, Portless, Dead, Stacked,
     Covering, Installing, Up, StartChild, Go, machine, process
<1>Rebuild. ASSUME Rebuild(g) PROVE KeepsBound(g)
  BY <1>0, <1>1, <1>Rebuild DEF KeepsBound, Listening, Portless, Dead, Stacked,
     Covering, Installing, Up, Rebuild, Go, machine, process
<1>Unredirected. ASSUME Unredirected(g) PROVE KeepsBound(g)
  BY <1>0, <1>1, <1>Unredirected DEF KeepsBound, Listening, Portless, Dead, Stacked,
     Covering, Installing, Up, Unredirected, Go, machine, process
<1>RemoveCA. ASSUME RemoveCA(g) PROVE KeepsBound(g)
  BY <1>0, <1>1, <1>RemoveCA DEF KeepsBound, Listening, Portless, Dead, Stacked,
     Covering, Installing, Up, RemoveCA, Go, machine, process
<1>Unpublish. ASSUME Unpublish(g) PROVE KeepsBound(g)
  BY <1>0, <1>1, <1>Unpublish DEF KeepsBound, Listening, Portless, Dead, Stacked,
     Covering, Installing, Up, Unpublish, Go, machine, process
<1>Signal. ASSUME Signal(g) PROVE KeepsBound(g)
  BY <1>0, <1>1, <1>Signal DEF KeepsBound, Listening, Portless, Dead, Stacked,
     Covering, Installing, Up, Signal, Go, machine, process
<1>ChildEnds. ASSUME ChildEnds(g) PROVE KeepsBound(g)
  BY <1>0, <1>1, <1>ChildEnds DEF KeepsBound, Listening, Portless, Dead, Stacked,
     Covering, Installing, Up, ChildEnds, Go, machine, process
<1>ParentClears. ASSUME ParentClears(g) PROVE KeepsBound(g)
  BY <1>0, <1>1, <1>ParentClears DEF KeepsBound, Listening, Portless, Dead, Stacked,
     Covering, Installing, Up, ParentClears, machine, process
<1>ParentSees. ASSUME ParentSees(g) PROVE KeepsBound(g)
  BY <1>0, <1>1, <1>ParentSees DEF KeepsBound, Listening, Portless, Dead, Stacked,
     Covering, Installing, Up, ParentSees, machine, process
<1>Cleanup. ASSUME Cleanup(g), Latest(g) # "listeners" PROVE KeepsBound(g)
  <2>1. /\ at[g] = "cleanup" /\ cleanup[g] # <<>> /\ cleanup'[g] = Front(cleanup[g])
        /\ at'[g] \in {"rebuild", "cleanup", "unredirect"} /\ UNCHANGED <<web, port, own>>
        /\ Last(cleanup[g]) # "listeners"
    BY <1>0, <1>Cleanup DEF Cleanup, Go, StopListeners, Untrust, Unredirect, Latest
  <2>2. cleanup'[g] # <<>>
    BY <2>1, Pushed, Popped, Contents DEF Stacked, Base, Whole
  <2> QED
    BY <2>1, <2>2 DEF KeepsBound, Listening, Portless, Dead
<1> QED
  BY <1>Launch, <1>Pull, <1>WriteCA, <1>WriteAnchor, <1>Refresh, <1>Mark, <1>Iptables,
     <1>Proceed, <1>Publish, <1>Notify, <1>StartChild, <1>Rebuild, <1>Unredirected,
     <1>RemoveCA, <1>Unpublish, <1>Signal, <1>ChildEnds, <1>ParentClears,
     <1>ParentSees, <1>Cleanup

\* A guard that closes its transparent ports, and no longer answers for any.
LEMMA ClosingKeepsBound ==
  ASSUME LifeTyped, Bound, NEW g \in Guards, Moves(g), CloseWeb(g), ~Listening(g)',
         port' # None => at'[port'] \notin Portless
  PROVE  Bound'
<1>1. \A h \in Guards \ {g} :
        /\ at'[h] = at[h] /\ cleanup'[h] = cleanup[h] /\ own'[h] = own[h]
        /\ Listening(h)' <=> Listening(h)
  BY DEF Moves, Others, Listening
<1>2. \A w \in Webs, f \in Families :
        /\ web'[w][f] = IF web[w][f] = g THEN None ELSE web[w][f]
        /\ web[w][f] \in Guards \cup {None}
  BY DEF CloseWeb, LifeTyped, Holder
<1>3. ASSUME NEW h \in Guards, Listening(h)'
      PROVE  /\ web'["http"]["v4"] = h
             /\ at'[h] # "tls" => web'["tls"]["v4"] = h
             /\ at'[h] # "tls" /\ own'[h].v6 => web'["http"]["v6"] = h /\ web'["tls"]["v6"] = h
  <2>1. h # g
    BY <1>3
  <2> QED
    BY <1>1, <1>2, <1>3, <2>1 DEF Bound, Webs, Families
<1>4. ASSUME NEW h \in Guards, NEW w \in Webs, NEW f \in Families, web'[w][f] = h
      PROVE  web'[w]["v4"] = h /\ Listening(h)' /\ (w = "tls" => at'[h] # "tls")
  <2>1. h # g /\ web[w][f] = h
    BY <1>2, <1>4, LifecycleAssumption
  <2>2. web[w]["v4"] = h /\ Listening(h) /\ (w = "tls" => at[h] # "tls")
    BY <2>1 DEF Bound
  <2> QED
    BY <1>1, <1>2, <2>1, <2>2 DEF Families
<1> QED
  BY <1>3, <1>4 DEF Bound

\* A guard that is gone leaves no socket behind.
LEMMA DyingKeepsBound ==
  ASSUME LifeTyped, Bound, NEW g \in Guards, Moves(g), Die(g), own' = own, cleanup' = cleanup
  PROVE  Bound'
<1>1. CASE at[g] \in Dead
  <2>1. KeepsBound(g)
    BY <1>1 DEF Die, KeepsBound, Listening, LifeTyped
  <2> QED
    BY <2>1, BoundKept
<1>2. CASE at[g] \notin Dead
  <2>1. /\ at'[g] = "killed" /\ CloseWeb(g)
        /\ port' = IF port = g THEN None ELSE port
    BY <1>2 DEF Die, ClosePort, LifeTyped
  <2>2. port' # None => port' \in Guards /\ port' # g /\ port' = port
    BY <2>1 DEF LifeTyped, Holder
  <2>3. port' # None => at'[port'] \notin Portless
    BY <2>2 DEF Bound, Moves, Others
  <2>4. ~Listening(g)'
    BY <2>1 DEF Listening, Dead
  <2> QED
    BY <2>1, <2>3, <2>4, ClosingKeepsBound
<1> QED
  BY <1>1, <1>2

\* Every step keeps who answers where.
LEMMA StepBound ==
  ASSUME LifeTyped, Bound, NEW g \in Guards, Stacked(g), Stacked(g)', Moves(g),
         Rise(g) \/ Fall(g) \/ Outside(g)
  PROVE  Bound'
<1>0. /\ at \in [Guards -> Places] /\ cleanup \in [Guards -> Cleanups]
      /\ own \in [Guards -> [v6 : BOOLEAN, marked : BOOLEAN]]
      /\ web \in [Webs -> [Families -> Holder]] /\ port \in Holder
  BY DEF LifeTyped
<1>1. \A h \in Guards \ {g} :
        /\ at'[h] = at[h] /\ cleanup'[h] = cleanup[h] /\ own'[h] = own[h]
        /\ Listening(h)' <=> Listening(h)
  BY DEF Moves, Others, Listening
<1>2. None \notin Guards
  BY LifecycleAssumption
<1>3. \A w \in Webs, f \in Families :
        web[w][f] # None => web[w][f] \in Guards /\ web[w][f] = web[w]["v4"]
  <2>1. SUFFICES ASSUME NEW w \in Webs, NEW f \in Families, web[w][f] # None
                 PROVE  web[w][f] \in Guards /\ web[w][f] = web[w]["v4"]
    OBVIOUS
  <2>2. web[w][f] \in Guards
    BY <1>0, <2>1 DEF Holder
  <2>3. PICK h \in Guards : web[w][f] = h
    BY <2>2
  <2> QED
    BY <2>3 DEF Bound
<1>Listen. ASSUME Listen(g) PROVE Bound'
  <2>1. /\ UNCHANGED <<web, own, cleanup>> /\ at[g] = "listen"
        /\ \/ at'[g] \in {"http", "publish"} /\ port' = g /\ port = None
           \/ at'[g] \in {"start", "exited"} /\ port' = port
    BY <1>0, <1>Listen DEF Listen, Go
  <2>2. ~Listening(g) /\ ~Listening(g)' /\ at'[g] # "tls"
    BY <2>1 DEF Listening, Dead, Stacked
  <2>3. \A h \in Guards : Listening(h)' <=> Listening(h)
    BY <1>1, <2>2
  <2>4. port # g
    BY <1>2, <2>1 DEF Bound, Portless
  <2>5. port' # None => at'[port'] \notin Portless
    BY <1>0, <1>1, <2>1, <2>4 DEF Bound, Portless, Dead, Holder
  <2> QED
    BY <1>1, <2>1, <2>2, <2>3, <2>5 DEF Bound
<1>Shutdown. ASSUME Shutdown(g) PROVE Bound'
  <2>1. /\ UNCHANGED <<web, own, cleanup>> /\ at[g] = "cleanup" /\ cleanup[g] = <<>>
        /\ at'[g] = "flushing" /\ port' = IF port = g THEN None ELSE port
    BY <1>0, <1>Shutdown DEF Shutdown, Go, ClosePort
  <2>2. ~Listening(g) /\ ~Listening(g)' /\ at'[g] # "tls"
    BY <2>1 DEF Listening, Dead, Stacked
  <2>3. \A h \in Guards : Listening(h)' <=> Listening(h)
    BY <1>1, <2>2
  <2>5. port' # None => at'[port'] \notin Portless
    BY <1>0, <1>1, <2>1 DEF Bound, Portless, Dead, Holder
  <2> QED
    BY <1>1, <2>1, <2>2, <2>3, <2>5 DEF Bound
<1>BindHTTP. ASSUME BindHTTP(g) PROVE Bound'
  <2>1. /\ UNCHANGED <<port, own, cleanup>> /\ at[g] = "http" /\ cleanup[g] = <<>>
    BY <1>BindHTTP DEF BindHTTP, Stacked
  <2>2. CASE web.http.v4 # None
    <3>1. web' = web /\ at'[g] = "cleanup"
      BY <1>0, <1>BindHTTP, <2>2 DEF BindHTTP, Fail, Go
    <3>2. KeepsBound(g)
      BY <2>1, <3>1 DEF KeepsBound, Listening, Portless, Dead
    <3> QED
      BY <3>2, BoundKept
  <2>3. CASE web.http.v4 = None
    <3>1. /\ at'[g] = "tls" /\ web'["tls"] = web["tls"] /\ web'["http"]["v4"] = g
          /\ web'["http"]["v6"] = IF host.loopback6 /\ web["http"]["v6"] = None THEN g
                                  ELSE web["http"]["v6"]
      BY <1>0, <1>BindHTTP, <2>3 DEF BindHTTP, Go, BothLoopbacks, Webs, Families
    <3>2. web["http"]["v6"] = None
      BY <1>2, <1>3, <2>3 DEF Webs, Families
    <3>3. ~Listening(g) /\ Listening(g)'
      BY <2>1, <3>1 DEF Listening
    <3>4. \A h \in Guards : ~Listening(h)
      BY <1>2, <2>3 DEF Bound
    <3>5. \A h \in Guards : Listening(h)' => h = g
      BY <1>1, <3>4
    <3>6. \A f \in Families : web["tls"][f] = None
      BY <1>0, <3>4 DEF Bound, Webs, Holder
    <3>7. port' # None => at'[port'] \notin Portless
      BY <1>0, <1>1, <2>1, <3>1 DEF Bound, Portless, Dead, Holder
    <3> QED
      BY <1>2, <3>1, <3>2, <3>3, <3>5, <3>6, <3>7 DEF Bound, Webs, Families
  <2> QED
    BY <2>2, <2>3
<1>BindTLS. ASSUME BindTLS(g) PROVE Bound'
  <2>1. UNCHANGED port /\ at[g] = "tls" /\ cleanup[g] = <<>> /\ Listening(g)
    BY <1>BindTLS DEF BindTLS, Stacked, Listening
  <2>2. CASE web.tls.v4 # None
    <3>1. CloseWeb(g) /\ at'[g] = "cleanup" /\ cleanup' = cleanup
      BY <1>0, <1>BindTLS, <2>2 DEF BindTLS, Fail, Go
    <3>2. ~Listening(g)'
      BY <2>1, <3>1 DEF Listening
    <3>3. port' # None => at'[port'] \notin Portless
      BY <1>0, <1>1, <2>1, <3>1 DEF Bound, Portless, Dead, Holder
    <3> QED
      BY <3>1, <3>2, <3>3, ClosingKeepsBound
  <2>3. CASE web.tls.v4 = None
    <3>1. /\ at'[g] \in {"anchor", "mark", "publish"} /\ cleanup'[g] = <<"listeners">>
          /\ web'["http"] = web["http"] /\ web'["tls"]["v4"] = g
          /\ web'["tls"]["v6"] = IF host.loopback6 /\ web["tls"]["v6"] = None THEN g
                                 ELSE web["tls"]["v6"]
      BY <1>0, <1>BindTLS, <2>3 DEF BindTLS, Go, BothLoopbacks, Webs, Families,
         AfterTrust
    <3>2. own'[g].v6 = (web'["http"]["v6"] = g /\ web'["tls"]["v6"] = g)
      BY <1>0, <1>BindTLS, <2>3 DEF BindTLS
    <3>3. web["tls"]["v6"] = None /\ web["http"]["v4"] = g
      BY <1>2, <1>3, <2>1, <2>3 DEF Bound, Webs, Families
    <3>4. Listening(g)'
      BY <3>1, Contents DEF Listening, Dead
    <3>5. \A h \in Guards : Listening(h) => h = g
      BY <3>3 DEF Bound
    <3>6. \A h \in Guards : Listening(h)' => h = g
      BY <1>1, <3>5
    <3>7. port' # None => at'[port'] \notin Portless
      BY <1>0, <1>1, <2>1, <3>1 DEF Bound, Portless, Dead, Holder
    <3>8. \A f \in Families : web["http"][f] # None => web["http"][f] = g
      BY <1>3, <3>3 DEF Webs
    <3>9. ASSUME NEW h \in Guards, NEW w \in Webs, NEW f \in Families, web'[w][f] = h
          PROVE  web'[w]["v4"] = h /\ h = g
      BY <1>2, <3>1, <3>3, <3>8, <3>9 DEF Webs, Families
    <3>10. at'[g] # "tls"
      BY <3>1
    <3>11. ASSUME NEW h \in Guards, Listening(h)'
           PROVE  /\ web'["http"]["v4"] = h /\ web'["tls"]["v4"] = h
                  /\ own'[h].v6 => web'["http"]["v6"] = h /\ web'["tls"]["v6"] = h
      BY <3>1, <3>2, <3>3, <3>6, <3>11
    <3> QED
      BY <3>4, <3>7, <3>9, <3>10, <3>11 DEF Bound
  <2> QED
    BY <2>2, <2>3
<1>Cleanup. ASSUME Cleanup(g), Latest(g) = "listeners" PROVE Bound'
  <2>1. /\ at[g] = "cleanup" /\ cleanup'[g] = Front(cleanup[g]) /\ CloseWeb(g)
        /\ UNCHANGED <<at, port>> /\ Last(cleanup[g]) = "listeners" /\ cleanup[g] # <<>>
    BY <1>0, <1>Cleanup DEF Cleanup, StopListeners, Untrust, Unredirect, Latest
  <2>2. cleanup'[g] = <<>>
    BY <2>1, Pushed, Popped DEF Stacked, Base, Whole
  <2>3. ~Listening(g)'
    BY <2>1, <2>2 DEF Listening
  <2>4. port' # None => at'[port'] \notin Portless
    BY <1>0, <2>1 DEF Bound
  <2> QED
    BY <2>1, <2>3, <2>4, ClosingKeepsBound
<1>Die. ASSUME Kill(g) \/ ParentGivesUp(g) PROVE Bound'
  <2>1. Die(g) /\ own' = own /\ cleanup' = cleanup
    BY <1>Die DEF Kill, ParentGivesUp
  <2> QED
    BY <2>1, DyingKeepsBound
<1> QED
  BY MostKeepBound, BoundKept, <1>Listen, <1>Shutdown, <1>BindHTTP, <1>BindTLS,
     <1>Cleanup,
     <1>Die DEF Rise, Fall, Outside

-----------------------------------------------------------------------------
(* The state file, and the parent of detach.                                 *)

\* What a step of g may do to them: only a guard that is up publishes, and nobody
\* goes back to where it was before.
Publishes(g) ==
  /\ opts[g].cmd = "exec" => at'[g] \in ExecPlaces
  /\ Published(g) => Published(g)'
  /\ \/ file'.state \in {file.state, None}
     \/ file'.state = g /\ opts[g].cmd # "exec" /\ Published(g)'
  /\ \/ parent'[g] \in {parent[g], "none", "clear"}
     \/ parent[g] = "clear" /\ parent'[g] = "poll" /\ file'.state = None
     \/ parent[g] = "poll" /\ parent'[g] = "failed"
     \/ parent[g] = "poll" /\ parent'[g] = "ok" /\ file.state # None /\ UNCHANGED <<at, file>>

\* What any step does to the state file and to a waiting parent.
LEMMA StepPublishes ==
  ASSUME LifeTyped, NEW g \in Guards, Rise(g) \/ Fall(g) \/ Outside(g), Moves(g),
         opts[g].cmd = "exec" => at[g] \in ExecPlaces
  PROVE  Publishes(g)
<1>1. /\ at \in [Guards -> Places] /\ parent \in [Guards -> Parents]
      /\ file \in [ca : Anyone, state : Anyone, anchor : Holder]
  BY DEF LifeTyped
<1>Launch. ASSUME Launch(g) PROVE Publishes(g)
  BY <1>1, <1>Launch DEF Publishes, Published, Rising, ExecPlaces, Dead, Installing,
     Removing, Launch, Go, machine, process
<1>Pull. ASSUME Pull(g) PROVE Publishes(g)
  BY <1>1, <1>Pull DEF Publishes, Published, Rising, ExecPlaces, Dead, Installing,
     Removing, Pull, Go, machine, process
<1>WriteCA. ASSUME WriteCA(g) PROVE Publishes(g)
  BY <1>1, <1>WriteCA DEF Publishes, Published, Rising, ExecPlaces, Dead, Installing,
     Removing, WriteCA, Go, Fault, Works, machine, process
<1>Listen. ASSUME Listen(g) PROVE Publishes(g)
  BY <1>1, <1>Listen DEF Publishes, Published, Rising, ExecPlaces, Dead, Installing,
     Removing, Listen, Go, machine, process
<1>BindHTTP. ASSUME BindHTTP(g) PROVE Publishes(g)
  BY <1>1, <1>BindHTTP DEF Publishes, Published, Rising, ExecPlaces, Dead, Installing,
     Removing, BindHTTP, Go, Fail, machine, process
<1>BindTLS. ASSUME BindTLS(g) PROVE Publishes(g)
  BY <1>1, <1>BindTLS DEF Publishes, Published, Rising, ExecPlaces, Dead, Installing,
     Removing, BindTLS, Go, Fail, AfterTrust, machine, process
<1>WriteAnchor. ASSUME WriteAnchor(g) PROVE Publishes(g)
  BY <1>1, <1>WriteAnchor DEF Publishes, Published, Rising, ExecPlaces, Dead,
     Installing, Removing, WriteAnchor, Go, Fail, machine, process
<1>Refresh. ASSUME Refresh(g) PROVE Publishes(g)
  BY <1>1, <1>Refresh DEF Publishes, Published, Rising, ExecPlaces, Dead, Installing,
     Removing, Refresh, Go, Fail, AfterTrust, machine, process
<1>Mark. ASSUME Mark(g) PROVE Publishes(g)
  BY <1>1, <1>Mark DEF Publishes, Published, Rising, ExecPlaces, Dead, Installing,
     Removing, Mark, Go, machine, process
<1>Iptables. ASSUME Iptables(g) PROVE Publishes(g)
  BY <1>1, <1>Iptables DEF Publishes, Published, Rising, ExecPlaces, Dead, Installing,
     Removing, Iptables, Go, machine, process
<1>Proceed. ASSUME Proceed(g) PROVE Publishes(g)
  BY <1>1, <1>Proceed DEF Publishes, Published, Rising, ExecPlaces, Dead, Installing,
     Removing, Proceed, Go, Fail, NoV6, Covered, machine, process
<1>Publish. ASSUME Publish(g) PROVE Publishes(g)
  BY <1>1, <1>Publish DEF Publishes, Published, Rising, ExecPlaces, Dead, Installing,
     Removing, Publish, Go, Fail, machine, process
<1>Notify. ASSUME Notify(g) PROVE Publishes(g)
  BY <1>1, <1>Notify DEF Publishes, Published, Rising, ExecPlaces, Dead, Installing,
     Removing, Notify, Go, machine, process
<1>StartChild. ASSUME StartChild(g) PROVE Publishes(g)
  BY <1>1, <1>StartChild DEF Publishes, Published, Rising, ExecPlaces, Dead,
     Installing, Removing, StartChild, Go, machine, process
<1>Cleanup. ASSUME Cleanup(g) PROVE Publishes(g)
  BY <1>1, <1>Cleanup DEF Publishes, Published, Rising, ExecPlaces, Dead, Installing,
     Removing, Cleanup, Go, StopListeners, Untrust, Unredirect, machine, process
<1>Rebuild. ASSUME Rebuild(g) PROVE Publishes(g)
  BY <1>1, <1>Rebuild DEF Publishes, Published, Rising, ExecPlaces, Dead, Installing,
     Removing, Rebuild, Go, machine, process
<1>Unredirected. ASSUME Unredirected(g) PROVE Publishes(g)
  BY <1>1, <1>Unredirected DEF Publishes, Published, Rising, ExecPlaces, Dead,
     Installing, Removing, Unredirected, Go, machine, process
<1>Shutdown. ASSUME Shutdown(g) PROVE Publishes(g)
  BY <1>1, <1>Shutdown DEF Publishes, Published, Rising, ExecPlaces, Dead, Installing,
     Removing, Shutdown, Go, machine, process
<1>RemoveCA. ASSUME RemoveCA(g) PROVE Publishes(g)
  BY <1>1, <1>RemoveCA DEF Publishes, Published, Rising, ExecPlaces, Dead, Installing,
     Removing, RemoveCA, Go, machine, process
<1>Unpublish. ASSUME Unpublish(g) PROVE Publishes(g)
  BY <1>1, <1>Unpublish DEF Publishes, Published, Rising, ExecPlaces, Dead,
     Installing, Removing, Unpublish, Go, machine, process
<1>Signal. ASSUME Signal(g) PROVE Publishes(g)
  BY <1>1, <1>Signal DEF Publishes, Published, Rising, ExecPlaces, Dead, Installing,
     Removing, Signal, Go, machine, process
<1>ChildEnds. ASSUME ChildEnds(g) PROVE Publishes(g)
  BY <1>1, <1>ChildEnds DEF Publishes, Published, Rising, ExecPlaces, Dead,
     Installing, Removing, ChildEnds, Go, machine, process
<1>Kill. ASSUME Kill(g) PROVE Publishes(g)
  BY <1>1, <1>Kill DEF Publishes, Published, Rising, ExecPlaces, Dead, Installing,
     Removing, Kill, Die, machine, process
<1>ParentClears. ASSUME ParentClears(g) PROVE Publishes(g)
  BY <1>1, <1>ParentClears DEF Publishes, Published, Rising, ExecPlaces, Dead,
     Installing, Removing, ParentClears, machine, process
<1>ParentSees. ASSUME ParentSees(g) PROVE Publishes(g)
  BY <1>1, <1>ParentSees DEF Publishes, Published, Rising, ExecPlaces, Dead,
     Installing, Removing, ParentSees, machine, process
<1>ParentGivesUp. ASSUME ParentGivesUp(g) PROVE Publishes(g)
  BY <1>1, <1>ParentGivesUp DEF Publishes, Published, Rising, ExecPlaces, Dead,
     Installing, Removing, ParentGivesUp, Die, machine, process
<1> QED
  BY <1>Launch, <1>Pull, <1>WriteCA, <1>Listen, <1>BindHTTP, <1>BindTLS, <1>WriteAnchor,
     <1>Refresh, <1>Mark, <1>Iptables, <1>Proceed, <1>Publish, <1>Notify, <1>StartChild,
     <1>Cleanup, <1>Rebuild, <1>Unredirected, <1>Shutdown, <1>RemoveCA, <1>Unpublish,
     <1>Signal, <1>ChildEnds, <1>Kill, <1>ParentClears, <1>ParentSees, <1>ParentGivesUp
     DEF Rise, Fall, Outside

\* Every step keeps what the state file says.
LEMMA StepState ==
  ASSUME LifeTyped, StateInv, NEW g \in Guards, Moves(g), Publishes(g)
  PROVE  StateInv'
<1>1. opts' = opts /\ \A h \in Guards \ {g} : at'[h] = at[h] /\ parent'[h] = parent[h]
  BY DEF Moves, Others
<1>2. None \notin Guards /\ Earlier \notin Guards /\ None # Earlier
  BY LifecycleAssumption
<1>3. file.state \in Guards \cup {None, Earlier}
  BY DEF LifeTyped, Anyone
<1>4. \A h \in Guards : opts[h].cmd = "exec" => at'[h] \in ExecPlaces
  BY <1>1 DEF StateInv, Publishes
<1>5. \A h \in Guards : Published(h) => Published(h)'
  BY <1>1 DEF Published, Publishes
<1>6. file'.state \in Guards =>
        /\ opts[file'.state].cmd # "exec"
        /\ at'[file'.state] \notin Rising \cup {"off"}
  <2>1. CASE file'.state \in {file.state, None}
    <3>1. file'.state \in Guards => file'.state = file.state
      BY <1>2, <2>1
    <3> QED
      BY <1>5, <3>1 DEF StateInv, Published
  <2>2. CASE file'.state = g /\ opts[g].cmd # "exec" /\ Published(g)'
    BY <2>2 DEF Published
  <2> QED
    BY <2>1, <2>2 DEF Publishes
<1>7. \A h \in Guards : parent'[h] \in {"poll", "ok", "failed"} => file'.state # Earlier
  <2>1. file'.state = Earlier => file.state = Earlier
    BY <1>2 DEF Publishes
  <2>2. ASSUME NEW h \in Guards, parent'[h] \in {"poll", "ok", "failed"}
        PROVE  parent[h] \in {"poll", "ok", "failed"} \/ file'.state = None
    BY <1>1, <2>2 DEF Publishes
  <2> QED
    BY <1>2, <2>1, <2>2 DEF StateInv
<1>8. ASSUME NEW h \in Guards, parent'[h] = "ok", \A k \in Guards \ {h} : opts[k].cmd = "exec"
      PROVE  Published(h)'
  <2>1. CASE parent[h] = "ok"
    BY <1>5, <1>8, <2>1 DEF StateInv
  <2>2. CASE parent[h] # "ok"
    <3>1. h = g
      BY <1>1, <1>8, <2>2
    <3>2. parent[g] = "poll" /\ file.state # None
      BY <1>8, <2>2, <3>1 DEF Publishes
    <3>3. file.state \in Guards
      BY <1>3, <3>2 DEF StateInv
    <3>4. file.state = g /\ Published(g)
      BY <1>8, <3>1, <3>3 DEF StateInv
    <3> QED
      BY <1>5, <3>1, <3>4
  <2> QED
    BY <2>1, <2>2
<1> QED
  BY <1>1, <1>4, <1>6, <1>7, <1>8 DEF StateInv, Published

-----------------------------------------------------------------------------
(* The trust store.                                                          *)

\* The first transparent port is one guard's.
LEMMA OneListens ==
  ASSUME Bound, NEW g \in Guards, NEW h \in Guards, Listening(g), Listening(h)
  PROVE  g = h
BY DEF Bound

\* A guard that has changed the trust store answers on the transparent ports.
LEMMA TrustersListen ==
  ASSUME NEW g \in Guards, Stacked(g),
         Trusts(g) \/ at[g] \in {"anchor", "refresh", "rebuild"}
  PROVE  Listening(g)
<1>1. CASE Trusts(g)
  BY <1>1, Contents DEF Trusts, Listening
<1>2. CASE at[g] \in {"anchor", "refresh", "rebuild"}
  BY <1>2, Contents DEF Stacked, Listening, Dead
<1> QED
  BY <1>1, <1>2

\* What a step of g may do to the anchor and the bundle.
Entrusts(g) ==
  \/ /\ UNCHANGED <<file.anchor, trusted>>
     /\ Trusts(g)' <=> Trusts(g)
     /\ at'[g] = "refresh" <=> at[g] = "refresh"
     /\ at'[g] = "rebuild" <=> at[g] = "rebuild"
  \/ /\ at[g] = "anchor" /\ at'[g] = "refresh" /\ ~Trusts(g)'
     /\ file'.anchor = g /\ trusted' = trusted
  \/ /\ at[g] = "refresh" /\ at'[g] \notin {"refresh", "rebuild"} /\ Trusts(g)'
     /\ file'.anchor = file.anchor /\ trusted' = file.anchor
  \/ /\ at[g] = "refresh" /\ at'[g] = "cleanup" /\ ~Trusts(g)' /\ faults' > 0
     /\ file'.anchor = None /\ trusted' = trusted
  \/ /\ Trusts(g) /\ at'[g] = "rebuild" /\ ~Trusts(g)'
     /\ file'.anchor = None /\ trusted' = trusted
  \/ /\ at[g] = "rebuild" /\ at'[g] = "cleanup" /\ ~Trusts(g)'
     /\ file'.anchor = file.anchor /\ trusted' = file.anchor
  \/ /\ at'[g] \notin {"refresh", "rebuild"} /\ ~Trusts(g)'
     /\ faults' > 0 \/ at'[g] = "killed"
     /\ UNCHANGED <<file.anchor, trusted>>

\* What any step does to the anchor and the bundle.
LEMMA StepEntrusts ==
  ASSUME LifeTyped, NEW g \in Guards, Rise(g) \/ Fall(g) \/ Outside(g), Moves(g),
         Stacked(g), Stacked(g)'
  PROVE  Entrusts(g) /\ (at[g] = "killed" => at'[g] = "killed")
<1>1. /\ at \in [Guards -> Places] /\ cleanup \in [Guards -> Cleanups]
      /\ file \in [ca : Anyone, state : Anyone, anchor : Holder] /\ opts' = opts
      /\ faults \in Nat
  BY DEF LifeTyped, Moves
<1>Launch. ASSUME Launch(g) PROVE Entrusts(g) /\ (at[g] = "killed" => at'[g] = "killed")
  BY <1>1, Contents, <1>Launch DEF Entrusts, Trusts, Dead, Installing, Removing,
     Stacked, Base, Covering, Up, Launch, Go, machine, process
<1>Pull. ASSUME Pull(g) PROVE Entrusts(g) /\ (at[g] = "killed" => at'[g] = "killed")
  BY <1>1, Contents, <1>Pull DEF Entrusts, Trusts, Dead, Installing, Removing,
     Stacked, Base, Covering, Up, Pull, Go, machine, process
<1>WriteCA. ASSUME WriteCA(g) PROVE Entrusts(g) /\ (at[g] = "killed" => at'[g] = "killed")
  BY <1>1, Contents, <1>WriteCA DEF Entrusts, Trusts, Dead, Installing, Removing,
     Stacked, Base, Covering, Up, WriteCA, Go, Fault, Works, machine, process
<1>Listen. ASSUME Listen(g) PROVE Entrusts(g) /\ (at[g] = "killed" => at'[g] = "killed")
  BY <1>1, Contents, <1>Listen DEF Entrusts, Trusts, Dead, Installing, Removing,
     Stacked, Base, Covering, Up, Listen, Go, machine, process
<1>BindHTTP. ASSUME BindHTTP(g) PROVE Entrusts(g) /\ (at[g] = "killed" => at'[g] = "killed")
  BY <1>1, Contents, <1>BindHTTP DEF Entrusts, Trusts, Dead, Installing, Removing,
     Stacked, Base, Covering, Up, BindHTTP, Go, Fail, machine, process
<1>BindTLS. ASSUME BindTLS(g) PROVE Entrusts(g) /\ (at[g] = "killed" => at'[g] = "killed")
  BY <1>1, Contents, <1>BindTLS DEF Entrusts, Trusts, Dead, Installing, Removing,
     Stacked, Base, Covering, Up, BindTLS, Go, Fail, AfterTrust, machine, process
<1>WriteAnchor. ASSUME WriteAnchor(g) PROVE Entrusts(g) /\ (at[g] = "killed" => at'[g] = "killed")
  BY <1>1, Contents, <1>WriteAnchor DEF Entrusts, Trusts, Dead, Installing, Removing,
     Stacked, Base, Covering, Up, WriteAnchor, Go, Fail, machine, process
<1>Refresh. ASSUME Refresh(g) PROVE Entrusts(g) /\ (at[g] = "killed" => at'[g] = "killed")
  <2>1. at[g] = "refresh" /\ cleanup[g] = <<"listeners">>
    BY <1>Refresh DEF Refresh, Stacked
  <2>2. CASE Works /\ trusted' = file.anchor /\ Go(g, AfterTrust(g)) /\ UNCHANGED file
             /\ cleanup' = [cleanup EXCEPT ![g] = Append(@, "trust")]
    <3>1. at'[g] \in {"mark", "publish"} /\ cleanup'[g] = <<"listeners", "trust">>
      BY <1>1, <2>1, <2>2, Pushed DEF Go, AfterTrust
    <3>2. Trusts(g)'
      BY <3>1, Contents DEF Trusts, Dead
    <3> QED
      BY <2>1, <2>2, <3>1, <3>2 DEF Entrusts
  <2>3. CASE Fault /\ file' = [file EXCEPT !.anchor = None] /\ Fail(g, "fault")
             /\ UNCHANGED <<trusted, cleanup>>
    <3>1. at'[g] = "cleanup" /\ ~Trusts(g)' /\ faults' > 0
      BY <1>1, <2>1, <2>3, Contents DEF Fail, Go, Trusts, Fault
    <3> QED
      BY <1>1, <2>1, <2>3, <3>1 DEF Entrusts
  <2> QED
    BY <1>Refresh, <2>2, <2>3 DEF Refresh
<1>Mark. ASSUME Mark(g) PROVE Entrusts(g) /\ (at[g] = "killed" => at'[g] = "killed")
  BY <1>1, Contents, <1>Mark DEF Entrusts, Trusts, Dead, Installing, Removing,
     Stacked, Base, Covering, Up, Mark, Go, machine, process
<1>Iptables. ASSUME Iptables(g) PROVE Entrusts(g) /\ (at[g] = "killed" => at'[g] = "killed")
  BY <1>1, Contents, <1>Iptables DEF Entrusts, Trusts, Dead, Installing, Removing,
     Stacked, Base, Covering, Up, Iptables, Go, machine, process
<1>Proceed. ASSUME Proceed(g) PROVE Entrusts(g) /\ (at[g] = "killed" => at'[g] = "killed")
  <2>1. at[g] \in Installing /\ UNCHANGED <<file, trusted>>
    BY <1>Proceed DEF Proceed, machine
  <2>2. \/ at'[g] \in Installing \cup {"cleanup"} /\ cleanup' = cleanup
        \/ at'[g] = "publish" /\ cleanup'[g] = Append(cleanup[g], "redirect")
    BY <1>1, <1>Proceed DEF Proceed, Go, Fail, NoV6, Covered, Installing
  <2>3. Trusts(g)' <=> Trusts(g)
    <3>1. at[g] \notin Dead /\ at'[g] \notin Dead
      BY <2>1, <2>2 DEF Installing, Dead
    <3>2. cleanup[g] = Base(g)
      BY <2>1 DEF Stacked, Covering
    <3> QED
      BY <2>2, <3>1, <3>2, Pushed, Contents DEF Trusts, Base
  <2>4. at[g] \notin {"refresh", "rebuild", "killed"} /\ at'[g] \notin {"refresh", "rebuild"}
    BY <2>1, <2>2 DEF Installing
  <2> QED
    BY <2>1, <2>3, <2>4 DEF Entrusts
<1>Publish. ASSUME Publish(g) PROVE Entrusts(g) /\ (at[g] = "killed" => at'[g] = "killed")
  BY <1>1, Contents, <1>Publish DEF Entrusts, Trusts, Dead, Installing, Removing,
     Stacked, Base, Covering, Up, Publish, Go, Fail, machine, process
<1>Notify. ASSUME Notify(g) PROVE Entrusts(g) /\ (at[g] = "killed" => at'[g] = "killed")
  BY <1>1, Contents, <1>Notify DEF Entrusts, Trusts, Dead, Installing, Removing,
     Stacked, Base, Covering, Up, Notify, Go, machine, process
<1>StartChild. ASSUME StartChild(g) PROVE Entrusts(g) /\ (at[g] = "killed" => at'[g] = "killed")
  BY <1>1, Contents, <1>StartChild DEF Entrusts, Trusts, Dead, Installing, Removing,
     Stacked, Base, Covering, Up, StartChild, Go, machine, process
<1>Cleanup. ASSUME Cleanup(g) PROVE Entrusts(g) /\ (at[g] = "killed" => at'[g] = "killed")
  <2>1. at[g] = "cleanup" /\ cleanup'[g] = Front(cleanup[g]) /\ trusted' = trusted
    BY <1>1, <1>Cleanup DEF Cleanup
  <2>2. \/ cleanup[g] = <<"listeners">> \/ cleanup[g] = <<"listeners", "trust">>
        \/ cleanup[g] = <<"listeners", "redirect">>
        \/ cleanup[g] = <<"listeners", "trust", "redirect">>
    BY <1>Cleanup, <2>1, Pushed DEF Cleanup, Stacked, Base, Whole
  <2>3. CASE StopListeners(g)
    <3>1. cleanup[g] = <<"listeners">> /\ at' = at /\ file' = file
      BY <2>2, <2>3, Popped DEF StopListeners, Latest
    <3>2. ~Trusts(g) /\ ~Trusts(g)'
      BY <2>1, <3>1, Popped, Contents DEF Trusts
    <3> QED
      BY <2>1, <3>1, <3>2 DEF Entrusts
  <2>4. CASE Untrust(g)
    <3>1. cleanup[g] = <<"listeners", "trust">>
      BY <2>2, <2>4, Popped DEF Untrust, Latest
    <3>2. Trusts(g) /\ ~Trusts(g)'
      BY <2>1, <3>1, Popped, Contents DEF Trusts, Dead
    <3>3. \/ file' = [file EXCEPT !.anchor = None] /\ at'[g] = "rebuild"
          \/ faults' > 0 /\ file' = file /\ at' = at
      BY <1>1, <2>4 DEF Untrust, Fault, Go
    <3> QED
      BY <1>1, <2>1, <3>2, <3>3 DEF Entrusts
  <2>5. CASE Unredirect(g)
    <3>1. file' = file /\ at'[g] = "unredirect"
      BY <1>1, <2>5 DEF Unredirect, Go
    <3>2. \/ cleanup[g] = <<"listeners", "redirect">>
          \/ cleanup[g] = <<"listeners", "trust", "redirect">>
      BY <2>2, <2>5, Popped DEF Unredirect, Latest
    <3>3. Trusts(g)' <=> Trusts(g)
      BY <2>1, <3>1, <3>2, Popped, Contents DEF Trusts, Dead
    <3> QED
      BY <2>1, <3>1, <3>3 DEF Entrusts
  <2> QED
    BY <1>Cleanup, <2>3, <2>4, <2>5 DEF Cleanup
<1>Rebuild. ASSUME Rebuild(g) PROVE Entrusts(g) /\ (at[g] = "killed" => at'[g] = "killed")
  <2>1. at[g] = "rebuild" /\ at'[g] = "cleanup" /\ file' = file /\ cleanup' = cleanup
    BY <1>1, <1>Rebuild DEF Rebuild, Go
  <2>2. ~Trusts(g) /\ ~Trusts(g)'
    BY <2>1, Contents DEF Trusts, Stacked
  <2>3. trusted' = file.anchor \/ (trusted' = trusted /\ faults' > 0)
    <3>1. trusted' = file.anchor \/ (Fault /\ trusted' = trusted)
      BY <1>Rebuild DEF Rebuild
    <3>2. Fault => faults' > 0
      BY <1>1 DEF Fault
    <3> QED
      BY <3>1, <3>2
  <2> QED
    BY <2>1, <2>2, <2>3 DEF Entrusts
<1>Unredirected. ASSUME Unredirected(g) PROVE Entrusts(g) /\ (at[g] = "killed" => at'[g] = "killed")
  BY <1>1, Contents, <1>Unredirected DEF Entrusts, Trusts, Dead, Installing, Removing,
     Stacked, Base, Covering, Up, Unredirected, Go, machine, process
<1>Shutdown. ASSUME Shutdown(g) PROVE Entrusts(g) /\ (at[g] = "killed" => at'[g] = "killed")
  BY <1>1, Contents, <1>Shutdown DEF Entrusts, Trusts, Dead, Installing, Removing,
     Stacked, Base, Covering, Up, Shutdown, Go, machine, process
<1>RemoveCA. ASSUME RemoveCA(g) PROVE Entrusts(g) /\ (at[g] = "killed" => at'[g] = "killed")
  BY <1>1, Contents, <1>RemoveCA DEF Entrusts, Trusts, Dead, Installing, Removing,
     Stacked, Base, Covering, Up, RemoveCA, Go, machine, process
<1>Unpublish. ASSUME Unpublish(g) PROVE Entrusts(g) /\ (at[g] = "killed" => at'[g] = "killed")
  BY <1>1, Contents, <1>Unpublish DEF Entrusts, Trusts, Dead, Installing, Removing,
     Stacked, Base, Covering, Up, Unpublish, Go, machine, process
<1>Signal. ASSUME Signal(g) PROVE Entrusts(g) /\ (at[g] = "killed" => at'[g] = "killed")
  BY <1>1, Contents, <1>Signal DEF Entrusts, Trusts, Dead, Installing, Removing,
     Stacked, Base, Covering, Up, Signal, Go, machine, process
<1>ChildEnds. ASSUME ChildEnds(g) PROVE Entrusts(g) /\ (at[g] = "killed" => at'[g] = "killed")
  BY <1>1, Contents, <1>ChildEnds DEF Entrusts, Trusts, Dead, Installing, Removing,
     Stacked, Base, Covering, Up, ChildEnds, Go, machine, process
<1>Kill. ASSUME Kill(g) PROVE Entrusts(g) /\ (at[g] = "killed" => at'[g] = "killed")
  BY <1>1, Contents, <1>Kill DEF Entrusts, Trusts, Dead, Installing, Removing,
     Stacked, Base, Covering, Up, Kill, Die, machine, process
<1>ParentClears. ASSUME ParentClears(g) PROVE Entrusts(g) /\ (at[g] = "killed" => at'[g] = "killed")
  BY <1>1, Contents, <1>ParentClears DEF Entrusts, Trusts, Dead, Installing, Removing,
     Stacked, Base, Covering, Up, ParentClears, machine, process
<1>ParentSees. ASSUME ParentSees(g) PROVE Entrusts(g) /\ (at[g] = "killed" => at'[g] = "killed")
  BY <1>1, Contents, <1>ParentSees DEF Entrusts, Trusts, Dead, Installing, Removing,
     Stacked, Base, Covering, Up, ParentSees, machine, process
<1>ParentGivesUp. ASSUME ParentGivesUp(g) PROVE Entrusts(g) /\ (at[g] = "killed" => at'[g] = "killed")
  BY <1>1, Contents, <1>ParentGivesUp DEF Entrusts, Trusts, Dead, Installing,
     Removing, Stacked, Base, Covering, Up, ParentGivesUp, Die, machine, process
<1> QED
  BY <1>Launch, <1>Pull, <1>WriteCA, <1>Listen, <1>BindHTTP, <1>BindTLS, <1>WriteAnchor,
     <1>Refresh, <1>Mark, <1>Iptables, <1>Proceed, <1>Publish, <1>Notify, <1>StartChild,
     <1>Cleanup, <1>Rebuild, <1>Unredirected, <1>Shutdown, <1>RemoveCA, <1>Unpublish,
     <1>Signal, <1>ChildEnds, <1>Kill, <1>ParentClears, <1>ParentSees, <1>ParentGivesUp
     DEF Rise, Fall, Outside

\* Every step keeps who owns the anchor and the bundle.
LEMMA StepTrusting ==
  ASSUME LifeTyped, \A h \in Guards : Stacked(h), Bound, Trusting, NEW g \in Guards, Moves(g),
         Entrusts(g), at[g] = "killed" => at'[g] = "killed"
  PROVE  Trusting'
<1>0. \A h \in Guards \ {g} :
        at'[h] = at[h] /\ cleanup'[h] = cleanup[h] /\ (Trusts(h)' <=> Trusts(h))
  BY DEF Moves, Others, Trusts
<1>1. None \notin Guards /\ file.anchor \in Guards \cup {None} /\ trusted \in Guards \cup {None}
  BY LifecycleAssumption DEF LifeTyped, Holder
<1>2. NobodyKilled' /\ faults' = 0 => NobodyKilled /\ faults = 0
  BY <1>0 DEF NobodyKilled, Moves, LifeTyped
\* While g has the store, nobody else does.
<1>3. ASSUME Trusts(g) \/ at[g] \in {"anchor", "refresh", "rebuild"}, NEW h \in Guards \ {g}
      PROVE  ~Trusts(h) /\ at[h] \notin {"refresh", "rebuild"}
  <2>1. Listening(g)
    BY <1>3, TrustersListen
  <2>2. ASSUME Trusts(h) \/ at[h] \in {"refresh", "rebuild"} PROVE Listening(h)
    BY <2>2, TrustersListen
  <2> QED
    BY <2>1, <2>2, OneListens
<1>4. \A h \in Guards : /\ Trusts(h) => trusted = h /\ file.anchor = h
                        /\ at[h] = "refresh" => file.anchor = h
                        /\ at[h] = "rebuild" => file.anchor = None
  BY DEF Trusting
<1>5. NobodyKilled /\ faults = 0 =>
        /\ file.anchor # None => Trusts(file.anchor) \/ at[file.anchor] = "refresh"
        /\ trusted # None => Trusts(trusted) \/ at[trusted] = "rebuild"
  BY DEF Trusting
<1>6. ASSUME NEW h \in Guards
      PROVE  /\ Trusts(h)' => trusted' = h /\ file'.anchor = h
             /\ at'[h] = "refresh" => file'.anchor = h
             /\ at'[h] = "rebuild" => file'.anchor = None
  <2>1. CASE h = g
    BY <1>4, <2>1 DEF Entrusts
  <2>2. CASE h # g
    BY <1>0, <1>3, <1>4, <2>2 DEF Entrusts
  <2> QED
    BY <2>1, <2>2
<1>10. /\ at[g] \in {"anchor", "refresh", "rebuild"} => ~Trusts(g)
       /\ NobodyKilled' => at'[g] # "killed"
  BY Contents DEF Trusts, Stacked, NobodyKilled
<1>7. ASSUME NobodyKilled', faults' = 0, NEW h \in Guards, file'.anchor = h
      PROVE  Trusts(h)' \/ at'[h] = "refresh"
  <2>1. CASE file'.anchor = file.anchor
    <3>1. Trusts(h) \/ at[h] = "refresh"
      BY <1>1, <1>2, <1>5, <1>7, <2>1
    <3>2. CASE h = g
      <4>1. file.anchor = g /\ file'.anchor = g /\ None # g /\ ~(faults' > 0) /\ at'[g] # "killed"
        <5>1. ~(faults' > 0)
          BY <1>7
        <5>2. at'[g] # "killed"
          BY <1>7, <1>10, Zenon
        <5>3. None # g
          BY <1>1
        <5> QED
          BY <1>7, <2>1, <3>2, <5>1, <5>2, <5>3, Zenon
      <4>2. /\ Trusts(g) \/ at[g] = "refresh"
            /\ at[g] = "rebuild" => file.anchor = None
            /\ at[g] = "anchor" => ~Trusts(g)
        BY <1>4, <1>10, <3>1, <3>2
      <4>3. Trusts(g)' \/ at'[g] = "refresh"
        BY <4>1, <4>2 DEF Entrusts
      <4> QED
        BY <3>2, <4>3
    <3>3. CASE h # g
      BY <1>0, <3>1, <3>3
    <3> QED
      BY <3>2, <3>3
  <2>2. CASE file'.anchor # file.anchor
    BY <1>1, <1>7, <2>2 DEF Entrusts
  <2> QED
    BY <2>1, <2>2
<1>8. ASSUME NobodyKilled', faults' = 0, NEW h \in Guards, trusted' = h
      PROVE  Trusts(h)' \/ at'[h] = "rebuild"
  <2>1. CASE trusted' = trusted
    <3>1. Trusts(h) \/ at[h] = "rebuild"
      BY <1>1, <1>2, <1>5, <1>8, <2>1
    <3>2. CASE h = g
      <4>1. trusted = g /\ trusted' = g /\ None # g /\ ~(faults' > 0) /\ at'[g] # "killed"
        <5>1. ~(faults' > 0)
          BY <1>8
        <5>2. at'[g] # "killed"
          BY <1>8, <1>10, Zenon
        <5>3. None # g
          BY <1>1
        <5> QED
          BY <1>8, <2>1, <3>2, <5>1, <5>2, <5>3, Zenon
      <4>2. /\ Trusts(g) \/ at[g] = "rebuild"
            /\ at[g] = "rebuild" => file.anchor = None
            /\ at[g] = "anchor" => ~Trusts(g)
        BY <1>4, <1>10, <3>1, <3>2
      <4>3. Trusts(g)' \/ at'[g] = "rebuild"
        BY <4>1, <4>2 DEF Entrusts
      <4> QED
        BY <3>2, <4>3
    <3>3. CASE h # g
      BY <1>0, <3>1, <3>3
    <3> QED
      BY <3>2, <3>3
  <2>2. CASE trusted' # trusted
    BY <1>1, <1>4, <1>8, <2>2 DEF Entrusts
  <2> QED
    BY <2>1, <2>2
<1>9. file'.anchor \in Guards \cup {None} /\ trusted' \in Guards \cup {None}
  BY DEF Moves, LifeTyped, Holder
<1> QED
  BY <1>1, <1>6, <1>7, <1>8, <1>9 DEF Trusting

-----------------------------------------------------------------------------
(* What the commands make of a table.                                        *)

\* Removal is three commands.
LEMMA RemovalIs ==
  /\ Removal # <<>> /\ Head(Removal) = "-D" /\ Tail(Removal) = <<"-F", "-X">>
  /\ <<"-F", "-X">> # <<>> /\ Head(<<"-F", "-X">>) = "-F" /\ Tail(<<"-F", "-X">>) = <<"-X">>
  /\ <<"-X">> # <<>> /\ Head(<<"-X">>) = "-X" /\ Tail(<<"-X">>) = <<>>
BY DEF Removal

\* Nothing becomes less gone with another fault.
LEMMA LaterGone ==
  ASSUME NEW t, NEW n \in Nat, NEW m \in Nat, n <= m
  PROVE  /\ Gone(t, n) => Gone(t, m)
         /\ \A cmds : Removes(t, cmds, n) => Removes(t, cmds, m)
         /\ \A cmds, e : Builds(t, cmds, e, n) => Builds(t, cmds, e, m)
<1>1. Gone(t, n) => Gone(t, m)
  BY DEF Gone
<1>2. (m = 0 => n = 0) /\ (m <= 1 => n <= 1)
  OBVIOUS
<1>3. ASSUME NEW cmds, Removes(t, cmds, n) PROVE Removes(t, cmds, m)
  BY <1>1, <1>2, <1>3 DEF Removes
<1>4. ASSUME NEW cmds, NEW e, Builds(t, cmds, e, n) PROVE Builds(t, cmds, e, m)
  BY <1>1, <1>4 DEF Builds
<1> QED
  BY <1>1, <1>3, <1>4

\* Every command of a removal brings it forward, whether the kernel takes it,
\* refuses it, or it fails.
LEMMA RemovesStep ==
  ASSUME NEW t \in Chains, NEW n \in Nat, NEW cmds, Proper(t), Removes(t, cmds, n), cmds # <<>>
  PROVE  LET cmd == Head(cmds)
         IN /\ cmd \in {"-D", "-F", "-X"}
            /\ Accepts(t, cmd) =>
                 /\ Proper(After(t, cmd))
                 /\ Removes(After(t, cmd), IF cmd = "-D" THEN cmds ELSE Tail(cmds), n)
                 /\ Gone(t, n) => Gone(After(t, cmd), n)
            /\ ~Accepts(t, cmd) => Removes(t, Tail(cmds), n)
            /\ Removes(t, Tail(cmds), n + 1)
<1>0. /\ t.there \in BOOLEAN /\ t.hooks \in Nat
      /\ t = [there |-> t.there, rules |-> t.rules, hooks |-> t.hooks]
      /\ ~t.there => t.rules = <<>> /\ t.hooks = 0
      /\ t.rules # <<>> => t.rules[1] = "mark"
      /\ n + 1 # 0 /\ (n + 1 <= 1 => n = 0)
  BY DEF Chains, Proper
<1>1. CASE cmds = Removal
  <2>1. /\ Head(cmds) = "-D" /\ Tail(cmds) = <<"-F", "-X">>
    BY <1>1, RemovalIs
  <2>2. After(t, "-D") = [there |-> t.there, rules |-> t.rules, hooks |-> t.hooks - 1]
    BY <1>0 DEF After
  <2>3. Accepts(t, "-D") <=> t.hooks > 0
    BY DEF Accepts
  <2>4. Accepts(t, "-D") => Proper(After(t, "-D")) /\ (Gone(t, n) => Gone(After(t, "-D"), n))
    BY <1>0, <2>2, <2>3 DEF Proper, Gone, Quiet
  <2>5. Removes(After(t, "-D"), cmds, n)
    BY <1>1 DEF Removes
  <2>6. ~Accepts(t, "-D") => Removes(t, <<"-F", "-X">>, n)
    BY <1>0, <2>3 DEF Removes
  <2>7. Removes(t, <<"-F", "-X">>, n + 1)
    BY <1>0 DEF Removes
  <2> QED
    BY <2>1, <2>4, <2>5, <2>6, <2>7
<1>2. CASE cmds = <<"-F", "-X">> /\ (n = 0 => t.hooks = 0)
  <2>1. /\ Head(cmds) = "-F" /\ Tail(cmds) = <<"-X">>
    BY <1>2, RemovalIs
  <2>2. After(t, "-F") = [there |-> t.there, rules |-> <<>>, hooks |-> t.hooks]
    BY <1>0 DEF After
  <2>3. Accepts(t, "-F") <=> t.there
    BY DEF Accepts
  <2>4. Accepts(t, "-F") => Proper(After(t, "-F")) /\ (Gone(t, n) => Gone(After(t, "-F"), n))
    BY <1>0, <2>2, <2>3 DEF Proper, Gone, Quiet
  <2>5. Accepts(t, "-F") => Removes(After(t, "-F"), <<"-X">>, n)
    BY <1>2, <2>2 DEF Removes, Quiet
  <2>6. ~Accepts(t, "-F") => Removes(t, <<"-X">>, n)
    BY <1>0, <2>3 DEF Removes, Quiet
  <2>7. Removes(t, <<"-X">>, n + 1)
    BY <1>0, <1>2 DEF Removes, Quiet
  <2> QED
    BY <2>1, <2>4, <2>5, <2>6, <2>7
<1>3. CASE cmds = <<"-X">> /\ (n = 0 => t.hooks = 0 /\ t.rules = <<>>) /\ (n <= 1 => Quiet(t))
  <2>1. /\ Head(cmds) = "-X" /\ Tail(cmds) = <<>>
    BY <1>3, RemovalIs
  <2>2. After(t, "-X") = [there |-> FALSE, rules |-> t.rules, hooks |-> t.hooks]
    BY <1>0 DEF After
  <2>3. Accepts(t, "-X") <=> t.there /\ t.hooks = 0 /\ t.rules = <<>>
    BY DEF Accepts
  <2>4. Accepts(t, "-X") => Proper(After(t, "-X")) /\ Gone(After(t, "-X"), n)
    BY <1>0, <2>2, <2>3 DEF Proper, Gone, Quiet
  <2>5. Accepts(t, "-X") => Removes(After(t, "-X"), <<>>, n)
    BY <2>4 DEF Removes
  <2>6. ~Accepts(t, "-X") => Removes(t, <<>>, n)
    BY <1>3, <2>3 DEF Removes, Gone
  <2>7. Removes(t, <<>>, n + 1)
    BY <1>0, <1>3 DEF Removes, Gone
  <2> QED
    BY <2>1, <2>4, <2>5, <2>6, <2>7
<1> QED
  BY <1>1, <1>2, <1>3 DEF Removes

\* A removal that has no command left has removed the table.
LEMMA RemovesDone ==
  ASSUME NEW t, NEW n, Removes(t, <<>>, n)
  PROVE  Gone(t, n)
BY RemovalIs DEF Removes

\* An installation starts on a table that was removed.
LEMMA BuildsStart ==
  ASSUME NEW t, NEW n, NEW e \in SUBSET {"cidr", "typo"}, Gone(t, n)
  PROVE  Builds(t, Creation(e), e, n)
<1>1. PICK k : k = Len(Creation(e)) /\ k \in Nat /\ k - k = 0 /\ ~(k - k > 0)
  BY CreationIs
<1>2. \A i \in 1..k : i + (k - k) = i
  BY <1>1
<1> QED
  BY <1>1, <1>2 DEF Builds

\* A command that succeeds leaves the rest of the installation.
LEMMA BuildsStep ==
  ASSUME NEW t \in Chains, NEW n \in Nat, NEW e \in SUBSET {"cidr", "typo"},
         NEW cmds \in Seq(Commands), Proper(t), Builds(t, cmds, e, n), cmds # <<>>
  PROVE  LET cmd == Head(cmds)
         IN /\ cmd # "-D"
            /\ cmd = "-N" => Gone(t, n)
            /\ n = 0 => Accepts(t, cmd)
            /\ Accepts(t, cmd) => Proper(After(t, cmd)) /\ Builds(After(t, cmd), Tail(cmds), e, n)
<1>0. PICK all, N, k : all = Creation(e) /\ N = Len(all) /\ k = N - Len(cmds)
  OBVIOUS
<1>1. /\ all \in Seq(Commands) /\ N \in Nat /\ N >= 6
      /\ all[1] = "-N" /\ all[2] = "mark" /\ all[N] = "hook"
      /\ \A i \in 2..N-1 : all[i] \in {"mark", "lo", "exempt", "http", "tls"}
  BY <1>0, CreationIs
<1>2. /\ k \in Nat /\ \A i \in 1..Len(cmds) : cmds[i] = all[i + k]
      /\ k = 0 => Gone(t, n)
      /\ k > 0 =>
           /\ t.there /\ t.hooks = 0
           /\ Len(t.rules) = k - 1
           /\ \A i \in 1..Len(t.rules) : t.rules[i] = all[i + 1]
  BY <1>0 DEF Builds
<1>3. Len(cmds) \in Nat /\ Len(cmds) > 0 /\ k < N /\ Len(cmds) = N - k
  BY <1>0, <1>1
<1>4. Head(cmds) = all[k + 1] /\ Tail(cmds) \in Seq(Commands) /\ Len(Tail(cmds)) = N - k - 1
      /\ \A i \in 1..N-k-1 : Tail(cmds)[i] = all[i + (k + 1)]
  <2>1. cmds[1] = all[1 + k] /\ Head(cmds) = cmds[1]
    BY <1>2, <1>3
  <2>2. \A i \in 1..N-k-1 : i + 1 \in 1..Len(cmds) /\ Tail(cmds)[i] = cmds[i + 1]
    BY <1>1, <1>2, <1>3
  <2>3. \A i \in 1..N-k-1 : cmds[i + 1] = all[(i + 1) + k] /\ (i + 1) + k = i + (k + 1)
    BY <1>1, <1>2, <2>2
  <2> QED
    BY <1>1, <1>2, <1>3, <2>1, <2>2, <2>3
<1>5. Tail(cmds) = <<>> <=> k = N - 1
  <2>1. PICK s \in Seq(Commands) : s = Tail(cmds) /\ Len(s) = N - k - 1
    BY <1>4
  <2>2. Len(s) = 0 <=> s = <<>>
    OBVIOUS
  <2>3. N - k - 1 = 0 <=> k = N - 1
    BY <1>1, <1>2
  <2> QED
    BY <2>1, <2>2, <2>3
<1>6. N - Len(Tail(cmds)) = k + 1
  BY <1>1, <1>2, <1>4
<1>7. /\ t.rules \in Seq(Commands) /\ t.there \in BOOLEAN /\ t.hooks \in Nat
      /\ t = [there |-> t.there, rules |-> t.rules, hooks |-> t.hooks]
      /\ ~t.there => t.rules = <<>> /\ t.hooks = 0
      /\ t.rules # <<>> => t.rules[1] = "mark"
  BY DEF Chains, Proper
\* What is left to show of the table that a command leaves.
<1>8. ASSUME NEW u, u.there, u.hooks = (IF k = N - 1 THEN 1 ELSE 0),
             Len(u.rules) = (IF k = N - 1 THEN k - 1 ELSE k),
             \A i \in 1..Len(u.rules) : u.rules[i] = all[i + 1]
      PROVE  Builds(u, Tail(cmds), e, n)
  <2>1. k + 1 \in Nat /\ k + 1 # 0 /\ (k + 1) - 2 = k - 1 /\ (k + 1) - 1 = k
    BY <1>2
  <2>2. \A i \in 1..Len(Tail(cmds)) : Tail(cmds)[i] = all[i + (k + 1)]
    BY <1>4
  <2> QED
    BY <1>0, <1>5, <1>6, <1>8, <2>1, <2>2 DEF Builds
<1>9. CASE k = 0
  <2>1. Head(cmds) = "-N" /\ Gone(t, n)
    BY <1>1, <1>2, <1>4, <1>9
  <2>2. Accepts(t, "-N") <=> ~t.there
    BY DEF Accepts
  <2>3. After(t, "-N") = [there |-> TRUE, rules |-> t.rules, hooks |-> t.hooks]
    BY <1>7 DEF After
  <2>4. ASSUME ~t.there PROVE Builds(After(t, "-N"), Tail(cmds), e, n)
    <3>1. PICK u : u = After(t, "-N")
      OBVIOUS
    <3>2. u.there /\ u.hooks = 0 /\ u.rules = <<>> /\ Len(u.rules) = 0
      BY <1>7, <2>3, <2>4, <3>1
    <3>3. 0 # N - 1 /\ \A i \in 1..Len(u.rules) : u.rules[i] = all[i + 1]
      BY <1>1, <3>2
    <3> QED
      BY <1>8, <1>9, <3>1, <3>2, <3>3
  <2>5. ~t.there => Proper(After(t, "-N"))
    BY <1>7, <2>3 DEF Proper
  <2> QED
    BY <2>1, <2>2, <2>4, <2>5 DEF Gone
<1>10. CASE k > 0 /\ k < N - 1
  <2>1. PICK cmd : cmd = Head(cmds) /\ cmd \in {"mark", "lo", "exempt", "http", "tls"}
    BY <1>1, <1>2, <1>4, <1>10
  <2>2. PICK r : r = Append(t.rules, cmd)
    OBVIOUS
  <2>3. /\ Accepts(t, cmd)
        /\ After(t, cmd) = [there |-> t.there, rules |-> r, hooks |-> t.hooks]
    BY <1>2, <1>7, <1>10, <2>1, <2>2 DEF Accepts, After
  <2>4. Len(r) = k /\ \A i \in 1..k : r[i] = all[i + 1]
    <3>1. Len(r) = (k - 1) + 1 /\ r[(k - 1) + 1] = cmd /\ \A i \in 1..k-1 : r[i] = t.rules[i]
      BY <1>2, <1>7, <1>10, <2>1, <2>2
    <3>2. (k - 1) + 1 = k /\ \A i \in 1..k : i = k \/ i \in 1..k-1
      BY <1>2
    <3>3. \A i \in 1..k-1 : t.rules[i] = all[i + 1]
      BY <1>2, <1>10
    <3> QED
      BY <1>4, <2>1, <3>1, <3>2, <3>3
  <2>5. Builds(After(t, cmd), Tail(cmds), e, n)
    BY <1>2, <1>8, <1>10, <2>3, <2>4
  <2>6. r[1] = "mark"
    BY <1>1, <1>2, <1>10, <2>4
  <2>7. Proper(After(t, cmd))
    BY <1>2, <1>10, <2>3, <2>6 DEF Proper
  <2> QED
    BY <2>1, <2>3, <2>5, <2>7
<1>11. CASE k = N - 1
  <2>1. Head(cmds) = "hook" /\ t.there /\ t.hooks = 0
    BY <1>1, <1>2, <1>4, <1>11
  <2>2. /\ Accepts(t, "hook")
        /\ After(t, "hook") = [there |-> t.there, rules |-> t.rules, hooks |-> 1]
    <3>1. After(t, "hook") = [there |-> t.there, rules |-> t.rules, hooks |-> t.hooks + 1]
      BY <1>7 DEF After
    <3>2. t.hooks + 1 = 1
      BY <2>1
    <3> QED
      BY <2>1, <3>1, <3>2 DEF Accepts
  <2>3. Builds(After(t, "hook"), Tail(cmds), e, n)
    <3>1. k > 0
      BY <1>1, <1>11
    <3>2. PICK u : u = After(t, "hook")
      OBVIOUS
    <3>3. u.there /\ u.hooks = 1 /\ u.rules = t.rules
      BY <2>1, <2>2, <3>2
    <3> QED
      BY <1>2, <1>8, <1>11, <3>1, <3>2, <3>3
  <2>4. Proper(After(t, "hook"))
    BY <1>7, <2>1, <2>2 DEF Proper
  <2> QED
    BY <2>1, <2>2, <2>3, <2>4
<1> QED
  BY <1>1, <1>2, <1>3, <1>9, <1>10, <1>11

\* An installation that has no command left redirects both ports.
LEMMA BuildsDone ==
  ASSUME NEW t \in Chains, NEW n, NEW e \in SUBSET {"cidr", "typo"}, Builds(t, <<>>, e, n)
  PROVE  Laid(t)
<1>0. PICK all, N : all = Creation(e) /\ N = Len(all)
  OBVIOUS
<1>1. N \in Nat /\ N >= 6 /\ all[N - 2] = "http" /\ all[N - 1] = "tls" /\ N - 0 = N
  BY <1>0, CreationIs
<1>2. /\ t.hooks = 1 /\ Len(t.rules) = N - 2
      /\ \A i \in 1..Len(t.rules) : t.rules[i] = all[i + 1]
  BY <1>0, <1>1 DEF Builds
<1>3. N - 3 \in 1..Len(t.rules) /\ N - 2 \in 1..Len(t.rules)
      /\ (N - 3) + 1 = N - 2 /\ (N - 2) + 1 = N - 1
  BY <1>1, <1>2
<1>4. t.rules[N - 3] = "http" /\ t.rules[N - 2] = "tls"
  BY <1>1, <1>2, <1>3
<1>5. DOMAIN t.rules = 1..Len(t.rules)
  BY DEF Chains
<1> QED
  BY <1>2, <1>3, <1>4, <1>5 DEF Laid, Webs

-----------------------------------------------------------------------------
(* The kernel.                                                               *)

\* What a step of g may do to the tables, beside keeping what it has of them.
Handles(g) ==
  /\ Kernel(g)'
  /\ \A f \in Families : Proper(table'[f])
  /\ ~host.ip6tables => table'["v6"] = NoTable
  /\ table' # table => at[g] \in Installing \cup {"unredirect"}
  /\ ~Redirects(g) /\ ~Redirects(g)' =>
       \A f \in Families : Gone(table[f], faults) => Gone(table'[f], faults')
  /\ Redirects(g) /\ ~Redirects(g)' =>
       at'[g] = "killed" \/ \A f \in Families : Gone(table'[f], faults')

Idle == Places \ (Installing \cup {"unredirect"})

\* What the steps of the kernel need of the types; what faults excuse before a step
\* they excuse after it.
LEMMA Later ==
  ASSUME LifeTyped, NEW g \in Guards, Moves(g)
  PROVE  /\ at \in [Guards -> Places] /\ job \in [Guards -> Jobs] /\ table \in [Families -> Chains]
         /\ cleanup \in [Guards -> Cleanups]
         /\ own \in [Guards -> [v6 : BOOLEAN, marked : BOOLEAN]]
         /\ failed \in [Guards -> Causes]
         /\ faults \in Nat /\ faults' \in Nat /\ (faults' = 0 => faults = 0)
         /\ opts' = opts /\ host' = host
         /\ opts[g].exempt \in SUBSET {"cidr", "typo"} /\ {} \in SUBSET {"cidr", "typo"}
         /\ \A t : /\ Gone(t, faults) => Gone(t, faults')
                   /\ \A cmds : Removes(t, cmds, faults) => Removes(t, cmds, faults')
                   /\ \A cmds, e : Builds(t, cmds, e, faults) => Builds(t, cmds, e, faults')
<1>1. faults \in Nat /\ faults' \in Nat /\ faults <= faults' /\ opts' = opts /\ host' = host
  BY DEF Moves, LifeTyped
<1>2. opts[g].exempt \in SUBSET {"cidr", "typo"}
  BY OptsTyped DEF Invocations
<1>3. \A t : /\ Gone(t, faults) => Gone(t, faults')
             /\ \A cmds : Removes(t, cmds, faults) => Removes(t, cmds, faults')
             /\ \A cmds, e : Builds(t, cmds, e, faults) => Builds(t, cmds, e, faults')
  <2>1. PICK n \in Nat, m \in Nat : n = faults /\ m = faults' /\ n <= m
    BY <1>1
  <2> QED
    BY <2>1, LaterGone
<1>4. /\ at \in [Guards -> Places] /\ job \in [Guards -> Jobs] /\ table \in [Families -> Chains]
      /\ cleanup \in [Guards -> Cleanups]
      /\ own \in [Guards -> [v6 : BOOLEAN, marked : BOOLEAN]]
      /\ failed \in [Guards -> Causes]
  BY DEF LifeTyped
<1>5. faults' = 0 => faults = 0
  BY <1>1
<1>6. {} \in SUBSET {"cidr", "typo"}
  OBVIOUS
<1> QED
  BY <1>1, <1>2, <1>3, <1>4, <1>5, <1>6

\* A step that leaves the tables alone, to where nothing hangs on them.
LEMMA IdleKeepsKernel ==
  ASSUME LifeTyped, KernelInv, NEW g \in Guards, Moves(g), table' = table,
         at'[g] \in Idle, ~Redirects(g)', Redirects(g) => at'[g] = "killed"
  PROVE  Handles(g)
<1>1. at'[g] \notin Installing \cup {"unredirect"}
  BY DEF Idle
<1>2. at'[g] \in Up \cup {"publish", "cleanup", "unredirect"} /\ Redirects(g)' => FALSE
  OBVIOUS
<1>3. Kernel(g)'
  BY <1>1, <1>2 DEF Kernel, Installing, Redirects
<1> QED
  BY <1>3, Later DEF Handles, KernelInv

\* A step that leaves g where it is.
LEMMA StillKeepsKernel ==
  ASSUME LifeTyped, KernelInv, NEW g \in Guards, Moves(g),
         UNCHANGED <<table, at, job, cleanup, own, failed>>
  PROVE  Handles(g)
<1>1. Kernel(g)
  BY DEF KernelInv
<1>2. Redirects(g)' <=> Redirects(g)
  BY DEF Redirects
<1>3. Kernel(g)'
  BY <1>1, <1>2, Later DEF Kernel, Undoing, Holds6
<1> QED
  BY <1>2, <1>3, Later DEF Handles, KernelInv

\* A step of a guard that is up, or of one that begins to stop.
LEMMA UpKeepsKernel ==
  ASSUME LifeTyped, KernelInv, NEW g \in Guards, Moves(g),
         UNCHANGED <<table, cleanup, own>>, at[g] \in Up \cup {"publish"},
         at'[g] \in Up \cup {"publish", "cleanup"}
  PROVE  Handles(g)
<1>1. Kernel(g)
  BY DEF KernelInv
<1>2. Redirects(g)' <=> Redirects(g)
  BY DEF Redirects, Up
<1>3. at'[g] \notin Installing \cup {"unredirect"}
  BY DEF Up, Installing
<1>4. Redirects(g) => Holds6(g)' /\ own'[g].marked
  BY <1>1, Later DEF Kernel, Holds6
<1>5. Redirects(g) => Laid(table'["v4"]) /\ (host'.routable6 => Laid(table'["v6"]))
  BY <1>1, Later DEF Kernel
<1>6. Kernel(g)'
  BY <1>2, <1>3, <1>4, <1>5 DEF Kernel, Installing
<1> QED
  BY <1>2, <1>6, Later DEF Handles, KernelInv

\* The steps that touch no table, and leave their guard where it handles none.
LEMMA StepIdle ==
  ASSUME LifeTyped, KernelInv, NEW g \in Guards, Moves(g), Stacked(g), Stacked(g)',
         \/ Launch(g) \/ Pull(g) \/ WriteCA(g) \/ Listen(g) \/ BindHTTP(g) \/ BindTLS(g)
         \/ WriteAnchor(g) \/ Refresh(g) \/ Rebuild(g) \/ Shutdown(g) \/ RemoveCA(g)
         \/ Unpublish(g) \/ (Kill(g) /\ at[g] \notin Dead)
  PROVE  Handles(g)
<1>1. /\ at \in [Guards -> Places] /\ cleanup \in [Guards -> Cleanups] /\ failed \in [Guards -> Causes]
      /\ opts' = opts
  BY DEF LifeTyped, Moves
<1> DEFINE Ok ==
      /\ table' = table /\ at'[g] \in Idle /\ ~Redirects(g)' /\ (Redirects(g) => at'[g] = "killed")
<1>Launch. ASSUME Launch(g) PROVE Ok
  BY <1>1, Contents, <1>Launch DEF Redirects, Idle, Places, Installing, Covering, Up,
     Stacked, Launch, Go, machine, process
<1>Pull. ASSUME Pull(g) PROVE Ok
  BY <1>1, Contents, <1>Pull DEF Redirects, Idle, Places, Installing, Covering, Up,
     Stacked, Pull, Go, machine, process
<1>WriteCA. ASSUME WriteCA(g) PROVE Ok
  BY <1>1, Contents, <1>WriteCA DEF Redirects, Idle, Places, Installing, Covering, Up,
     Stacked, WriteCA, Go, Fault, Works, machine, process
<1>Listen. ASSUME Listen(g) PROVE Ok
  BY <1>1, Contents, <1>Listen DEF Redirects, Idle, Places, Installing, Covering, Up,
     Stacked, Listen, Go, machine, process
<1>BindHTTP. ASSUME BindHTTP(g) PROVE Ok
  BY <1>1, Contents, <1>BindHTTP DEF Redirects, Idle, Places, Installing, Covering,
     Up, Stacked, BindHTTP, Go, Fail, machine, process
<1>BindTLS. ASSUME BindTLS(g) PROVE Ok
  BY <1>1, Contents, <1>BindTLS DEF Redirects, Idle, Places, Installing, Covering, Up,
     Stacked, BindTLS, Go, Fail, AfterTrust, machine, process
<1>WriteAnchor. ASSUME WriteAnchor(g) PROVE Ok
  BY <1>1, Contents, <1>WriteAnchor DEF Redirects, Idle, Places, Installing, Covering,
     Up, Stacked, WriteAnchor, Go, Fail, machine, process
<1>Refresh. ASSUME Refresh(g) PROVE Ok
  <2>1. at[g] = "refresh" /\ cleanup[g] = <<"listeners">> /\ table' = table
    BY <1>Refresh DEF Refresh, Stacked
  <2>2. \/ /\ at'[g] \in {"mark", "publish"} /\ failed' = failed
           /\ cleanup'[g] = Append(cleanup[g], "trust")
        \/ /\ at'[g] = "cleanup" /\ failed'[g] = "fault" /\ cleanup' = cleanup
    BY <1>1, <1>Refresh DEF Refresh, Go, Fail, AfterTrust
  <2>3. at'[g] \in {"mark", "publish", "cleanup"} /\ ~Contains(cleanup'[g], "redirect")
    BY <2>1, <2>2, Pushed, Contents
  <2>4. ~Redirects(g) /\ ~Redirects(g)'
    BY <2>1, <2>3 DEF Redirects, Up
  <2>5. at'[g] \in Idle
    BY <2>3 DEF Idle, Places, Installing
  <2> QED
    BY <2>1, <2>2, <2>4, <2>5
<1>Rebuild. ASSUME Rebuild(g) PROVE Ok
  BY <1>1, Contents, <1>Rebuild DEF Redirects, Idle, Places, Installing, Covering, Up,
     Stacked, Rebuild, Go, machine, process
<1>Shutdown. ASSUME Shutdown(g) PROVE Ok
  BY <1>1, Contents, <1>Shutdown DEF Redirects, Idle, Places, Installing, Covering,
     Up, Stacked, Shutdown, Go, machine, process
<1>RemoveCA. ASSUME RemoveCA(g) PROVE Ok
  BY <1>1, Contents, <1>RemoveCA DEF Redirects, Idle, Places, Installing, Covering,
     Up, Stacked, RemoveCA, Go, machine, process
<1>Unpublish. ASSUME Unpublish(g) PROVE Ok
  BY <1>1, Contents, <1>Unpublish DEF Redirects, Idle, Places, Installing, Covering,
     Up, Stacked, Unpublish, Go, machine, process
<1>Kill. ASSUME Kill(g) PROVE Ok
  BY <1>1, Contents, <1>Kill DEF Redirects, Idle, Places, Installing, Covering, Up,
     Stacked, Kill, Die, machine, process
<1> QED
  BY IdleKeepsKernel, <1>Launch, <1>Pull, <1>WriteCA, <1>Listen, <1>BindHTTP,
     <1>BindTLS,
     <1>WriteAnchor, <1>Refresh, <1>Rebuild, <1>Shutdown, <1>RemoveCA, <1>Unpublish, <1>Kill


\* The steps of a guard that is up.
LEMMA StepUp ==
  ASSUME LifeTyped, KernelInv, NEW g \in Guards, Moves(g),
         Publish(g) \/ Notify(g) \/ StartChild(g) \/ Signal(g) \/ ChildEnds(g)
  PROVE  Handles(g)
<1>1. at \in [Guards -> Places] /\ failed \in [Guards -> Causes]
  BY DEF LifeTyped
<1> DEFINE Ok ==
      /\ UNCHANGED <<table, cleanup, own>> /\ at[g] \in Up \cup {"publish"}
      /\ at'[g] \in Up \cup {"publish", "cleanup"} /\ failed'[g] \in {failed[g], "fault"}
<1>2. ASSUME Publish(g) PROVE Ok
  BY <1>1, <1>2 DEF Publish, Go, Fail, Up
<1>3. ASSUME Notify(g) \/ StartChild(g) \/ Signal(g) \/ ChildEnds(g) PROVE Ok
  BY <1>1, <1>3 DEF Notify, StartChild, Signal, ChildEnds, Go, Up, machine
<1> QED
  BY <1>2, <1>3, UpKeepsKernel

\* The steps of a parent that waits for its detached guard.
LEMMA StepOfParent ==
  ASSUME LifeTyped, KernelInv, NEW g \in Guards, Moves(g),
         ParentClears(g) \/ ParentSees(g) \/ ParentGivesUp(g)
  PROVE  Handles(g)
<1>1. CASE ParentClears(g) \/ ParentSees(g)
  BY <1>1, StillKeepsKernel DEF ParentClears, ParentSees, machine, process
<1>2. CASE ParentGivesUp(g)
  <2>1. UNCHANGED <<table, job, cleanup, own, failed>>
    BY <1>2 DEF ParentGivesUp
  <2>2. CASE at[g] \in Dead
    <3>1. at' = at
      BY <1>2, <2>2 DEF ParentGivesUp, Die, LifeTyped
    <3> QED
      BY <2>1, <3>1, StillKeepsKernel
  <2>3. CASE at[g] \notin Dead
    <3>1. at'[g] = "killed"
      BY <1>2, <2>3 DEF ParentGivesUp, Die, LifeTyped
    <3>2. at'[g] \in Idle /\ ~Redirects(g)'
      BY <3>1 DEF Idle, Places, Installing, Redirects, Up
    <3> QED
      BY <2>1, <3>1, <3>2, IdleKeepsKernel
  <2> QED
    BY <2>2, <2>3
<1> QED
  BY <1>1, <1>2

\* Marking the sockets, and the removal that an installation begins with.
LEMMA StepMark ==
  ASSUME LifeTyped, KernelInv, NEW g \in Guards, Moves(g), Mark(g)
  PROVE  Handles(g)
<1>1. /\ at[g] = "mark" /\ at'[g] = "clear" /\ job'[g].cmds = Removal /\ job'[g].family = "v4"
      /\ UNCHANGED <<table, failed>> /\ own'[g].marked
  BY JobsTyped, JobGiven, Later DEF Mark, Go, Job, machine
<1>2. ~Redirects(g) /\ ~Redirects(g)'
  BY <1>1 DEF Redirects, Up
<1>3. Undoing(g)'
  BY <1>1 DEF Undoing, Removes
<1>4. Kernel(g)'
  BY <1>1, <1>2, <1>3 DEF Kernel, Up
<1> QED
  BY <1>1, <1>2, <1>4, Later DEF Handles, KernelInv

\* Running the cleanups, up to the removal of the redirect.
LEMMA StepOfCleanup ==
  ASSUME LifeTyped, KernelInv, NEW g \in Guards, Moves(g), Stacked(g), Cleanup(g)
  PROVE  Handles(g)
<1>1. /\ at[g] = "cleanup" /\ cleanup'[g] = Front(cleanup[g])
      /\ UNCHANGED <<table, failed, own, opts, host>>
  BY Later DEF Cleanup
<1>2. \/ cleanup[g] = <<"listeners">> \/ cleanup[g] = <<"listeners", "trust">>
      \/ cleanup[g] = <<"listeners", "redirect">>
      \/ cleanup[g] = <<"listeners", "trust", "redirect">>
  BY <1>1, Pushed DEF Cleanup, Stacked, Base, Whole
<1>3. CASE StopListeners(g) \/ Untrust(g)
  <2>1. cleanup[g] \in {<<"listeners">>, <<"listeners", "trust">>}
    BY <1>2, <1>3, Popped DEF StopListeners, Untrust, Latest
  <2>2. at'[g] \in {"cleanup", "rebuild"}
    BY <1>1, <1>3, Later DEF StopListeners, Untrust, Go
  <2>3. ~Redirects(g) /\ ~Redirects(g)'
    BY <1>1, <2>1, <2>2, Popped, Contents DEF Redirects, Up
  <2>4. at'[g] \in Idle
    BY <2>2 DEF Idle, Places, Installing
  <2> QED
    BY <1>1, <2>3, <2>4, IdleKeepsKernel
<1>4. CASE Unredirect(g)
  <2>1. cleanup[g] \in {<<"listeners", "redirect">>, <<"listeners", "trust", "redirect">>}
    BY <1>2, <1>4, Popped DEF Unredirect, Latest
  <2>2. Redirects(g)
    BY <1>1, <2>1, Contents DEF Redirects
  <2>3. at'[g] = "unredirect" /\ job'[g].cmds = Removal /\ job'[g].family = "v4"
    BY <1>1, <1>4, JobsTyped, JobGiven, Later DEF Unredirect, Go, Job
  <2>4. Kernel(g)
    BY DEF KernelInv
  <2>5. Holds6(g) /\ own[g].marked
    BY <1>1, <2>2, <2>4 DEF Kernel
  <2>6. Holds6(g)' /\ own'[g].marked
    BY <1>1, <2>5, Later DEF Holds6
  <2>7. Undoing(g)' /\ Redirects(g)'
    BY <2>3 DEF Undoing, Removes, Redirects
  <2>8. Kernel(g)'
    BY <2>3, <2>6, <2>7 DEF Kernel, Up
  <2> QED
    BY <1>1, <2>2, <2>7, <2>8, Later DEF Handles, KernelInv
<1> QED
  BY <1>3, <1>4 DEF Cleanup

\* The end of the removal of the redirect.
LEMMA StepUnredirected ==
  ASSUME LifeTyped, KernelInv, NEW g \in Guards, Moves(g), Stacked(g), Unredirected(g)
  PROVE  Handles(g)
<1>1. /\ at[g] = "unredirect" /\ job[g].cmds = <<>>
      /\ UNCHANGED <<table, failed, own, cleanup>>
  BY DEF Unredirected, machine
<1>2. /\ Redirects(g) /\ Kernel(g) /\ Undoing(g)
      /\ job[g].family = "v6" => Gone(table["v4"], faults)
  BY <1>1 DEF KernelInv, Kernel, Redirects
<1>3. Gone(table[job[g].family], faults)
  BY <1>1, <1>2, RemovesDone DEF Undoing
<1>4. Holds6(g) /\ own[g].marked
  BY <1>1, <1>2 DEF Kernel
<1>5. Holds6(g)' /\ own'[g].marked
  BY <1>1, <1>4, Later DEF Holds6
<1>6. CASE job[g].family = "v4"
  <2>1. at' = at /\ job'[g].cmds = Removal /\ job'[g].family = "v6"
    BY <1>6, JobsTyped, JobGiven, Later DEF Unredirected, Job, Families
  <2>2. Undoing(g)' /\ Redirects(g)' /\ Gone(table'["v4"], faults')
    BY <1>1, <1>3, <1>6, <2>1, Later DEF Undoing, Removes, Redirects
  <2>3. Kernel(g)'
    BY <1>1, <1>5, <2>1, <2>2 DEF Kernel, Up
  <2> QED
    BY <1>1, <1>2, <2>2, <2>3, Later DEF Handles, KernelInv
<1>7. CASE job[g].family # "v4"
  <2>1. job[g].family = "v6" /\ at'[g] = "cleanup"
    BY <1>1, <1>7, Later DEF Unredirected, Go, Jobs, Families
  <2>2. \A f \in Families : Gone(table'[f], faults')
    BY <1>1, <1>2, <1>3, <2>1, Later DEF Families
  <2>3. ~Redirects(g)'
    <3>1. cleanup'[g] = Base(g)
      BY <1>1 DEF Stacked, Covering
    <3> QED
      BY <2>1, <3>1, Contents DEF Redirects, Up, Base
  <2>4. Kernel(g)'
    BY <1>5, <2>1, <2>3 DEF Kernel, Up
  <2> QED
    BY <1>1, <1>2, <2>2, <2>3, <2>4, Later DEF Handles, KernelInv
<1> QED
  BY <1>6, <1>7

\* One command of a removal.
LEMMA StepRemoving ==
  ASSUME LifeTyped, KernelInv, NEW g \in Guards, Moves(g), Iptables(g), at[g] # "install"
  PROVE  Handles(g)
<1>1. PICK f, cmds, cmd, t :
        /\ f = job[g].family /\ cmds = job[g].cmds /\ cmd = Head(cmds) /\ t = table[f]
  OBVIOUS
<1>2. /\ at[g] \in {"clear", "undo", "close", "unredirect"} /\ cmds # <<>>
      /\ at' = at /\ UNCHANGED <<failed, own, cleanup, opts, host>>
      /\ \/ /\ Accepts(t, cmd) /\ ~(f = "v6" /\ ~host.ip6tables) /\ faults' = faults
            /\ table' = [table EXCEPT ![f] = After(t, cmd)]
            /\ IF cmd = "-D" THEN job' = job ELSE Job(g, f, Tail(cmds))
         \/ /\ ~Accepts(t, cmd) \/ (f = "v6" /\ ~host.ip6tables)
            /\ faults' = faults /\ table' = table /\ Job(g, f, Tail(cmds))
         \/ faults' = faults + 1 /\ table' = table /\ Job(g, f, Tail(cmds))
  BY <1>1, Later DEF Iptables, Installing, Removing, Works, Fault
<1>3. /\ f \in Families /\ cmds \in Seq(Commands) /\ t \in Chains /\ Proper(t)
      /\ Tail(cmds) \in Seq(Commands)
  BY <1>1, <1>2, JobsTyped, Later DEF Jobs, KernelInv
<1>4. Kernel(g) /\ Removes(t, cmds, faults)
  BY <1>1, <1>2 DEF KernelInv, Kernel, Undoing
<1>5. PICK n \in Nat : n = faults
  BY Later
<1>6. /\ cmd \in {"-D", "-F", "-X"}
      /\ Accepts(t, cmd) =>
           /\ Proper(After(t, cmd))
           /\ Removes(After(t, cmd), IF cmd = "-D" THEN cmds ELSE Tail(cmds), faults)
           /\ Gone(t, faults) => Gone(After(t, cmd), faults)
      /\ ~Accepts(t, cmd) => Removes(t, Tail(cmds), faults)
      /\ Removes(t, Tail(cmds), faults + 1)
  BY <1>1, <1>2, <1>3, <1>4, <1>5, RemovesStep
<1>7. f = "v6" /\ ~host.ip6tables => ~Accepts(t, cmd)
  <2>1. ASSUME f = "v6", ~host.ip6tables PROVE t = NoTable
    BY <1>1, <2>1 DEF KernelInv
  <2>2. ~Accepts(NoTable, "-D") /\ ~Accepts(NoTable, "-F") /\ ~Accepts(NoTable, "-X")
    BY DEF Accepts, NoTable
  <2> QED
    BY <1>6, <2>1, <2>2
<1>8. /\ job'[g].family = f
      /\ \A k \in Families \ {f} : table'[k] = table[k]
      /\ Proper(table'[f]) /\ Removes(table'[f], job'[g].cmds, faults')
      /\ Gone(table[f], faults) => Gone(table'[f], faults')
  <2>1. CASE /\ Accepts(t, cmd) /\ ~(f = "v6" /\ ~host.ip6tables) /\ faults' = faults
             /\ table' = [table EXCEPT ![f] = After(t, cmd)]
             /\ IF cmd = "-D" THEN job' = job ELSE Job(g, f, Tail(cmds))
    <3>1. job'[g].family = f /\ job'[g].cmds = IF cmd = "-D" THEN cmds ELSE Tail(cmds)
      BY <1>1, <1>3, <2>1, JobGiven, Later
    <3>2. table'[f] = After(t, cmd) /\ \A k \in Families \ {f} : table'[k] = table[k]
      BY <1>3, <2>1, Later
    <3> QED
      BY <1>1, <1>6, <2>1, <3>1, <3>2
  <2>2. CASE ~Accepts(t, cmd) /\ faults' = faults /\ table' = table /\ Job(g, f, Tail(cmds))
    <3>1. job'[g].family = f /\ job'[g].cmds = Tail(cmds)
      BY <1>3, <2>2, JobGiven, Later
    <3> QED
      BY <1>1, <1>3, <1>6, <2>2, <3>1
  <2>3. CASE faults' = faults + 1 /\ table' = table /\ Job(g, f, Tail(cmds))
    <3>1. job'[g].family = f /\ job'[g].cmds = Tail(cmds)
      BY <1>3, <2>3, JobGiven, Later
    <3> QED
      BY <1>1, <1>3, <1>6, <2>3, <3>1, Later
  <2> QED
    BY <1>2, <1>7, <2>1, <2>2, <2>3
<1>9. \A k \in Families : Gone(table[k], faults) => Gone(table'[k], faults')
  BY <1>8, Later
<1>10. \A k \in Families : Proper(table'[k])
  BY <1>8 DEF KernelInv
<1>11. ~host.ip6tables => table'["v6"] = NoTable
  <2>1. CASE f = "v6"
    BY <1>2, <1>7, <2>1 DEF KernelInv
  <2>2. CASE f # "v6"
    BY <1>8, <2>2 DEF KernelInv, Families
  <2> QED
    BY <2>1, <2>2
<1>12. Redirects(g)' <=> Redirects(g)
  BY <1>2 DEF Redirects
<1>13. Undoing(g)'
  BY <1>8 DEF Undoing
<1>14. f = "v6" => table'["v4"] = table["v4"]
  BY <1>8 DEF Families
<1>15. Holds6(g) => Holds6(g)'
  BY <1>2, <1>9 DEF Holds6, Families
<1>16. CASE at[g] = "clear"
  <2>1. f = "v6" => Gone(table'["v4"], faults')
    BY <1>1, <1>4, <1>9, <1>16 DEF Kernel, Families
  <2>2. Kernel(g)'
    BY <1>2, <1>4, <1>8, <1>12, <1>13, <1>16, <2>1 DEF Kernel, Up
  <2> QED
    BY <1>9, <1>10, <1>11, <1>12, <1>16, <2>2 DEF Handles, Installing
<1>17. CASE at[g] = "unredirect"
  <2>1. Redirects(g)
    BY <1>17 DEF Redirects
  <2>2. f = "v6" => Gone(table'["v4"], faults')
    BY <1>1, <1>4, <1>9, <1>17 DEF Kernel, Families
  <2>3. Holds6(g)' /\ own'[g].marked
    BY <1>2, <1>4, <1>15, <1>17, <2>1 DEF Kernel
  <2>4. Kernel(g)'
    BY <1>2, <1>8, <1>13, <1>17, <2>2, <2>3 DEF Kernel, Up
  <2> QED
    BY <1>10, <1>11, <1>12, <1>17, <2>1, <2>4 DEF Handles, Installing
<1>18. CASE at[g] \in {"undo", "close"}
  <2>1. Redirects(g)
    BY <1>18 DEF Redirects
  <2>2. IF f = "v4" THEN Gone(table'["v6"], faults')
        ELSE Laid(table'["v4"]) /\ own'[g].v6 /\ at'[g] # "close"
    BY <1>1, <1>2, <1>3, <1>4, <1>9, <1>14, <1>18 DEF Kernel, Families
  <2>3. own'[g].marked
    BY <1>2, <1>4, <2>1 DEF Kernel
  <2>4. Kernel(g)'
    BY <1>2, <1>8, <1>13, <1>18, <2>2, <2>3 DEF Kernel, Up
  <2> QED
    BY <1>10, <1>11, <1>12, <1>18, <2>1, <2>4 DEF Handles, Installing
<1> QED
  BY <1>2, <1>16, <1>17, <1>18

\* One command of an installation.
LEMMA StepInstalling ==
  ASSUME LifeTyped, KernelInv, NEW g \in Guards, Moves(g), Iptables(g), at[g] = "install"
  PROVE  Handles(g)
<1>1. PICK f, cmds, cmd, t, e :
        /\ f = job[g].family /\ cmds = job[g].cmds /\ cmd = Head(cmds) /\ t = table[f]
        /\ e = IF f = "v4" THEN opts[g].exempt ELSE {}
  OBVIOUS
<1>2. /\ cmds # <<>> /\ UNCHANGED <<own, cleanup, opts, host>>
      /\ \/ /\ Accepts(t, cmd) /\ ~(f = "v6" /\ ~host.ip6tables) /\ faults' = faults
            /\ table' = [table EXCEPT ![f] = After(t, cmd)]
            /\ IF cmd = "-D" THEN job' = job ELSE Job(g, f, Tail(cmds))
            /\ at' = at /\ failed' = failed
         \/ /\ table' = table /\ at'[g] = "undo"
            /\ Job(g, f, IF cmd = "-N" THEN <<>> ELSE Removal)
            /\ \/ failed'[g] = "fault"
               \/ ~Accepts(t, cmd) /\ faults' = faults
               \/ f = "v6"
  BY <1>1, Later DEF Iptables, Go, Works
<1>3. /\ f \in Families /\ cmds \in Seq(Commands) /\ t \in Chains /\ Proper(t)
      /\ Tail(cmds) \in Seq(Commands) /\ e \in SUBSET {"cidr", "typo"}
  BY <1>1, <1>2, JobsTyped, Later DEF Jobs, KernelInv
<1>4. /\ Kernel(g) /\ Builds(t, cmds, e, faults) /\ Redirects(g)
      /\ IF f = "v4" THEN Gone(table["v6"], faults) ELSE Laid(table["v4"]) /\ own[g].v6
      /\ own[g].marked
  BY <1>1 DEF KernelInv, Kernel, Redirects
<1>5. PICK n \in Nat : n = faults
  BY Later
<1>6. /\ cmd # "-D" /\ (cmd = "-N" => Gone(t, faults)) /\ (faults = 0 => Accepts(t, cmd))
      /\ Accepts(t, cmd) => Proper(After(t, cmd)) /\ Builds(After(t, cmd), Tail(cmds), e, faults)
  BY <1>1, <1>2, <1>3, <1>4, <1>5, BuildsStep
<1>7. CASE /\ Accepts(t, cmd) /\ ~(f = "v6" /\ ~host.ip6tables) /\ faults' = faults
           /\ table' = [table EXCEPT ![f] = After(t, cmd)]
           /\ IF cmd = "-D" THEN job' = job ELSE Job(g, f, Tail(cmds))
           /\ at' = at /\ failed' = failed
  <2>1. job'[g].family = f /\ job'[g].cmds = Tail(cmds)
    BY <1>3, <1>6, <1>7, JobGiven, Later
  <2>2. table'[f] = After(t, cmd) /\ \A k \in Families \ {f} : table'[k] = table[k]
    BY <1>3, <1>7, Later
  <2>3. Builds(table'[f], job'[g].cmds, e, faults') /\ Proper(table'[f])
    BY <1>6, <1>7, <2>1, <2>2
  <2>4. Redirects(g)'
    BY <1>7 DEF Redirects
  <2>5. IF f = "v4" THEN Gone(table'["v6"], faults') ELSE Laid(table'["v4"]) /\ own'[g].v6
    BY <1>2, <1>3, <1>4, <1>7, <2>2 DEF Families
  <2>6. Kernel(g)'
    <3>1. Builds(table'[f], job'[g].cmds, IF f = "v4" THEN opts'[g].exempt ELSE {}, faults')
      BY <1>1, <1>2, <2>3
    <3> QED
      BY <1>2, <1>4, <1>7, <2>1, <2>5, <3>1 DEF Kernel, Up
  <2>7. \A k \in Families : Proper(table'[k])
    BY <2>2, <2>3 DEF KernelInv
  <2>8. ~host.ip6tables => table'["v6"] = NoTable
    BY <1>3, <1>7, <2>2 DEF KernelInv, Families
  <2> QED
    BY <1>4, <2>4, <2>6, <2>7, <2>8 DEF Handles, Installing
<1>8. CASE /\ table' = table /\ at'[g] = "undo"
           /\ Job(g, f, IF cmd = "-N" THEN <<>> ELSE Removal)
           /\ \/ failed'[g] = "fault"
              \/ ~Accepts(t, cmd) /\ faults' = faults
              \/ f = "v6"
  <2>1. job'[g].family = f /\ job'[g].cmds = IF cmd = "-N" THEN <<>> ELSE Removal
    BY <1>3, <1>8, JobsTyped, JobGiven, Later
  <2>2. Removes(table'[f], job'[g].cmds, faults')
    BY <1>1, <1>6, <1>8, <2>1, Later DEF Removes
  <2>3. IF f = "v4" THEN Gone(table'["v6"], faults') ELSE Laid(table'["v4"]) /\ own'[g].v6
    BY <1>2, <1>4, <1>8, Later
  <2>4. Redirects(g)' /\ Undoing(g)'
    BY <1>8, <2>1, <2>2 DEF Redirects, Undoing
  <2>5. Kernel(g)'
    BY <1>2, <1>4, <1>8, <2>1, <2>3, <2>4 DEF Kernel, Up
  <2> QED
    BY <1>4, <1>8, <2>4, <2>5 DEF Handles, KernelInv
<1> QED
  BY <1>2, <1>7, <1>8

\* Where installRedirect ends well: the redirect covers what it must.
LEMMA CoveredKeepsKernel ==
  ASSUME LifeTyped, KernelInv, NEW g \in Guards, Moves(g), Stacked(g), Covered(g), UNCHANGED <<table, own>>,
         at[g] \in {"install", "undo"}, Laid(table["v4"]), Holds6(g),
         host.routable6 => Laid(table["v6"])
  PROVE  Handles(g)
<1>1. /\ at'[g] = "publish" /\ failed'[g] = "" /\ cleanup'[g] = Append(Base(g), "redirect")
  BY Later DEF Covered, Go, Stacked, Covering, Installing
<1>2. Redirects(g) /\ Redirects(g)'
  BY <1>1, Pushed, Contents DEF Redirects, Base
<1>3. own'[g].marked /\ Holds6(g)'
  BY <1>2, Later DEF KernelInv, Kernel, Holds6
<1>4. Laid(table'["v4"]) /\ (host'.routable6 => Laid(table'["v6"]))
  BY Later
<1>5. Kernel(g)'
  BY <1>1, <1>3, <1>4 DEF Kernel, Up
<1> QED
  BY <1>2, <1>5, Later DEF Handles, KernelInv

\* Without IPv6, in one of its two cases.
LEMMA NoV6KeepsKernel ==
  ASSUME LifeTyped, KernelInv, NEW g \in Guards, Moves(g), Stacked(g), NoV6(g), UNCHANGED <<table, own>>,
         at[g] \in {"install", "undo"}, Laid(table["v4"]), Gone(table["v6"], faults)
  PROVE  Handles(g)
<1>1. CASE host.routable6
  <2>1. /\ at'[g] = "close" /\ failed'[g] = "v6" /\ job'[g].family = "v4"
        /\ job'[g].cmds = Removal
    BY <1>1, JobsTyped, JobGiven, Later DEF NoV6, Go, Families
  <2>2. Redirects(g) /\ Redirects(g)' /\ Undoing(g)'
    BY <2>1 DEF Redirects, Undoing, Removes
  <2>3. own'[g].marked
    BY <2>2 DEF KernelInv, Kernel
  <2>4. Kernel(g)'
    BY <2>1, <2>2, <2>3, Later DEF Kernel, Up
  <2> QED
    BY <2>2, <2>4, Later DEF Handles, KernelInv
<1>2. CASE ~host.routable6
  <2>1. Covered(g)
    BY <1>2 DEF NoV6
  <2> QED
    BY <1>2, <2>1, CoveredKeepsKernel DEF Holds6
<1> QED
  BY <1>1, <1>2

\* What installRedirect does between the commands of one family and the next.
LEMMA StepProceed ==
  ASSUME LifeTyped, KernelInv, NEW g \in Guards, Moves(g), Stacked(g), Stacked(g)', Proceed(g)
  PROVE  Handles(g)
<1>1. /\ at[g] \in Installing /\ job[g].cmds = <<>> /\ UNCHANGED <<table, own>>
      /\ job[g].family \in Families /\ cleanup[g] = Base(g)
  BY Later DEF Proceed, machine, Jobs, Stacked, Covering
<1>2. Kernel(g)
  BY DEF KernelInv
\* A guard that gives up has nothing left to undo.
<1>3. ASSUME at'[g] = "cleanup", cleanup' = cleanup,
             at[g] = "clear" \/ \A f \in Families : Gone(table[f], faults)
      PROVE  Handles(g)
  <2>1. ~Redirects(g)'
    BY <1>1, <1>3, Contents DEF Redirects, Up, Base
  <2>2. Kernel(g)'
    BY <1>3, <2>1 DEF Kernel, Up
  <2>3. at[g] = "clear" => ~Redirects(g)
    BY DEF Redirects, Up
  <2> QED
    BY <1>1, <1>3, <2>1, <2>2, <2>3, Later DEF Handles, KernelInv
<1>4. CASE at[g] = "clear" /\ job[g].family = "v4"
  <2>1. /\ at' = at /\ failed' = failed /\ job'[g].family = "v6" /\ job'[g].cmds = Removal
        /\ cleanup' = cleanup
    BY <1>4, JobsTyped, JobGiven, Later DEF Proceed, Families
  <2>2. Gone(table["v4"], faults) /\ own[g].marked
    BY <1>1, <1>2, <1>4, RemovesDone DEF Kernel, Undoing
  <2>3. ~Redirects(g) /\ ~Redirects(g)' /\ Undoing(g)'
    BY <1>4, <2>1 DEF Redirects, Undoing, Removes, Up
  <2>4. Kernel(g)'
    BY <1>1, <1>4, <2>1, <2>2, <2>3, Later DEF Kernel, Up
  <2> QED
    BY <1>1, <2>3, <2>4, Later DEF Handles, KernelInv
<1>5. CASE at[g] = "clear" /\ job[g].family = "v6"
  <2>1. Gone(table["v4"], faults) /\ Gone(table["v6"], faults) /\ own[g].marked
    BY <1>1, <1>2, <1>5, RemovesDone DEF Kernel, Undoing
  <2>2. CASE "typo" \in opts[g].exempt
    <3>1. at'[g] = "cleanup" /\ failed'[g] = "typo" /\ cleanup' = cleanup
      BY <1>5, <2>2, Later DEF Proceed, Fail, Go
    <3> QED
      BY <1>3, <1>5, <3>1
  <2>3. CASE "typo" \notin opts[g].exempt
    <3>1. /\ at'[g] = "install" /\ failed' = failed /\ job'[g].family = "v4"
          /\ job'[g].cmds = Creation(opts[g].exempt)
      BY <1>5, <2>3, OptsTyped, JobGiven, Later DEF Proceed, Go, Families
    <3>2. Builds(table["v4"], Creation(opts[g].exempt), opts[g].exempt, faults)
      BY <2>1, BuildsStart, Later
    <3>3. ~Redirects(g) /\ Redirects(g)'
      BY <1>5, <3>1 DEF Redirects, Up
    <3>4. Kernel(g)'
      <4>1. Builds(table'["v4"], job'[g].cmds, opts'[g].exempt, faults')
        BY <1>1, <3>1, <3>2, Later
      <4>2. Gone(table'["v6"], faults') /\ own'[g].marked
        BY <1>1, <2>1, Later
      <4> QED
        BY <1>5, <3>1, <4>1, <4>2, Later DEF Kernel, Up
    <3> QED
      BY <1>1, <3>3, <3>4, Later DEF Handles, KernelInv
  <2> QED
    BY <2>2, <2>3
<1>6. CASE at[g] = "install" /\ job[g].family = "v4"
  <2>1. Laid(table["v4"]) /\ Gone(table["v6"], faults) /\ Redirects(g) /\ own[g].marked
    <3>1. Builds(table["v4"], <<>>, opts[g].exempt, faults)
      BY <1>1, <1>2, <1>6 DEF Kernel
    <3>2. Laid(table["v4"])
      BY <3>1, BuildsDone, Later DEF Families
    <3> QED
      BY <1>2, <1>6, <3>2 DEF Kernel, Redirects
  <2>2. CASE own[g].v6
    <3>1. /\ at' = at /\ failed' = failed /\ job'[g].family = "v6"
          /\ job'[g].cmds = Creation({}) /\ cleanup' = cleanup
      BY <1>6, <2>2, OptsTyped, JobGiven, Later DEF Proceed, Families
    <3>2. Builds(table["v6"], Creation({}), {}, faults)
      BY <2>1, BuildsStart, Later
    <3>3. Redirects(g)'
      BY <1>6, <3>1 DEF Redirects
    <3>4. Kernel(g)'
      <4>1. Builds(table'["v6"], job'[g].cmds, {}, faults')
        BY <1>1, <3>1, <3>2, Later
      <4>2. Laid(table'["v4"]) /\ own'[g].v6 /\ own'[g].marked
        BY <1>1, <2>1, <2>2
      <4> QED
        BY <1>6, <3>1, <4>1, <4>2, Later DEF Kernel, Up
    <3> QED
      BY <1>1, <2>1, <3>3, <3>4, Later DEF Handles, KernelInv
  <2>3. CASE ~own[g].v6
    <3>1. NoV6(g)
      BY <1>6, <2>3 DEF Proceed
    <3> QED
      BY <1>1, <1>6, <2>1, <3>1, NoV6KeepsKernel
  <2> QED
    BY <2>2, <2>3
<1>7. CASE at[g] = "install" /\ job[g].family = "v6"
  <2>1. Laid(table["v4"]) /\ own[g].v6
    BY <1>2, <1>7 DEF Kernel
  <2>2. Laid(table["v6"])
    <3>1. Builds(table["v6"], <<>>, {}, faults)
      BY <1>1, <1>2, <1>7 DEF Kernel
    <3> QED
      BY <3>1, BuildsDone, Later DEF Families
  <2>3. Covered(g)
    BY <1>7 DEF Proceed
  <2> QED
    BY <1>1, <1>7, <2>1, <2>2, <2>3, CoveredKeepsKernel DEF Holds6
<1>8. CASE at[g] = "undo" /\ job[g].family = "v6"
  <2>1. Laid(table["v4"]) /\ Gone(table["v6"], faults)
    BY <1>1, <1>2, <1>8, RemovesDone DEF Kernel, Undoing
  <2>2. NoV6(g)
    BY <1>8 DEF Proceed
  <2> QED
    BY <1>1, <1>8, <2>1, <2>2, NoV6KeepsKernel
<1>9. CASE at[g] \in {"undo", "close"} /\ ~(at[g] = "undo" /\ job[g].family = "v6")
  <2>1. job[g].family = "v4"
    BY <1>1, <1>2, <1>9 DEF Kernel, Families
  <2>2. Gone(table["v4"], faults) /\ Gone(table["v6"], faults)
    BY <1>1, <1>2, <1>9, <2>1, RemovesDone DEF Kernel, Undoing
  <2>3. at'[g] = "cleanup" /\ failed'[g] = failed[g] /\ cleanup' = cleanup
    BY <1>9, <2>1, Later DEF Proceed, Fail, Go
  <2> QED
    BY <1>3, <2>1, <2>2, <2>3 DEF Families
<1> QED
  BY <1>1, <1>4, <1>5, <1>6, <1>7, <1>8, <1>9 DEF Installing, Families

\* What any step does to the tables.
LEMMA StepHandles ==
  ASSUME LifeTyped, KernelInv, NEW g \in Guards, Moves(g), Stacked(g), Stacked(g)',
         Rise(g) \/ Fall(g) \/ Outside(g)
  PROVE  Handles(g)
<1>1. Kill(g) => at[g] \notin Dead
  BY DEF Kill
<1> QED
  BY <1>1, StepIdle, StepUp, StepOfParent, StepMark, StepOfCleanup, StepUnredirected,
     StepRemoving, StepInstalling, StepProceed DEF Rise, Fall, Outside

\* A guard with something in the kernel answers for the transparent ports.
LEMMA RedirectorsListen ==
  ASSUME LifeTyped, NEW g \in Guards, Stacked(g), at[g] \in Installing \/ Redirects(g)
  PROVE  Listening(g) /\ at[g] # "tls"
<1>1. Base(g) # <<>>
  BY Contents DEF Base
<1>2. CASE at[g] \in Installing \cup {"unredirect"}
  BY <1>1, <1>2 DEF Stacked, Covering, Listening, Installing, Dead
<1>3. CASE at[g] \in Up \cup {"publish", "cleanup"} /\ Contains(cleanup[g], "redirect")
  <2>1. cleanup[g] # <<>>
    BY <1>3, Contents
  <2> QED
    BY <1>3, <2>1 DEF Listening, Up, Dead
<1> QED
  BY <1>2, <1>3 DEF Redirects, Installing

\* Every step keeps what the kernel holds.
LEMMA StepKernel ==
  ASSUME LifeTyped, \A h \in Guards : Stacked(h), Bound, KernelInv, NEW g \in Guards, Moves(g),
         Handles(g), at[g] = "killed" => at'[g] = "killed"
  PROVE  KernelInv'
<1>1. \A h \in Guards \ {g} :
        /\ at'[h] = at[h] /\ job'[h] = job[h] /\ cleanup'[h] = cleanup[h]
        /\ own'[h] = own[h] /\ failed'[h] = failed[h]
        /\ Redirects(h)' <=> Redirects(h)
  BY DEF Moves, Others, Redirects
<1>2. ASSUME NEW h \in Guards \ {g} PROVE Kernel(h)'
  <2>1. Kernel(h)
    BY DEF KernelInv
  <2>2. CASE table' = table
    <3>1. \A t : Gone(t, faults) => Gone(t, faults')
      BY Later
    <3>2. \A t, cmds : Removes(t, cmds, faults) => Removes(t, cmds, faults')
      BY Later
    <3>3. \A t, cmds, e : Builds(t, cmds, e, faults) => Builds(t, cmds, e, faults')
      BY Later
    <3>4. opts' = opts /\ host' = host /\ (faults' = 0 => faults = 0)
      BY Later
    <3>5. /\ at'[h] = at[h] /\ job'[h] = job[h] /\ cleanup'[h] = cleanup[h]
          /\ own'[h] = own[h] /\ failed'[h] = failed[h]
          /\ Redirects(h)' <=> Redirects(h)
      BY <1>1
    <3> QED
      BY <2>1, <2>2, <3>1, <3>2, <3>3, <3>4, <3>5 DEF Kernel, Undoing, Holds6
  <2>3. CASE table' # table
    <3>1. at[g] \in Installing \/ Redirects(g)
      BY <2>3 DEF Handles, Redirects
    <3>2. ~(at[h] \in Installing \/ Redirects(h))
      BY <3>1, RedirectorsListen, OneListens
    <3> QED
      BY <1>1, <2>1, <3>2, Later DEF Kernel, Installing, Redirects
  <2> QED
    BY <2>2, <2>3
<1>3. \A h \in Guards : Kernel(h)'
  BY <1>2 DEF Handles
<1>4. ASSUME NobodyKilled', \A h \in Guards : ~Redirects(h)'
      PROVE  Gone(table'["v4"], faults') /\ Gone(table'["v6"], faults')
  <2>1. NobodyKilled /\ at'[g] # "killed"
    BY <1>1, <1>4 DEF NobodyKilled
  <2>2. CASE Redirects(g)
    BY <1>4, <2>1, <2>2 DEF Handles, Families
  <2>3. CASE ~Redirects(g)
    <3>1. \A h \in Guards : ~Redirects(h)
      BY <1>1, <1>4, <2>3
    <3>2. Gone(table["v4"], faults) /\ Gone(table["v6"], faults)
      BY <2>1, <3>1 DEF KernelInv
    <3> QED
      BY <1>4, <2>3, <3>2 DEF Handles, Families
  <2> QED
    BY <2>2, <2>3
<1>5. host' = host
  BY Later
<1> QED
  BY <1>3, <1>4, <1>5 DEF KernelInv, Handles

-----------------------------------------------------------------------------
(* The invariant.                                                            *)

LifeInv ==
  /\ LifeTyped /\ \A g \in Guards : Stacked(g)
  /\ Bound /\ Trusting /\ KernelInv /\ StateInv

\* The invariant holds at first.
LEMMA InitInv == Init => LifeInv
<1> SUFFICES ASSUME Init PROVE LifeInv
  OBVIOUS
<1>0. /\ None \notin Guards /\ Earlier \notin Guards /\ None # Earlier
      /\ \A g \in Guards : at[g] = "off" /\ cleanup[g] = <<>> /\ failed[g] = "" /\ parent[g] = "none"
      /\ port = None /\ \A w \in Webs, f \in Families : web[w][f] = None
      /\ \A f \in Families : table[f] = NoTable
      /\ trusted = None /\ faults = 0
  BY LifecycleAssumption DEF Init
<1>f. PICK left \in {None, Earlier} : file = [ca |-> left, state |-> left, anchor |-> None]
  BY DEF Init
<1>1. LifeTyped
  <2>1. /\ at \in [Guards -> Places] /\ failed \in [Guards -> Causes] /\ parent \in [Guards -> Parents]
        /\ own \in [Guards -> [v6 : BOOLEAN, marked : BOOLEAN]]
    BY DEF Init, Places, Causes, Parents
  <2>2. cleanup \in [Guards -> Cleanups]
    BY StackTyped DEF Init
  <2>3. job \in [Guards -> Jobs]
    <3>1. [family |-> "v4", cmds |-> <<>>] \in Jobs
      BY JobsTyped DEF Jobs, Families
    <3> QED
      BY <3>1 DEF Init
  <2>4. table \in [Families -> Chains]
    <3>1. NoTable \in Chains
      BY DEF NoTable, Chains
    <3> QED
      BY <3>1 DEF Init
  <2>5. web \in [Webs -> [Families -> Holder]] /\ port \in Holder /\ trusted \in Holder
    BY DEF Init, Holder
  <2>6. file \in [ca : Anyone, state : Anyone, anchor : Holder]
    BY <1>f DEF Anyone, Holder
  <2>7. opts \in Machines /\ host \in Hosts /\ faults \in Nat /\ kills \in Nat
    BY DEF Init
  <2> QED
    BY <2>1, <2>2, <2>3, <2>4, <2>5, <2>6, <2>7 DEF LifeTyped
<1>2. \A g \in Guards : Stacked(g)
  BY <1>0 DEF Stacked, Covering, Installing, Up
<1>3. \A g \in Guards : ~Listening(g) /\ ~Trusts(g) /\ ~Redirects(g)
  BY <1>0 DEF Listening, Trusts, Redirects, Dead, Up
<1>4. Bound
  BY <1>0, <1>3 DEF Bound
<1>5. Trusting
  BY <1>0, <1>f, <1>3 DEF Trusting
<1>6. KernelInv
  <2>1. Gone(NoTable, 0) /\ Proper(NoTable)
    BY DEF Gone, Proper, Quiet, NoTable
  <2>2. \A g \in Guards : Kernel(g)
    BY <1>0, <1>3 DEF Kernel, Up
  <2> QED
    BY <1>0, <2>1, <2>2 DEF KernelInv, Families
<1>7. StateInv
  BY <1>0, <1>f DEF StateInv, ExecPlaces
<1> QED
  BY <1>1, <1>2, <1>4, <1>5, <1>6, <1>7 DEF LifeInv

\* Every step keeps the invariant.
LEMMA StepInv ==
  ASSUME LifeInv, NEW g \in Guards, Rise(g) \/ Fall(g) \/ Outside(g)
  PROVE  LifeInv'
<1>1. /\ LifeTyped /\ \A h \in Guards : Stacked(h)
      /\ Bound /\ Trusting /\ KernelInv /\ StateInv
  BY DEF LifeInv
<1>2. Moves(g)
  BY <1>1, StepMoves
<1>3. Stacked(g)'
  BY <1>1, <1>2, StepStacked
<1>4. \A h \in Guards : Stacked(h)'
  BY <1>1, <1>2, <1>3 DEF Moves, Others, Stacked, Base, Whole
<1>5. Bound'
  BY <1>1, <1>2, <1>3, StepBound
<1>6. Entrusts(g) /\ (at[g] = "killed" => at'[g] = "killed")
  BY <1>1, <1>2, <1>3, StepEntrusts
<1>7. Trusting'
  BY <1>1, <1>2, <1>6, StepTrusting
<1>8. Handles(g)
  BY <1>1, <1>2, <1>3, StepHandles
<1>9. KernelInv'
  BY <1>1, <1>2, <1>6, <1>8, StepKernel
<1>10. Publishes(g)
  BY <1>1, <1>2, StepPublishes DEF StateInv
<1>11. StateInv'
  BY <1>1, <1>2, <1>10, StepState
<1> QED
  BY <1>2, <1>4, <1>5, <1>7, <1>9, <1>11 DEF LifeInv, Moves

\* So does a stutter.
LEMMA SameInv ==
  ASSUME LifeInv, UNCHANGED vars
  PROVE  LifeInv'
<1>1. /\ UNCHANGED <<opts, host, port, web, table, file, trusted, at, job, cleanup>>
      /\ UNCHANGED <<own, failed, parent, faults, kills>>
  BY DEF vars, machine, process
<1>2. LifeTyped'
  BY <1>1 DEF LifeInv, LifeTyped
<1>3. \A g \in Guards : Stacked(g)'
  BY <1>1 DEF LifeInv, Stacked, Base, Whole
<1>4. Bound'
  BY <1>1 DEF LifeInv, Bound, Listening
<1>5. Trusting'
  BY <1>1 DEF LifeInv, Trusting, Trusts, NobodyKilled
<1>6. KernelInv'
  BY <1>1 DEF LifeInv, KernelInv, Kernel, Undoing, Holds6, Redirects, NobodyKilled
<1>7. StateInv'
  BY <1>1 DEF LifeInv, StateInv, Published
<1> QED
  BY <1>2, <1>3, <1>4, <1>5, <1>6, <1>7 DEF LifeInv

\* Who holds what of the machine, at every point of every guard's life.
THEOREM Invariance == Spec => []LifeInv
<1>1. LifeInv /\ [Next]_vars => LifeInv'
  BY StepInv, SameInv DEF Next
<1> QED
  BY InitInv, <1>1, PTL DEF Spec

-----------------------------------------------------------------------------
(* What follows for the machine.                                             *)

\* Where the walk of a chain ends.
LEMMA Walk ==
  ASSUME NEW t \in Chains
  PROVE  /\ \A names : Quiet(t) => ~Redirected(t, names)
         /\ \A w \in Webs : Laid(t) => Redirected(t, {w})
         /\ \A names : Proper(t) /\ "mark" \in names => ~Redirected(t, names)
<1> DEFINE hits(names) == {i \in DOMAIN t.rules : t.rules[i] \in names}
<1>1. t.rules \in Seq(Commands) /\ DOMAIN t.rules = 1..Len(t.rules) /\ Len(t.rules) \in Nat
  BY DEF Chains
<1>2. ASSUME NEW names, hits(names) # {}
      PROVE  Min(hits(names)) \in hits(names) /\ \A i \in hits(names) : Min(hits(names)) <= i
  <2>1. PICK H : H = hits(names)
    OBVIOUS
  <2>2. H \subseteq Nat /\ H # {}
    BY <1>1, <1>2, <2>1
  <2>3. \E i \in H : \A j \in H : i <= j
    BY <2>2, LeastExists
  <2>4. Min(H) \in H /\ \A j \in H : Min(H) <= j
    BY <2>3 DEF Min
  <2> QED
    BY <2>1, <2>4
<1>3. ASSUME NEW names, Quiet(t) PROVE ~Redirected(t, names)
  <2>1. CASE t.hooks = 0
    BY <2>1 DEF Redirected
  <2>2. CASE t.rules = <<>>
    <3>1. hits(names) = {}
      BY <1>1, <2>2
    <3> QED
      BY <3>1 DEF Redirected
  <2> QED
    BY <1>3, <2>1, <2>2 DEF Quiet
<1>4. ASSUME NEW w \in Webs, Laid(t) PROVE Redirected(t, {w})
  <2>1. t.hooks > 0 /\ hits({w}) # {}
    BY <1>4 DEF Laid
  <2>2. Min(hits({w})) \in hits({w})
    BY <1>2, <2>1
  <2>3. t.rules[Min(hits({w}))] \in {w}
    BY <2>2
  <2> QED
    BY <2>1, <2>3 DEF Redirected
<1>5. ASSUME NEW names, Proper(t), "mark" \in names, Redirected(t, names) PROVE FALSE
  <2>1. hits(names) # {} /\ t.rules[Min(hits(names))] \in Webs
    BY <1>5 DEF Redirected
  <2>2. PICK H : H = hits(names)
    OBVIOUS
  <2>3. H \subseteq 1..Len(t.rules)
    BY <1>1, <2>2
  <2>4. Min(H) \in H /\ \A i \in H : Min(H) <= i
    BY <1>2, <2>1, <2>2
  <2>5. PICK m : m = Min(H)
    OBVIOUS
  <2>6. m \in 1..Len(t.rules) /\ m \in H /\ \A i \in H : m <= i
    BY <2>3, <2>4, <2>5
  <2>7. t.rules # <<>> /\ 1 \in DOMAIN t.rules
    BY <1>1, <2>6
  <2>8. t.rules[1] = "mark" /\ 1 \in hits(names)
    BY <1>5, <2>7 DEF Proper
  <2>9. 1 \in H
    BY <2>2, <2>8
  <2>10. m = 1
    <3>1. m <= 1
      BY <2>6, <2>9
    <3> HIDE DEF hits
    <3> QED
      BY <1>1, <2>6, <3>1
  <2> QED
    BY <2>1, <2>2, <2>5, <2>8, <2>10 DEF Webs
<1> QED
  BY <1>3, <1>4, <1>5

\* With nobody killed and at most one fault, what is redirected is the work of a
\* guard that is there for it.
LEMMA Redirector ==
  ASSUME LifeInv, NobodyKilled, faults <= 1, NEW f \in Families, NEW names,
         Redirected(table[f], names)
  PROVE  \E g \in Guards :
           /\ Redirects(g) /\ own[g].marked
           /\ \A w \in Webs : web[w][f] = g
           /\ opts[g].installCA => trusted = g
<1>1. LifeTyped /\ Bound /\ Trusting /\ KernelInv /\ \A h \in Guards : Stacked(h)
  BY DEF LifeInv
<1>2. table[f] \in Chains /\ faults \in Nat
  BY <1>1 DEF LifeTyped
<1>3. ~Gone(table[f], faults)
  BY <1>2, Walk DEF Gone
<1>4. PICK g \in Guards : Redirects(g)
  BY <1>1, <1>3 DEF KernelInv, Families
<1>5. Kernel(g) /\ own[g].marked
  BY <1>1, <1>4 DEF KernelInv, Kernel
<1>6. Listening(g) /\ at[g] # "tls"
  BY <1>1, <1>4, RedirectorsListen
<1>7. f = "v6" => own[g].v6
  <2>1. ASSUME f = "v6" PROVE ~Gone(table["v6"], faults)
    BY <1>3, <2>1
  <2>2. CASE at[g] \in {"install", "undo", "close"}
    BY <1>5, <2>1, <2>2 DEF Kernel
  <2>3. CASE at[g] \notin {"install", "undo", "close"}
    <3>1. Holds6(g)
      BY <1>4, <1>5, <2>3 DEF Kernel, Redirects
    <3> QED
      BY <2>1, <3>1 DEF Holds6
  <2> QED
    BY <2>2, <2>3
<1>8. \A w \in Webs : web[w][f] = g
  BY <1>1, <1>6, <1>7 DEF Bound, Webs, Families
<1>9. ASSUME opts[g].installCA PROVE trusted = g
  <2>1. at[g] \notin Dead
    BY <1>4 DEF Redirects, Dead, Up
  <2>2. cleanup[g] = Base(g) \/ (cleanup[g] = Whole(g) /\ Contains(cleanup[g], "redirect"))
    <3>1. CASE at[g] \in Covering
      BY <1>1, <3>1 DEF Stacked
    <3>2. CASE at[g] \notin Covering
      <4>1. at[g] \in Up \cup {"publish", "cleanup"} /\ Contains(cleanup[g], "redirect")
        BY <1>4, <3>2 DEF Redirects, Covering, Installing
      <4>2. cleanup[g] \notin {<<>>, <<"listeners">>, Base(g)}
        BY <4>1, Contents DEF Base
      <4> QED
        BY <1>1, <4>1, <4>2 DEF Stacked
    <3> QED
      BY <3>1, <3>2
  <2>3. Contains(cleanup[g], "trust")
    BY <1>9, <2>2, Pushed, Contents DEF Base, Whole
  <2> QED
    BY <1>1, <2>1, <2>3 DEF Trusting, Trusts
<1> QED
  BY <1>4, <1>5, <1>8, <1>9

\* serve.go:198, 216: what is redirected arrives at a guard that answers on that
\* family's port and whose CA the system trusts.
THEOREM RedirectedIsAnswered == Spec => []RedirectLands
<1>1. ASSUME LifeInv, NobodyKilled, faults <= 1, NEW f \in Families, NEW w \in Webs,
             BuildRedirected(f, w)
      PROVE  web[w][f] # None /\ (opts[web[w][f]].installCA => trusted = web[w][f])
  <2>1. PICK g \in Guards : web[w][f] = g /\ (opts[g].installCA => trusted = g)
    BY <1>1, Redirector DEF BuildRedirected
  <2> QED
    BY <2>1, LifecycleAssumption
<1>2. LifeInv => RedirectLands
  BY <1>1 DEF RedirectLands
<1> QED
  BY <1>2, Invariance, PTL

\* redirect.go:56: once it marks its sockets a guard never proxies to itself; before,
\* it takes a killed guard or two commands that failed.
THEOREM NoGuardMeetsItself == Spec => []NoSelfLoop
<1>1. ASSUME LifeInv, NEW g \in Guards, NEW f \in Families, NEW w \in Webs,
             web[w][f] = g, OwnRedirected(g, f, w)
      PROVE  ~own[g].marked /\ (NobodyKilled => faults > 1)
  <2>1. PICK names : /\ names = IF own[g].marked THEN {"mark", w} ELSE {w}
                     /\ Redirected(table[f], names)
    BY <1>1 DEF OwnRedirected
  <2>2. table[f] \in Chains /\ Proper(table[f]) /\ faults \in Nat
    BY <1>1 DEF LifeInv, LifeTyped, KernelInv
  <2>3. ~own[g].marked
    BY <2>1, <2>2, Walk
  <2>4. ASSUME NobodyKilled, faults <= 1 PROVE FALSE
    <3>1. PICK h \in Guards : own[h].marked /\ web[w][f] = h
      BY <1>1, <2>1, <2>4, Redirector
    <3> QED
      BY <1>1, <2>3, <3>1
  <2> QED
    BY <2>2, <2>3, <2>4
<1>2. LifeInv => NoSelfLoop
  BY <1>1 DEF NoSelfLoop
<1> QED
  BY <1>2, Invariance, PTL

\* redirect_linux.go:108: a guard that is up covers every family traffic could
\* leave over, whatever failed and whoever was killed.
THEOREM EveryFamilyIsCovered == Spec => []NoFamilyUncovered
<1>1. ASSUME LifeInv, NEW g \in Guards, at[g] \in Up, opts[g].transparent, opts[g].redirect,
             NEW f \in Families, NEW w \in Webs, f = "v4" \/ host.routable6
      PROVE  BuildRedirected(f, w)
  <2>1. LifeTyped /\ Stacked(g) /\ Kernel(g)
    BY <1>1 DEF LifeInv, KernelInv
  <2>2. opts[g].cmd # "exec"
    BY <1>1, <2>1, OptsTyped DEF Invocations
  <2>3. cleanup[g] = Append(Base(g), "redirect")
    BY <1>1, <2>1, <2>2 DEF Stacked, Whole
  <2>4. Redirects(g)
    BY <1>1, <2>3, Pushed, Contents DEF Redirects, Base
  <2>5. Laid(table[f])
    BY <1>1, <2>1, <2>4 DEF Kernel, Families
  <2>6. table[f] \in Chains
    BY <2>1 DEF LifeTyped
  <2> QED
    BY <2>5, <2>6, Walk DEF BuildRedirected
<1>2. LifeInv => NoFamilyUncovered
  BY <1>1 DEF NoFamilyUncovered
<1> QED
  BY <1>2, Invariance, PTL

\* serve.go:115: when all guards have left in order, the machine is as it was.
THEOREM NothingIsLeft == Spec => []CleanExit
<1> SUFFICES ASSUME LifeInv, \A g \in Guards : at[g] \in {"off", "exited"}, faults = 0
             PROVE  /\ \A f \in Families : table[f] = NoTable
                    /\ file.anchor = None /\ trusted = None
                    /\ port = None /\ \A w \in Webs, f \in Families : web[w][f] = None
  <2>1. LifeInv => CleanExit
    BY DEF CleanExit
  <2> QED
    BY <2>1, Invariance, PTL
<1>1. LifeTyped /\ Bound /\ Trusting /\ KernelInv
  BY DEF LifeInv
<1>2. NobodyKilled /\ \A g \in Guards : ~Listening(g) /\ ~Trusts(g) /\ ~Redirects(g)
  BY DEF NobodyKilled, Listening, Trusts, Redirects, Dead, Up
<1>3. ASSUME NEW f \in Families PROVE table[f] = NoTable
  <2>1. table[f] \in Chains /\ Gone(table[f], 0) /\ Proper(table[f])
    BY <1>1, <1>2 DEF LifeTyped, KernelInv, Families
  <2> QED
    BY <2>1 DEF Chains, Gone, Proper, NoTable
<1>4. file.anchor \in Guards \cup {None} /\ trusted \in Guards \cup {None}
      /\ port \in Guards \cup {None}
      /\ \A w \in Webs, f \in Families : web[w][f] \in Guards \cup {None}
  BY <1>1 DEF LifeTyped, Holder
<1>5. file.anchor = None /\ trusted = None
  BY <1>1, <1>2, <1>4 DEF Trusting
<1>6. port = None
  BY <1>1, <1>4 DEF Bound, Portless, Dead
<1>7. \A w \in Webs, f \in Families : web[w][f] = None
  BY <1>1, <1>2, <1>4 DEF Bound
<1> QED
  BY <1>3, <1>5, <1>6, <1>7

\* redirect_linux.go:91: whatever killed guards left in the tables of either family,
\* every command of an installation is accepted.
THEOREM LeftoversAreHarmless == Spec => []LeftoversDoNotBlock
<1>1. ASSUME LifeInv, faults = 0, NEW g \in Guards, at[g] = "install", job[g].cmds # <<>>
      PROVE  Accepts(table[job[g].family], Head(job[g].cmds))
  <2>1. PICK f, cmds : f = job[g].family /\ cmds = job[g].cmds
    OBVIOUS
  <2>2. f \in Families /\ cmds \in Seq(Commands) /\ table[f] \in Chains /\ Proper(table[f])
    BY <1>1, <2>1 DEF LifeInv, LifeTyped, Jobs, KernelInv
  <2>3. PICK e : /\ e = IF f = "v4" THEN opts[g].exempt ELSE {}
                 /\ Builds(table[f], cmds, e, faults)
    BY <1>1, <2>1 DEF LifeInv, KernelInv, Kernel
  <2>4. e \in SUBSET {"cidr", "typo"}
    BY <1>1, <2>3, OptsTyped DEF LifeInv, Invocations
  <2>5. PICK n \in Nat : n = faults
    BY <1>1
  <2>6. n = 0 => Accepts(table[f], Head(cmds))
    BY <1>1, <2>1, <2>2, <2>3, <2>4, <2>5, BuildsStep
  <2> QED
    BY <1>1, <2>1, <2>5, <2>6
<1>2. LifeInv => LeftoversDoNotBlock
  BY <1>1 DEF LeftoversDoNotBlock
<1> QED
  BY <1>2, Invariance, PTL

\* serve.go:528: detach returns success only once its guard is up.
THEOREM SuccessMeansUp == Spec => []DetachMeansUp
<1>1. LifeInv => DetachMeansUp
  BY DEF LifeInv, StateInv, Published, DetachMeansUp
<1> QED
  BY <1>1, Invariance, PTL
=============================================================================
