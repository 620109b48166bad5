---------------------------- MODULE MCLifecycle ----------------------------
(* Two guards on one machine: two that detach in transparent mode, one beside *)
(* an exec, one in the foreground around a command beside a plain serve.      *)
EXTENDS Lifecycle

CONSTANTS g1, g2

Exec == [cmd |-> "exec", local |-> FALSE, detach |-> FALSE, transparent |-> FALSE,
         installCA |-> FALSE, redirect |-> FALSE, exempt |-> {}]
Serve == [Exec EXCEPT !.cmd = "serve"]
Transparent == [Serve EXCEPT !.transparent = TRUE, !.installCA = TRUE, !.redirect = TRUE]
Action == [Transparent EXCEPT !.detach = TRUE]

Two(a, b) == (g1 :> a) @@ (g2 :> b)
MCGuards == {g1, g2}

MCMachines ==
  {Two(Transparent, [Transparent EXCEPT !.exempt = {"cidr"}, !.local = TRUE]),
   Two(Action, Exec),
   Two([Transparent EXCEPT !.cmd = "wrap", !.installCA = FALSE], Serve),
   Two([Transparent EXCEPT !.exempt = {"typo"}], [Serve EXCEPT !.transparent = TRUE])}
MCTwoExecs == {Two(Exec, Exec)}

Host(loopback6, routable6, ip6tables) ==
  [loopback6 |-> loopback6, routable6 |-> routable6, ip6tables |-> ip6tables]
MCHosts == {Host(TRUE, TRUE, TRUE), Host(TRUE, TRUE, FALSE), Host(TRUE, FALSE, FALSE),
            Host(FALSE, TRUE, TRUE), Host(FALSE, FALSE, TRUE)}
=============================================================================
