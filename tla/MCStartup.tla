------------------------------ MODULE MCStartup ------------------------------
(* Command lines with every flag that decides something, two keys and two      *)
(* contents; one file of each kind is enough, for nothing looks into it.       *)
EXTENDS Startup

CONSTANTS fleet, other, now

Plain == [cmd |-> "exec", usable |-> TRUE, console |-> TRUE, pubkey |-> NoKey,
          policyFile |-> "none", supplyFile |-> "none", noSupplyChain |-> FALSE,
          detach |-> FALSE]

Commands ==
  {[Plain EXCEPT !.cmd = c, !.pubkey = k, !.console = b, !.usable = u] :
     c \in {"claim", "whoami", "policy", "exec", "serve"}, k \in {NoKey, fleet},
     b \in BOOLEAN, u \in BOOLEAN}
Files ==
  {[Plain EXCEPT !.policyFile = p, !.supplyFile = s, !.noSupplyChain = b] :
     p \in {"none", "unreadable", now}, s \in {"none", "unreadable", now}, b \in BOOLEAN}
Background == {[o EXCEPT !.cmd = "serve", !.detach = TRUE] : o \in Commands \cup Files}
MCInvocations == Commands \cup Files \cup Background
=============================================================================
