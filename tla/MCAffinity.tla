----------------------------- MODULE MCAffinity -----------------------------
(* AffinityProtocol on small instances. *)
EXTENDS AffinityProtocol, TLC

Symmetry == Permutations(Procs) \cup Permutations(Hosts)

(* For progress: the CNI plugins of one host take turns (the IPAM lock     *)
(* file, cni-plugin/pkg/ipamplugin), and an operation that claims a block  *)
(* takes its address within EmptyBlockMinReclaimAge.                       *)
HostLocked == \A p, q \in Procs : p # q /\ host'[p] = host'[q] => host'[p] = NoHost

Prompt ==
  \A b \in Blocks : aged'[b] /\ ~aged[b] => \A p \in Procs : host[p] # block[b].aff

PromptSpec == Init /\ [][Next /\ HostLocked /\ Prompt]_vars /\ \A p \in Procs : WF_vars(Step(p))
=============================================================================
