---------------------------- MODULE MCSandboxes ----------------------------
(* Hosts and calls of the instance of Sandboxes in MCServices. *)
EXTENDS Naturals

Host == [up |-> TRUE, gvisor |-> FALSE, configured |-> "runc", allowRunc |-> TRUE,
         runtimes |-> {"runc"}, default |-> "runc"]
Gvisor == [Host EXCEPT !.gvisor = TRUE, !.allowRunc = FALSE, !.runtimes = {"runc", "runsc"}]
Hosts == {Host, Gvisor,
          [Host EXCEPT !.allowRunc = FALSE], [Host EXCEPT !.up = FALSE],
          [Host EXCEPT !.gvisor = TRUE], [Gvisor EXCEPT !.gvisor = FALSE, !.default = "runsc"]}

Poc(a, own, retain) ==
    [by |-> a, kind |-> "poc", own |-> own, external |-> FALSE, retain |-> retain, weak |-> FALSE]
FindingPoc(a, expected, weak) ==
    [by |-> a, kind |-> "finding", own |-> TRUE, external |-> FALSE, retain |-> FALSE, weak |-> weak,
     expected |-> expected, mark |-> TRUE]
Service(a, external, retain) ==
    [by |-> a, kind |-> "service", own |-> FALSE, external |-> external, retain |-> retain, weak |-> FALSE]
Stack == [services |-> 1, named |-> "none", safe |-> TRUE, image |-> TRUE, command |-> TRUE, port |-> TRUE]
Compose(a, stack) ==
    [by |-> a, kind |-> "compose", own |-> FALSE, external |-> FALSE, retain |-> TRUE, weak |-> FALSE,
     stack |-> stack]
Cleanup(a) == [by |-> a, kind |-> "cleanup"]

\* Services that share a network, with the same and with another policy; a PoC against a
\* service; a cleanup among them; two PoCs of a finding; every host.
Scenes ==
    {[host |-> Host, calls |-> s] : s \in {
        <<Service("a", FALSE, FALSE), Service("b", FALSE, FALSE)>>,
        <<Service("a", FALSE, FALSE), Service("b", TRUE, FALSE)>>,
        <<Service("a", FALSE, TRUE), Poc("b", FALSE, FALSE)>>,
        <<Service("a", FALSE, TRUE), Cleanup("b"), Service("a", TRUE, FALSE)>>,
        <<Poc("a", TRUE, FALSE), Cleanup("b")>>,
        <<Poc("a", TRUE, TRUE), Compose("a", [Stack EXCEPT !.services = 2]), Compose("a", Stack)>>,
        <<FindingPoc("a", "1", FALSE), FindingPoc("b", "0", FALSE)>>}}
    \cup {[host |-> h, calls |-> <<FindingPoc("a", "0", weak)>>] : h \in Hosts, weak \in BOOLEAN}
=============================================================================
