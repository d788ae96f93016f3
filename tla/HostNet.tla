------------------------------ MODULE HostNet ------------------------------
(***************************************************************************)
(* The network set-up of one microVM, as restore-motivation/src/ops/netns  *)
(* makes it with ip and iptables: the stages, what each command needs and  *)
(* leaves on the host, and the commands that take it away again.           *)
(*                                                                         *)
(* A command is known by what it does: `made' is the set of stages whose   *)
(* effect exists for one instance.  Host-side commands act on the network  *)
(* namespace their caller is in, `ip netns' commands on the one they name. *)
(***************************************************************************)
EXTENDS Integers, Sequences

STAGES == <<"netns_add", "tap_add", "tap_addr", "tap_up", "veth_add",
            "ns_veth_addr", "ns_veth_up", "host_veth_addr", "host_veth_up",
            "route_add", "ns_nat", "host_nat", "forward_accept">>

\* What prepare_minimal of vm.rs runs instead.
MINIMAL_STAGES == SubSeq(STAGES, 1, 4)

(***************************************************************************)
(* build_instance: the third and second octet of an instance's /30.  The   *)
(* addresses repeat after AddressCount instances; names do not, they hold  *)
(* the whole sequence number.                                              *)
(***************************************************************************)
AddressCount == 64 * 256

octets(seq) == <<64 + ((seq \div 256) % 64), seq % 256>>

-----------------------------------------------------------------------------
\* What is gone when one end of the veth pair is.
VethStages == {"veth_add", "ns_veth_addr", "ns_veth_up", "host_veth_addr",
               "host_veth_up", "route_add"}

(***************************************************************************)
(* Without what it needs a command exits with an error and changes         *)
(* nothing.  A gateway can be reached once the namespace's end is up.      *)
(***************************************************************************)
Needs(stage) ==
    CASE stage \in {"netns_add", "host_nat"} -> {}
      [] stage \in {"tap_add", "veth_add", "ns_nat", "forward_accept"} ->
            {"netns_add"}
      [] stage \in {"tap_addr", "tap_up"} -> {"tap_add"}
      [] stage \in {"ns_veth_addr", "ns_veth_up", "host_veth_addr",
                    "host_veth_up"} -> {"veth_add"}
      [] stage = "route_add" -> {"ns_veth_addr", "ns_veth_up"}

CommandWorks(made, stage) == Needs(stage) \subseteq made /\ stage \notin made

-----------------------------------------------------------------------------
\* Faulty variant: the namespace goes, the rule on the host stays.
cleanup_keeps_nat == <<"link_del", "netns_del">>

cleanup == <<"delete_host_nat", "link_del", "netns_del">>

\* With the namespace goes all that is in it, and with its end the veth pair.
After(made, command) ==
    CASE command = "delete_host_nat" -> made \ {"host_nat"}
      [] command = "link_del" -> made \ VethStages
      [] command = "netns_del" -> made \cap {"host_nat"}
=============================================================================
