-------------------------- MODULE MCLeakProtection --------------------------
(***************************************************************************)
(* Machines for model checking LeakProtection.                             *)
(***************************************************************************)
EXTENDS LeakProtection

Machines == {<<"netsh", "iface">>, <<"nft", "link">>, <<"nft", "file">>,
             <<"iptables", "file">>, <<"pf", "iface">>}
=============================================================================
