------------------------------ MODULE MCDHCPv4 ------------------------------
(* Small instances of DHCPv4 for TLC. *)
EXTENDS DHCPv4

Symmetry == Permutations(Macs)

AnyHost == Hosts \cup {NoHost}
NothingAnswers == {{}}
FirstMayAnswer == {{}, {0}}
=============================================================================
