--------------------------- MODULE MCToolGateway ---------------------------
(***************************************************************************)
(* ToolGateway for TLC: one server in the configuration file, two tools of *)
(* which the policy denies one, and two configurations of which one does   *)
(* not connect.                                                            *)
(***************************************************************************)
EXTENDS ToolGateway

CONSTANTS s1, t1, t2, c1, c2

InFile == [s \in Server |-> c1]

DenyOne == {<<s1, t2>>}

=============================================================================
