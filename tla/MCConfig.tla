------------------------------ MODULE MCConfig ------------------------------
(* A model of Config for TLC. *)
EXTENDS Config

CONSTANTS a, b, c

Member(dn, indirect, conns) == [dn |-> dn, indirect |-> indirect, conns |-> conns]

(* Two groups that share member a and meet in b, which the second one only
   knows from a connection; the system volume's members are indirect. *)
TwoGroups ==
    << <<Member(a, FALSE, <<b>>), Member(b, FALSE, <<a>>)>>,
       <<Member(a, TRUE, <<b, c>>)>> >>
=============================================================================
