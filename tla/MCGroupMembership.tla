-------------------------- MODULE MCGroupMembership --------------------------
(***************************************************************************)
(* A group just created; one that two transfers have left with two owners; *)
(* one with an administrator and one open period, or two, one of them with *)
(* transactions.                                                           *)
(***************************************************************************)
EXTENDS GroupMembership

CONSTANTS a, b, c, p1, p2

Row(u, role) == [user |-> u, role |-> role]

NoPeriods == [p \in Periods |-> "none"]

MCGroups ==
  [bindings : { << Row(a, "owner") >>, << Row(a, "owner"), Row(b, "owner") >> },
   periods : {NoPeriods}] \cup
  [bindings : { << Row(a, "owner"), Row(b, "admin") >> },
   periods : { [NoPeriods EXCEPT ![p1] = "open"], [NoPeriods EXCEPT ![p1] = "open", ![p2] = "busy"] }]
=============================================================================
