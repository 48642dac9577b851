---------------------------- MODULE MCProposal -----------------------------
(* Instances of Proposal for TLC.                                          *)
EXTENDS Proposal, TLC

CONSTANTS p1, p2, o1, s1, s2

\* A group that changes o1 in the way op and is bound to no workflow.
Changing(op) == [op |-> [o \in Objects |-> IF o = o1 THEN op ELSE "none"],
                 refs |-> {}, plans |-> {}, flow |-> FALSE]

\* A group that creates new work: in the plan o1, naming the task o1, or under a workflow.
Creating(rs, ps, fl) == [op |-> [o \in Objects |-> "none"], refs |-> rs, plans |-> ps, flow |-> fl]

\* Groups that rival each other over one object.
RivalContents == {Changing("update"), Changing("activate")}

\* A group that can be applied once, and one that can be applied again.
RevisedContents == {Changing("cancel"), Creating({o1}, {o1}, TRUE)}

SeatSymmetry == Permutations(Seats)
=============================================================================
