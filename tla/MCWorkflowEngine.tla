-------------------------- MODULE MCWorkflowEngine --------------------------
(***************************************************************************)
(* The workflow engine on a small instance: a maker, a member who holds    *)
(* every capability, one reviewer and one approver; one-, two- and         *)
(* three-step chains; two calls in flight.                                 *)
(***************************************************************************)
EXTENDS WorkflowEngine, TLC

CONSTANTS maker, admin, reviewer, review, approve, call1, call2

MCStaff == {maker, admin, reviewer}
MCCapability == {review, approve}
MCHolds == maker :> {review, approve} @@ admin :> {review, approve}
              @@ reviewer :> {review}
MCShapes == {<<approve>>, <<review, approve>>, <<review, review, approve>>}
MCCalls == {call1, call2}
CallSymmetry == Permutations(MCCalls)
=============================================================================
