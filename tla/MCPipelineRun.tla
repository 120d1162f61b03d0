--------------------------- MODULE MCPipelineRun ---------------------------
(* Instances of PipelineRun for TLC: the desk workflow (script, review,
   published), and the same with a worker stage between review and
   publication. *)
EXTENDS PipelineRun, TLC

CONSTANTS script, review, render, published

DeskSuccess == script :> {review}
DeskApproved == review :> {published}
LongSuccess == script :> {review} @@ render :> {published}
LongApproved == review :> {render}
NoRejected == review :> {}

(* Bound: the dead-letter buttons are used before an approval only.  What is
   said of a run without clicks, and what an approval has to come before, does
   not need the states that are cut off. *)
ButtonsBeforeApproval == clicks > 0 => Approvals = {}
=============================================================================
