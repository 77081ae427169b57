--------------------------- MODULE WorkflowStates ---------------------------
(***************************************************************************)
(* The states of a project workflow and the table of the moves the service *)
(* allows between them.  NoState stands for a project that has no workflow *)
(* row yet.                                                                *)
(***************************************************************************)

States == {"gathering_context", "ready_to_build", "building",
           "awaiting_feedback", "completed", "cancelled", "failed"}

NoState == "no_workflow"

\* The dictionary of the same name: the targets reachable from each state.
ALLOWED_WORKFLOW_TRANSITIONS ==
  [s \in States |->
    CASE s = "gathering_context" ->
           {"ready_to_build", "building", "cancelled", "failed"}
      [] s = "ready_to_build" ->
           {"gathering_context", "building", "cancelled", "failed"}
      [] s = "building" ->
           {"awaiting_feedback", "cancelled", "failed"}
      [] s = "awaiting_feedback" ->
           {"gathering_context", "building", "completed", "cancelled", "failed"}
      [] s = "failed" ->
           {"gathering_context", "ready_to_build", "building", "cancelled"}
      [] OTHER -> {}]

\* The states from which ProjectBuildService.initiate may start a build.
Buildable == {"gathering_context", "ready_to_build"}

Final == {"completed", "cancelled"}
=============================================================================
