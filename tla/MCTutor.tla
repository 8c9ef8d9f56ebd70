------------------------------- MODULE MCTutor -------------------------------
(* A course of one step, and one behind it whose second step requires the first; *)
(* two steps use the same task id, as the courses do.                            *)
EXTENDS Tutor, TLC

CONSTANTS welcome, connect, build, basics, projects, opened, demo

MCOrder == <<welcome, connect, build>>
MCCourseOf == (welcome :> basics) @@ (connect :> projects) @@ (build :> projects)
MCPrereq == (basics :> {}) @@ (projects :> {basics})
MCRequires == (welcome :> {}) @@ (connect :> {}) @@ (build :> {connect})
MCTasks == (welcome :> <<opened>>) @@ (connect :> <<demo>>) @@ (build :> <<demo>>)
MCKind == (<<welcome, opened>> :> "question") @@ (<<connect, demo>> :> "slow")
          @@ (<<build, demo>> :> "file")
MCAuthored == {<<build, demo>>}
MCLoopIds == 1..2
=============================================================================
