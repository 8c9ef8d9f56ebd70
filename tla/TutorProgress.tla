--------------------------- MODULE TutorProgress ---------------------------
(***************************************************************************)
(* What the tutor promises about a student's progress, whatever the panel, *)
(* the checks under way and the navigation do: a task is passed or reopened*)
(* only by the verdict of a check that was begun for it, everything else a *)
(* student may do leaves the passes alone, a reset takes them all, and a   *)
(* restart resumes with what was written last.  Module Tutor implements it.*)
(***************************************************************************)
CONSTANT Keys       \* the tasks of all steps

VARIABLES
  up,               \* the extension host runs
  passed,           \* the tasks that are passed
  saved,            \* the tasks that are passed in the session file
  dirty,            \* the last write of the session file failed
  checking          \* the tasks whose check has been begun and not judged

vars == <<up, passed, saved, dirty, checking>>

Init == up = FALSE /\ passed = {} /\ saved = {} /\ dirty = FALSE /\ checking = {}

(* The writes of a turn take what the session says by then; where one of them fails, the *)
(* file has it or is left as it was.                                                     *)
Write == /\ saved' \in {saved, passed'} /\ dirty' \in BOOLEAN
         /\ ~dirty' => saved' = passed'

Begin(k) == /\ up /\ k \notin checking
            /\ checking' = checking \cup {k}
            /\ UNCHANGED <<up, passed>>
            /\ Write \/ UNCHANGED <<saved, dirty>>

Judge(k) == /\ up /\ k \in checking
            /\ checking' = checking \ {k}
            /\ passed' \in {passed \cup {k}, passed \ {k}}
            /\ UNCHANGED up
            /\ Write

Keep == up /\ UNCHANGED <<up, passed, checking>> /\ Write

Reset == up /\ passed' = {} /\ UNCHANGED <<up, checking>> /\ Write

(* The extension host goes, perhaps with a failed verdict that is in the file and no more *)
(* than that, and comes back with what the file says.                                     *)
Crash == /\ up /\ ~up' /\ passed' = {} /\ checking' = {}
         /\ \/ UNCHANGED <<saved, dirty>>
            \/ ~dirty' /\ \E k \in checking : saved' = passed \ {k}
Resume == ~up /\ up' /\ passed' = saved /\ UNCHANGED <<saved, checking>> /\ dirty' \in BOOLEAN

Next == \/ \E k \in Keys : Begin(k) \/ Judge(k)
        \/ Keep \/ Reset \/ Crash \/ Resume

Spec == Init /\ [][Next]_vars
=============================================================================
