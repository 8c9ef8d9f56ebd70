SPECIFICATION FairSpec
CONSTANTS
  welcome = welcome
  connect = connect
  build = build
  basics = basics
  projects = projects
  opened = opened
  demo = demo
  NoStep = NoStep
  NoPanel = NoPanel
  NoSession = NoSession
  Order <- MCOrder
  CourseOf <- MCCourseOf
  Prereq <- MCPrereq
  Requires <- MCRequires
  Tasks <- MCTasks
  Kind <- MCKind
  Authored <- MCAuthored
  LoopIds <- MCLoopIds
  MAX_HINT_TIER = 2
  MaxEvents = 4
INVARIANTS Consistent Durable PanelHonest
PROPERTIES ImplementsProgress SpinnerEnds
CHECK_DEADLOCK FALSE
