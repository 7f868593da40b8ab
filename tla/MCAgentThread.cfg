SPECIFICATION Spec
CONSTANTS
  Skills = {s1, s2}
  Tools <- MCTools
  ApprovalOn = {"delete"}
  AsksItself = {"open"}
  Contents <- MCContents
  NoFile = NoFile
  NotLoaded = NotLoaded
  MaxTries = 3
INVARIANTS
  TypeOK
  OpenedByTheRouter
  NothingUnapproved
  AnswersAreHeard
CHECK_DEADLOCK FALSE
