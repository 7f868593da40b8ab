SPECIFICATION ClientSpec
CONSTANTS
  Requests = {1, 2, 3}
  None     = 0
  MaxTodos = 2
  Habits  <- MCHabits
INVARIANTS
  TypeOK
  PatientOneDriver
  PatientAnswersReachTheDriver
  NoLeakedSession
PROPERTIES
  PatientThread
  NoLostUpdate
  Answered
