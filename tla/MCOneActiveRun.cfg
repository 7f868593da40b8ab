SPECIFICATION ClientSpec
CONSTANTS
  Requests = {1, 2, 3}
  None     = 0
  MaxTodos = 2
  Habits  <- MCHabits
INVARIANT OneActiveRun
