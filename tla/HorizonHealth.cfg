SPECIFICATION CheckingSpec
CONSTANTS
  NumProviders = 2
  NumTasks = 1
  Threshold = 1
PROPERTIES
  HealthChecksContinue
CHECK_DEADLOCK FALSE
