SPECIFICATION Spec
CONSTANTS
  MaxCaptures = 2
INVARIANTS
  MicrophoneReleased
  FieldsApart
PROPERTIES
  StoppedIsOver
CHECK_DEADLOCK FALSE
