SPECIFICATION Spec
CONSTANTS
  Calls = {c1, c2}
  SwarmTimeout = 3
  Texts = {"a", "b"}
  RowLimit = 2
  MaxRows = 3
  MaxRepairs = 2
  MaxItems = 2
  MaxCancels = 2
  NativeRows <- SomeRows
  Count = 2
  Names = {"n1", "n2", "n3"}
  Seats = 3
  BatchSize = 2
  MaxWait = 1
INVARIANTS CaptureIsSound JudgementIsSound WorkflowIsSound CallsAreBounded
PROPERTIES CancelledGoesNoFurther EverythingAnswers
CHECK_DEADLOCK FALSE
