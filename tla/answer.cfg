\* One answer, with every order of its threads' steps; the server may fall silent.
CONSTANTS
  Lines = {"content", "done", "no_delta", "bad_json"}
  MaxLines = 3
SPECIFICATION ServeSpec
INVARIANTS
  OneAtATime
  CompletedIsWhole
  CancelNotMissed
  EndRecorded
PROPERTIES
  AnswerEnds
CHECK_DEADLOCK FALSE
