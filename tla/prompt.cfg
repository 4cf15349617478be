SPECIFICATION Spec
CONSTANTS
  Mode = {"llm", "mock"}
  PromptVersion = {"v1", "v2"}
  Name = {10, 400, 891}
  Profile = {1500}
  Question = {1000, 1001}
  Speech <- FoundSpeech
  Body <- FoundBody
  History <- Turns
INVARIANTS
  KeptIsBest
  PromptFits
\* A prompt is built once.
CHECK_DEADLOCK FALSE
