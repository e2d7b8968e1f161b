SPECIFICATION Spec
CONSTANTS
  Configurations <- MCConfigurations
  Default <- MCDefault
  ValidUrls <- MCValidUrls
  Gemini = Gemini
  DashScope = DashScope
  Lan = Lan
  Limits = {2}
  MinBytes = 1
  Chunk = 2
  Pipe = 1
  QwenBytes = 1
  Keyrings <- MCKeyrings
  Environment = {}
  MaxChoices = 1
  MaxKeyChanges = 0
  MaxDeaths = 1
INVARIANTS ConfiguredService
CHECK_DEADLOCK FALSE
