SPECIFICATION FairSpec
CONSTANTS
  Configurations <- MCConfigurations
  Default <- MCDefault
  ValidUrls <- MCValidUrls
  Gemini = Gemini
  DashScope = DashScope
  Lan = Lan
  Limits = {2}
  MinBytes = 1
  Chunk = 2
  Pipe = 1
  QwenBytes = 1
  Keyrings <- MCKeyrings
  Environment = {}
  MaxChoices = 2
  MaxKeyChanges = 1
  MaxDeaths = 1
INVARIANTS TypeOK WholeRecording MicrophoneOff SettingsInForce KeyRequired OneRecognizer
PROPERTIES SettingsArrive SessionEnds
CHECK_DEADLOCK FALSE
