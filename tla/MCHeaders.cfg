CONSTANTS
  Thousand = 4
  Sixty = 3
  MaxInterval = 4
  Grain = 2
  LongestDelay = 100
  Bases <- MCBases
  Reserved = {"user-agent"}
  Secure = {"authorization"}
  Asked <- MCAsked
  Presets <- MCPresets
  PresetTimeouts <- MCPresetTimeouts
  Replies <- MCReplies
  None = None
SPECIFICATION Spec
INVARIANT TypeOK
INVARIANT MetadataArrives
INVARIANT TimeoutIsKept
PROPERTY SecretOnlyWithWarning
CHECK_DEADLOCK FALSE
