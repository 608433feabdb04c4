SPECIFICATION Spec
CONSTANTS
  None = None
  BreakdownLimit = 8
  Commands <- MCCommands
  Earlier <- MCEarlier
  Questions <- MCQuestions
  PresetLength <- MCPresets
  PageLimit = 2
  MaxRetrievals = 1
PROPERTY TokensSavedIsCounter
