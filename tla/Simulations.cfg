SPECIFICATION SimSpec
CONSTANTS
  None = None
  BreakdownLimit = 8
  Commands <- MCCommands
  Earlier <- MCEarlier
  Questions <- MCQuestions
  PresetLength <- MCPresets
  PageLimit = 2
  MaxRetrievals = 1
  Simulate <- MCSimulate
  SimHandlers = {h1, h2}
  MaxFailures = 1
SYMMETRY MCSymmetry
INVARIANTS TypeOK AnswersHoldTogether ViewsAgree WalkMissesNothing
INVARIANTS RunsAreIdempotent RunsCoverTheirBasis ResultsAddUp
PROPERTY MetricsAreCounters
