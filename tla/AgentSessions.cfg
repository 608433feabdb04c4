CONSTANTS
  None = None
  Plans <- MCPlans
  Leftovers <- MCLeftovers
  Replies <- MCReplies
  AgentRuns <- MCAgentRuns
  Printed <- MCPrinted
  Probes <- MCProbes
  Unit = 2
  MaxRolls = 1
  Requests <- MCRequests
  Settings <- MCSettings
  MaxAttempts = 2
  Wrappers = {w1, w2}
  Entries <- MCEntries
  Excluded = {"config.toml", "litellm.config.toml"}
  Keys = {"model", "verbosity"}
  Launches <- MCLaunches
  Homes <- MCHomes
  Fallback <- MCFallback
  Allowed <- MCAllowed
  MaxLaunches = 3
  MaxWrites = 2
SPECIFICATION Spec
SYMMETRY MCSymmetry
INVARIANTS SuccessIsEarned VerdictsAreTrue ProviderSeesWhatWasAsked HomeIsWhole
CHECK_DEADLOCK FALSE
