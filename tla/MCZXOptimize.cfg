SPECIFICATION Spec
CONSTANTS
  Sessions <- MCSessions
  MaxUnfused = 2
INVARIANTS MeaningKept ReducedFully FlowGuarded MatchesFresh
PROPERTIES TrialsPayOrVanish OptimizeEnds
