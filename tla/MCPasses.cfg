SPECIFICATION Spec
CONSTANTS
  kSmemLimitBytes = 166912
  Programs <- MCPrograms
  CommandLines <- MCCommandLines
INVARIANTS MeaningKept TrafficAccounted ReportedKernelsHaveSources ReportConsistent
PROPERTY PipelineEnds
