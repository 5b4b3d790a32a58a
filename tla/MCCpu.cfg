CONSTANTS
  Width = 12
  Top = 2048
  AmountWidth = 5
  Scenario <- MCScenario
SPECIFICATION CpuSpec
INVARIANTS PipelineFollowsPC SequentialContinues
PROPERTIES ImplementsRegisters ExceptionsReturn FlagsAreArithmetic ShiftsAreExact BlocksInOrder
