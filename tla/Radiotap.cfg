\* Every field of one and two words, antennas in six; packets that end early.
SPECIFICATION Spec
CONSTANTS
  Packets <- MCPackets
INVARIANTS
  TypeOK
  ReadsLaidOut
  NothingMissed
  SlotsMatch
  DecisionsSeen
  RefusedForCause
  TemplateIsRead
PROPERTIES
  ParserAdvances
CHECK_DEADLOCK FALSE
