SPECIFICATION FairSpec
CONSTANTS
  HandleRange <- TwoElements
  Word = 256
  Programs <- AllPrograms
  Backend = "anti_flows"
INVARIANTS
  TypeOK
  ExclusiveAccess
  OneProducer
  SharedOut
  ReducesEverything
PROPERTIES
  InProgramOrder
  EveryTaskEnds
