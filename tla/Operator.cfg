SPECIFICATION Spec
CONSTANTS
  SourceOrder <- OneSource
  OutputOrder <- BothOutputs
  Kind <- KindOf
  Hosts <- TwoSpellings
  Answers <- TwoAnswers
  ContainerIds <- IdsUsed
  ContainerNames <- NamesUsed
  Ids <- Ids4
  NoProvenance = NoProvenance
  normalizeHostname <- Folded
  normalizeAnswer <- SameAnswer
  Rank <- RankOf
  Qualify <- SameHost
  Faults = {"call"}
  Deployments <- Replaced
  OperatorRows <- ManualRows
  OperatorEdits = {"add", "edit", "remove"}
  ComesToRest = FALSE
  OperatorTimes <- BetweenPasses
INVARIANTS InMemoryMatchesStore
PROPERTIES RemovedWithProof OperatorRowsKept OtherOutputsKept HostServed
