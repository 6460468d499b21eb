SPECIFICATION Spec
CONSTANTS
  SourceOrder <- TwoSources
  OutputOrder <- BothOutputs
  Kind <- KindOf
  Hosts <- TwoHosts
  Answers <- TwoAnswers
  ContainerIds <- IdsUsed
  ContainerNames <- NamesUsed
  Ids <- Ids4
  NoProvenance = NoProvenance
  normalizeHostname <- SameHost
  normalizeAnswer <- SameAnswer
  Rank <- RankOf
  Qualify <- SameHost
  Faults = {"call", "stop"}
  Deployments <- Everything
  OperatorRows <- NoRows
  OperatorEdits = {}
  ComesToRest = FALSE
  OperatorTimes <- EveryTime
INVARIANTS TypeOK RowsAccounted Settled CloudflareExact OneOwner NoDuplicateRows
PROPERTIES DesiredNotDeleted
