SPECIFICATION FairSpec
CONSTANTS
  SourceOrder <- OneSource
  OutputOrder <- BothOutputs
  Kind <- KindOf
  Hosts <- TwoHosts
  Answers <- TwoAnswers
  ContainerIds <- IdsUsed
  ContainerNames <- NamesUsed
  Ids <- Ids4
  NoProvenance = NoProvenance
  normalizeHostname <- SameHost
  normalizeAnswer <- SameAnswer
  Rank <- RankOf
  Qualify <- SameHost
  Faults = {"call", "lost", "disk", "crash"}
  Deployments <- Replaced
  OperatorRows <- NoRows
  OperatorEdits = {}
  ComesToRest = TRUE
  OperatorTimes <- EveryTime
PROPERTIES EventuallyPublished EventuallyCleaned
