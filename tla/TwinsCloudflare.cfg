SPECIFICATION Spec
CONSTANTS
  SourceOrder <- OneSource
  OutputOrder <- OnlyCloudflare
  Kind <- KindOf
  Hosts <- TwoHosts
  Answers <- TwoAnswers
  ContainerIds <- IdsUsed
  ContainerNames <- NamesUsed
  Ids <- Ids4
  NoProvenance = NoProvenance
  normalizeHostname <- SameHost
  normalizeAnswer <- SameAnswer
  Rank <- RankOf
  Qualify <- SameHost
  Faults = {}
  Deployments <- Twins
  OperatorRows <- NoRows
  OperatorEdits = {}
  ComesToRest = FALSE
  OperatorTimes <- BetweenPasses
PROPERTY DesiredNotDeleted
