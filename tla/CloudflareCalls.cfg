SPECIFICATION FairSpec
CONSTANTS
  SourceOrder <- OneSource
  OutputOrder <- OneOutput
  Kind <- KindOf
  Hosts <- HostsUsed
  Answers <- AnswersUsed
  ContainerIds <- NoContainers
  ContainerNames <- NoContainers
  Ids <- TwoIds
  NoProvenance = 0
  normalizeHostname <- SameHost
  normalizeAnswer <- SameAnswer
  Rank <- RankOf
  Qualify <- InZone
  Faults = {"call", "lost"}
  Wanted <- WantedUsed
  Texts <- TextsUsed
INVARIANT TypeOK
PROPERTIES AtomicUndisturbed ReplyHolds OthersUntouched CallsEnd
