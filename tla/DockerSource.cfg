SPECIFICATION Spec
CONSTANTS
  Texts <- TextsUsed
  folded <- FoldedUsed
  normalizeName <- NormalUsed
  Dotted <- DottedUsed
  Domains <- DomainsUsed
  Under <- UnderUsed
  Hash <- HashUsed
  Wild <- WildUsed
  ContainerIds <- OneContainer
  Names <- NamesUsed
  LabelSets <- LabelsUsed
  Settings <- SettingsUsed
  MaxStream = 2
INVARIANTS TypeOK ChangesHinted FilterAgrees NothingBlank HostsOnce
