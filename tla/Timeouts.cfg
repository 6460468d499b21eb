SPECIFICATION FairSpec
CONSTANTS
  Texts <- TextsUsed
  Empty = ""
  Trim <- Trimmed
  Fold <- Folded
  ParseDuration <- DurationOf
  EnvRef <- RefOf
  Names <- NamesUsed
  DefaultTimeout = 3
  Schemes <- SchemesUsed
  Dialable <- DialableUsed
  Addresses <- AddressesUsed
  Domains <- DomainsUsed
  Files <- FilesUsed
  Envs <- EnvsUsed
  MaxAttempt = 2
PROPERTY DeadlineRetried
CHECK_DEADLOCK FALSE
