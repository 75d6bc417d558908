CONSTANTS
  MaxLost <- MCMaxLost
SPECIFICATION FairSpec
INVARIANTS TypeOK SecretNeedsAttestation NoEnclaveLeft ZeroMeansAttested
PROPERTIES ImplementsSecretRelease KeyStateClosed FirstRoundEnds
CHECK_DEADLOCK FALSE
