SPECIFICATION Spec
CONSTANTS
    Context <- MCContext
    Setups <- MCSetups
    MaapIds <- MCMaapIds
    RetryNum = 2
INVARIANTS TypeOK ReservedBeforeStreaming StreamsBeforeDomains TakenBack
PROPERTIES PressingEnds EndedAppReleases
