SPECIFICATION FairSpec
CONSTANTS
    vaulted = vaulted
    certificate = certificate
    ignored = ignored
    foreign = foreign
    teamSecret = teamSecret
    c1 = c1
    c2 = c2
    p1 = p1
    p2 = p2
    Secret = {vaulted, certificate, ignored, foreign, teamSecret}
    Annotations <- Kinds
    TeamSecrets = {teamSecret}
    Reservation = {plain, sourced, member}
    Sourced = {sourced, member}
    InTeam = {member}
    SetUp = SetUp
    CapiCluster = {c1, c2}
    MachinePool = {p1, p2}
    ClusterOf <- Labels
    stuckDeletionThreshold = 1
    MaxFaults = 1
INVARIANTS TypeOK SourceCopied NotForcedEarly
PROPERTIES RetrySucceeds DrainedAtRelease CleanupFinishes
CHECK_DEADLOCK FALSE
