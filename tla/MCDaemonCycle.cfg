CONSTANTS
    None = None
    Broken = Broken
    Daemon = Daemon
    Command = Command
    Releases <- MCReleases
    Upgraders <- MCUpgraders
    RetryAfter = 1
    Bundles <- MCBundles
    Invocations <- MCInvocations
    MaxMatchedRules = 2
    MaxContextContent = 4
    MaxGrants = 1
    Worlds <- MCWorlds
SPECIFICATION DaemonSpec
INVARIANTS TypeOK BinaryKept BundleTogether RunsPermitted ContextFits
PROPERTIES RetriesWait CollectsOn Upgraded
CHECK_DEADLOCK FALSE
