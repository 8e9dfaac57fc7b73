SPECIFICATION Spec
CONSTANTS
    None = None
    Documents <- MCDocuments
    VersionIds = {1, 2}
    Contents <- MCContents
    Declared <- MCDeclared
    Raw <- MCRaw
    MaxVersions = 2
    ChunkLimit = 10
    Catalog <- MCCatalog
    Facts <- MCFacts
    IndexVersions = {"lexical"}
    Searches <- MCSearches
    Configs <- MCConfigs
    Policy <- PriorityPolicy
    Needs <- MCNeeds
    Contexts <- MCContexts
    Situations <- MCSituations
INVARIANTS SnapshotsComplete ApprovedIsSound TeachesWhatItMay
PROPERTY LifecycleForward
