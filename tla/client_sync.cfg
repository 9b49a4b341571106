SPECIFICATION FairSpec
CONSTANTS
    Agents = {a1, a2}
    Tooling <- MCTooling
    Bundle <- MCBundle
    ToolList = "tools"
    Releases <- MCReleases
    Torn = Torn
    Missing = Missing
    Scenes <- MCScenes
INVARIANTS
    StaleIsSeen
PROPERTIES
    RunsBringRelease
    AskedIsAnswered
