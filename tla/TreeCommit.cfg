SPECIFICATION Spec
CONSTANTS
    Name <- MCName
    WithSlash <- MCWithSlash
    Mode = {"plain", "exec"}
    Digest = {1, 2}
    Excluded = {2}
    Protected = {2, 3}
    Sensitive = {4}
    Scripts = {7}
    Executable = {"exec"}
    Limits <- MCLimits
    Workspaces <- MCWorkspaces
    Results <- MCResults
    NewDirectory <- MCNewDirectory
    Hops = 6
    FailedNew = 5
    RestoreCurrent = 6
INVARIANTS
    TypeOK
    RenamesLand
    RootsSuffice
    RootsAreTopmost
    Reversible
    AutomaticKeepsAll
    NoMassLoss
    LinksStayInside
    RefusesUncopied
CHECK_DEADLOCK FALSE
