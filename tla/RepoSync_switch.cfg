\* One caller of syncRepo, a page of one commit, one branch switch.
SPECIFICATION SyncSpec
CONSTANTS
    Branch = {"main", "dev"}
    DefaultBranch = "main"
    Commit = {1, 2, 3}
    Caller = {"timer"}
    PageSize = 1  BackfillPages = 1  DeltaPages = 2  Overlap = 1
    MaxGitFaults = 1  MaxRepoEdits = 1
INVARIANT SwitchBackfills
CHECK_DEADLOCK FALSE
