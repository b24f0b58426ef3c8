SPECIFICATION PartSpec
CONSTANTS
    Query = {"fnm-node-versions", "agent-scratch", "downloaded-installers", "build-output", "git-worktrees",
        "brew-cask-records", "app-leftovers", "npx-cache", "superseded-builds", "docker-update-download", "unless_running"}
    MaxChanges = 2
    MaxRechecks = 1
    o1 = o1
    o2 = o2
    o3 = o3
    Op <- Calls
    Casts <- FewCasts
    Pick = {a, b}
    Carryable = {a}
    p1 = p1
    p2 = p2
    Ticker <- TwoTickers
    Scenes <- FewScenes
    Bands <- TwoBands
    GiB = 1
    Window = 2
    Retention = 3
    Slack = 1
    Now = 6
    Proc = {u1, u2}
    Releases = 3
    Interval = 1
    MaxDays = 2
    MaxPublish = 2
INVARIANTS
    UsedStays
    RecheckAgrees
    PicksKept
    LoaderStopped
    HistoryKept
    CrossingsTold
PROPERTY
    InstallsForward
CHECK_DEADLOCK FALSE
