SPECIFICATION Spec

CONSTANTS
    Jobs = {j1}
    Clients = {c1, c2}
    NoWatch = noWatch
    MaxProgress = 1
    MaxTries = 2
    MaxDrops = 1
    MaxStoreFails = 1
    MaxRestarts = 1

    sigma = sigma
    yara = yara
    a = a
    bad = bad
    Rules = {sigma, yara}
    Texts = {bad, a, b}
    Valid = {a, b}
    Hunters = {h1}
    Admins = {adm}
    Responders = {}
    NoEditor = noEditor
    MaxEdits = 2

    Investigations = {inv}
    Playbooks = {pb}
    Viewers = {v1, v2}
    ResponderPages = {v1}
    MaxStarts = 1
    MaxPauses = 2
    MaxReboots = 1

    NotifyCalls = {n1, n2}
    k1 = k1
    k2 = k2
    k3 = k3
    ann = ann
    bob = bob
    RealtimeKeys = {k1}
    DigestKeys = {k2, k3}
    Recipient <- MCRecipient
    NoKey = noKey
    Window = 2
    MaxTime = 2
    MaxMishaps = 1

    Managers = {m1, m2}
    Nobody = nobody
    ToolCalls = {t1, t2}
    Stop = stop
    List = list
    MaxOwners = 2

    LoginThreads = {l1, l2}
    MaxAttempts = 2
    LoginWindow = 2
    LastSecond = 3

CHECK_DEADLOCK FALSE

INVARIANTS
    JobTypeOK
    ToldIsTrue
    RuleTypeOK
    HunterExportsOwn
    StreamTypeOK
    NotifyTypeOK
    OneClaimPerWindow
    DigestBooks
    McpTypeOK
    OneLiveOwner
    NoCallLeftBehind
    OvershootBounded

PROPERTIES
    FinishedStays
    EndIsHeard
    EveryJobEnds
    ImplementsRelease
    DeletedIsIdle
    EndIsForwarded
    RequestIsShown
    DigestArrives
    LockKeptByServer
    RefusedForCause
