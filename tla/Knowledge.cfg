CONSTANTS
    h1 = h1  h10 = h10  p1 = p1  p10 = p10  s1 = s1  root = root  admin = admin
    none = none  nothing = nothing
    scan = scan  rescan = rescan  probe = probe
    open1 = open1  closed1 = closed1  again = again
    http1 = http1  early = early  moved = moved  page = page  path = path  stray = stray
    hint = "hint"
    Assets = {h1, h10, p1, p10, s1, root, admin}
    Facts = {open1, closed1, again, http1, early, page, path, moved, stray}
    Keys = {scan, rescan, probe}
    Signals = {"nosignal", "admin_surface", "exposed_service", "out_of_scope"}
    NoSignal = "nosignal"
    Ideas = {"hint"}
    TemplateSignals = {"admin_surface"}
    NoAsset = none
    NoValue = none
    NoProbe = nothing
    Barred = {h10}
    Seeds = {h1}
    NameHosts = {}
    RootPages = {root}
    KindOf <- MCKindOf
    ParentOf <- MCParentOf
    Fact <- MCFact
    Spelled <- MCSpelled
    SiteOf <- MCSiteOf
    PathSignal <- MCPathSignal
    PortSignal <- MCPortSignal
    Probe <- MCProbe
    Expected <- MCExpected
    Mentions <- MCMentions
    Drafts <- MCDrafts
    Batch <- MCBatch
    RowOrder <- MCRowOrder
    MaxEvidence = 1
    MaxCalls = 1
    MaxCycleCalls = 2
    MaxCycles = 3
    MaxCrashes = 1
    MaxFaults = 1
SPECIFICATION Spec
INVARIANTS KnowledgeTypeOK RivalsAreLinked GapsAreCurrent FindingsAreGrounded AdviceStaysAdvisory CallBudget ReplayAgrees SnapshotsNameTheirRows QuestionsAreAnswered
PROPERTIES BeliefsFollowEvidence DoubtNeedsARival LogIsRead
CHECK_DEADLOCK FALSE
