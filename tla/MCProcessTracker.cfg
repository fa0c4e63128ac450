SPECIFICATION Spec
CONSTANTS
    t1 = t1
    t2 = t2
    Threads = {t1, t2}
    Pids = {1}
    Names <- MCNames
    Ops = {"write", "close"}
    RuleFiles <- MCRuleFiles
    ConfigRules <- MCConfigRules
    LogCapacity = 2
    TTL = 1
    MaxTime = 1
    MaxCalls = 3
    Trackers = {1, 2}
SYMMETRY MCSymmetry
INVARIANTS RecentEntries NameFresh RulesInForce PatternsMatch
