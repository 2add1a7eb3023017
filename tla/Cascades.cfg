\* Cascades of two rules that match each other's findings; scope limiters.
CONSTANTS
    Rules = {"a", "b", "s"}
    Findings = {"web", "ssh", "mail"}
    Configs <- Cascades
SPECIFICATION FairSpec
INVARIANTS TypeOK ChainsAreLoopFree ScopeIsKept RuleEntriesStayWithTheirScan EveryMatchIsFollowed NoMatchIsFollowedTwice
PROPERTIES CascadeEnds
\* A cascade ends.
CHECK_DEADLOCK FALSE
