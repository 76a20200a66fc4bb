CONSTANTS
    Accounts = {a1}
    Posts = {p1}
    Tags = {t1}
    Sessions = {s1}
    Import = Import
    TagsOf <- MCTagsOf
    ShortDays = 1
    LongDays = 2
    RetentionDays = 2
    Events = {"qualified_impression", "open"}
    MaxBatch = 2
    MaxCount = 2
    MaxDay = 3

SPECIFICATION Spec
INVARIANT TypeOK
INVARIANT SightingIsLatest
PROPERTY WindowsForgetOnlyOnRemoval
PROPERTY FeedbackFollowsHistory
PROPERTY WindowsAreATable
