SPECIFICATION FairSpec
CONSTANTS
    Msg <- TwoMessages
    SourceOf <- OwnSources
    Day <- SameDay
    Window = 30
    Lead = Lead
    Text = {Lead, NoText}
    NoText = NoText
    Bands <- Scored
    MaxVersions = 2
    MaxInbox = 4
    MaxChanges = 1
INVARIANTS CurrentIsLastSettled AnalysedOrFailed HotLeadsAlerted OneCanonical
PROPERTIES InboxDrains
