SPECIFICATION FairSpec
CONSTANTS
    Text <- MCText
    Remote <- MCRemote
    Body <- MCBody
    Offset = 1
    Cap = 2
    Messages <- MCMessages
    Listings <- MCListings
    Texts <- MCTexts
    Definitions <- MCDefinitions
    MaxMedia = 2
    Posts <- MCPosts
    Results <- MCResults
    ClearCaps <- MCClearCaps
    TlsCaps <- MCTlsCaps
    Mails <- MCMails
    Contents <- MCContents
    MaxPayload = 2
    MaxPings = 2
    Selectors <- MCSelectors
    Words <- MCWords
    MaxResponse = 2
INVARIANTS
    Whole
    RepliesPaired
    InSequence
PROPERTY
    CallReturns
