SPECIFICATION Spec
CONSTANTS
  None = None
  MaxMessages = 3
  Own <- MCOwn
  Peers <- MCPeers
  Spellings <- MCSpellings
  OwnSpellings <- MCOwnSpellings
  Listings <- MCListings
INVARIANT OneConversation
