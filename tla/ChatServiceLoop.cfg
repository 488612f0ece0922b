SPECIFICATION FairSpec
CONSTANTS
  alice = alice bob = bob carol = carol x = x
  User = User NoName = NoName NoChannel = NoChannel
  Accounts <- MCAccounts
  Nicks <- MCNicks
  Tables <- MCRenamed
  Active <- MCAccounts
  MaxClients = 2
  Bots <- MCBots
  Channels <- MCChannels
  Configs <- MCOneBot
  MaxEngines = 2
  MaxEdits = 1
  MaxInFlight = 2
  MaxRequests = 1
  MaxPosts = 1
CHECK_DEADLOCK FALSE
PROPERTY SelfIgnored
