SPECIFICATION FairSpec
CONSTANTS
  alice = alice bob = bob carol = carol x = x
  User = User NoName = NoName NoChannel = NoChannel
  Accounts <- MCAccounts
  Nicks <- MCNicks
  Tables <- MCTables
  Active <- MCAccounts
  MaxClients = 2
  Bots <- MCBots
  Channels <- MCChannels
  Configs <- MCConfigs
  MaxEngines = 2
  MaxEdits = 1
  MaxInFlight = 1
  MaxRequests = 2
  MaxPosts = 1
CHECK_DEADLOCK FALSE
INVARIANTS NoOrphan MapsAgree OneEngine
PROPERTIES Settles
