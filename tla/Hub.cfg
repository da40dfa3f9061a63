SPECIFICATION HubFairSpec
CONSTANTS
  a1 = a1
  b1 = b1
  ann = ann
  bob = bob
  ch1 = ch1
  f1 = f1
  Nobody = Nobody
  NoLock = NoLock
  Clients <- MCClients
  Users <- MCUsers
  Channels <- MCChannels1
  Files <- MCFiles
  UserOf <- MCUserOf
  ShareChannel <- MCShareChannel
  RegisterCap = 1
  BroadcastCap = 1
  MaxLease = 2
INVARIANTS
  TablesAgree
PROPERTIES
  ImplementsFileLease
  SendersGoOn
CHECK_DEADLOCK FALSE
