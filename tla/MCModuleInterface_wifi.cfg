CONSTANTS
  p1 = p1
  p2 = p2
  pulse = pulse
  alsa = alsa
  None = None
  Providers <- MCWifi
  Fixed = {}
  SelfClearing = {}
  WaitsInactive = {}
  DownPosts <- MCWifiPosts
  MaxChanges = 5
SPECIFICATION FairSpec
INVARIANTS TypeOK OneProviderRuns ActiveIsFirstReady ProviderReported
PROPERTY SettlesOnFirstAvailable
CHECK_DEADLOCK FALSE
