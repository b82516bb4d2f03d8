SPECIFICATION FairSpec
CONSTANTS
  s1 = s1
  s2 = s2
  s3 = s3
  Nil = Nil
  Songs <- MCSongs
  Artist <- MCArtist
  Embedded <- MCEmbedded
  Folder <- MCFolder
  MaxChanges = 1
  MaxCmds = 2
  MaxDrops = 1
  Devs = {"d1"}
  Nets = {"n1", "n2"}
  Levels = {1}
  MaxSteps = 2
  NetOf <- MCNetOf
  Tens = {5, 7}
  Apps = {"x", "y"}
  Timing = {"x"}
  MaxNotes = 3
  Sinks = {"a", "b"}
  Clients = {"c"}
  Top = 1
  Lo = 0
  Hi = 4
  Percents = {10, 50}
  MaxTurns = 3
  Ifaces = {"eth", "wlan"}
  Wrap = 3
  MaxMoves = 4
  MaxCalls = 3
INVARIANTS
  TypeOK
  CommandsRun
  SongShown
  ShownAsIs
  NotificationsShown
  MixerShown
PROPERTIES
  Settles
CHECK_DEADLOCK FALSE
