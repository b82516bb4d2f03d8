CONSTANTS
  p1 = p1
  p2 = p2
  pulse = pulse
  alsa = alsa
  None = None
  Providers <- MCVolume
  Fixed = {alsa}
  SelfClearing = {alsa}
  WaitsInactive = {pulse}
  DownPosts <- MCVolumePosts
  MaxChanges = 4
SPECIFICATION Spec
INVARIANT ProviderReported
CHECK_DEADLOCK FALSE
