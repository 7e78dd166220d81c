CONSTANTS
  enu = enu
  fra = fra
  fin = fin
  None = None
  Languages = {enu, fra, fin}
  Installed = {enu, fra}
  VoiceLanguage = enu
  Configured = TRUE
  SettingsPitch = 65
  PresetPitch = 50
  ScaledRate <- MCScaledRate
  ScaledVolume <- MCScaledVolume
  ShiftedPitch <- MCShiftedPitch
  Fragments <- MCFragments
  MaxFragments = 3
SPECIFICATION Spec
INVARIANTS TypeOK SpokenAsAsked EventsFollowAudio  OwnPitch
\* A behaviour is one call.
CHECK_DEADLOCK FALSE
