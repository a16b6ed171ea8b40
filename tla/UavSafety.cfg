\* Every order of messages, user events, timeouts and link errors, and a
\* board that may fall silent for good.
CONSTANTS
  MaxErrors = 3
  Channels = 8
  Burst = 2
SPECIFICATION FairSpec
INVARIANTS
  TypeOK
  WaitsAreArmed
  TimeoutIsAwaited
  TasksMatchAction
  LinkMatchesAction
  SettingsComeFirst
  EveryChannelIsCalibrated
PROPERTIES
  DeliveredIsAcknowledged
  TimerStopsWithItsWait
  UserWaitsEndByUser
  ImplementsSession
  SilenceEndsWaits
  SilenceIsNoticed
