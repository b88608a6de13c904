CONSTANTS
  usual = usual
  custom = custom
  schedule = schedule
  manual = manual
  notification = notification
  nobody = nobody
  Paths = {usual, custom}
  Requesters = {manual}
  Schedule = schedule
  Notifier = notification
  Nobody = nobody
  MaxChanges = 1
  MaxCollectors = 2

SPECIFICATION Spec

INVARIANTS
  TypeOK
  SlotAnswersItsPath
  EveryCollectorNotifies
PROPERTY
  SlotFollowsSetting
