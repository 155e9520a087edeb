\* A game and one place for its keys.
CONSTANTS
  Apps = {"game"}
  Settings = "settings"
  Positions = {1}
  Origin = 0
SPECIFICATION SettingsSpec
INVARIANTS NothingUnsaved RowsFollowSwitch KeysFollowApp
