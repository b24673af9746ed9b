SPECIFICATION SettingsSpec
CONSTANTS
    MaxChoices = 2
    MaxSettingsFaults = 0
INVARIANTS
    LanguagePersisted
CHECK_DEADLOCK FALSE
