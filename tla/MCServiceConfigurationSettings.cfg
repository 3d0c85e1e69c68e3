SPECIFICATION ConfigurationSpec
INVARIANTS
    SettingsTakeEffect
