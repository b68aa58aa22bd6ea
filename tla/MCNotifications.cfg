CONSTANTS
    Staff = {"manager", "sponsor"}
    Addressed = {"manager"}
    SuperAdmins = {"sponsor"}
    Entries = {"entry"}
    Contacts <- MCContacts
    Drains = {"drain1", "drain2"}
    MaxAttempts = 2
    MaxDispatches <- MCDispatches
    MaxCrashes = 2
SPECIFICATION NotificationSpec
PROPERTY EveryJobIsAnswered
PROPERTY ReadStaysRead
CHECK_DEADLOCK FALSE
