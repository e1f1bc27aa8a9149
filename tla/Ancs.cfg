SPECIFICATION AncsSpec
CONSTANTS
    Phones = {p, r, q}
    NoPhone = NoPhone
    HasAncs = {p, r}
    MaxLinks = 2
    MaxSecurityChanges = 2
    MaxNotifications = 2
INVARIANTS
    NoConfusion OwnHandles StaleMessageDropped AsksForOwn
PROPERTIES
    Subscribed Released
CHECK_DEADLOCK FALSE
