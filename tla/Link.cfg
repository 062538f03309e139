\* Three WDS messages, any power, speed and interface events.
CONSTANTS
    NO_NDIS_CONNECTION = NO_NDIS_CONNECTION
    CDC_CONNECTION_SPEED = CDC_CONNECTION_SPEED
    DRIVER_SUSPENDED = DRIVER_SUSPENDED
    NET_IFACE_STOPPED = NET_IFACE_STOPPED
    Reasons = {NO_NDIS_CONNECTION, CDC_CONNECTION_SPEED, DRIVER_SUSPENDED, NET_IFACE_STOPPED}
    ProbeReasons = {NO_NDIS_CONNECTION, NET_IFACE_STOPPED}
    MaxMessages = 3
SPECIFICATION FairSpec
INVARIANTS NotStuckDown DownMeansOff LinkFollowsLast StillListening
PROPERTY ReleaseEnds
CHECK_DEADLOCK FALSE
