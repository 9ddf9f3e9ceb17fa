SPECIFICATION Spec
CONSTANTS
    sda1 = sda1
    sda10 = sda10
    Devices = {sda1, sda10}
    InitDevices = {sda1, sda10}
    Prefix <- SdaPrefix
    NoDevice = NoDevice
INVARIANTS TypeOK KeyWiped NoNeedlessQuestion ServiceOpensTheRest FailuresReported
PROPERTY PatientUserOpens
CHECK_DEADLOCK FALSE
