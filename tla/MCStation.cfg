CONSTANTS
    a = a
    b = b
    Requests = {r1}
    Names <- MCNames
    Devices = {unit, net}
    Usb = {unit}
    Serial = {unit}
    None = None
    MaxChanges = 3
SPECIFICATION Spec
INVARIANT ReachesPinned
INVARIANT FallbackOnlyIfNeeded
INVARIANT UsbFirst
PROPERTY CommandsReadTheQueue
