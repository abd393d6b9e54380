CONSTANTS
  gpu = gpu
  udev = udev
  kubelet = kubelet
  Devices = {gpu}
  Categories = {"Temperature"}
  Custom = {"DeviceAbsent"}
  Publishers = {udev}
  Streams = {kubelet}
  ChannelCapacity = 1
  ConnectAttemptsMax = 2
  MaxErrors = 1
SPECIFICATION Spec
CHECK_DEADLOCK FALSE
INVARIANTS
  TaintsPublishedAlone
  StreamsFollow
  NilStreamNeverUsed
PROPERTY
  ListenerStops
  StreamComesBack
