\* Two threads and one more connection; two arrivals.
CONSTANTS
  Threads = {1, 2}
  Fds = {1, 2}
  MaxOutside = 3
  Lines <- SomeLines
  MaxLines = 2
  Hosts <- SomeHosts
  Ports <- SomePorts
  StartHost <- HostInStart
  StartPort <- PortInStart
  MaxAddrs = 2
SPECIFICATION FairSpec
INVARIANTS TypeOK InstanceReady NoneForgotten HandledOnce AddressUsed OneSocket
PROPERTY EventsHandled
CHECK_DEADLOCK FALSE
