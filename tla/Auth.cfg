SPECIFICATION Spec
CONSTANTS
  pw = pw
  plain = plain
  native = native
  chrome = chrome
  addr = addr
  None = None
  MaxRequests = 4
  Browsers = {"b1", "b2"}
  Names = {"alice"}
  Emails = {"mail"}
  Passwords <- TwoPasswords
  Contexts = {plain, native}
  AgentOf <- Agents
  AddrOf <- Addrs
  IPs = {addr}
  MaxFaults = 1
  MaxEvents = 1
  Plan <- Sessions
INVARIANT TypeOK
INVARIANT OneLivePerSession
INVARIANT SingleExchange
INVARIANT OneAccountPerName
INVARIANT AdmittedAsSelf
INVARIANT JarUsable
PROPERTY ImplementsBaton
CHECK_DEADLOCK FALSE
