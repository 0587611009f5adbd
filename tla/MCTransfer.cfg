SPECIFICATION TransferRunSpec
CONSTANTS
  Foci = {"pipe", "worker", "stream", "repository"}
  PipeChunks <- MCChunks
  MaxEarlyPolls = 2
  Requests = {q1, q2}
  MaxVerifications = 1
  s1 = s1  s2 = s2
  Streams = {s1, s2}
  Deltas = 1
  ProviderCapacity = 1
  ServiceCapacity = 1
  MaxActiveRelays = 1
  Worlds <- MCWorlds
  a1 = a1  a2 = a2
  Calls = {a1, a2}
  WorkCapacity = 1
  NoCall = NoCall
INVARIANTS PipeDelivers StagesHaveOneHolder StreamsAreFaithful
PROPERTIES TransfersEnd SilenceIsExplained RelayAdmissionIsExact RefusalsAreFinal
CHECK_DEADLOCK FALSE
