CONSTANTS
  ollama = ollama
  openai = openai
  aliyun = aliyun
  t1 = t1
  t2 = t2
  c1 = c1
  c2 = c2
  Unknown = Unknown
  Greeting = Greeting
  Providers <- MCProviders
  First = ollama
  Threads <- MCThreads
  Clients <- OneClient
  EventSize = 40
  MaxSwitches = 2
SPECIFICATION EventsSpec
INVARIANTS
  BroadcastsReachClients
