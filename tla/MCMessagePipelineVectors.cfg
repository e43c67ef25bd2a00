CONSTANTS
  w1 = w1
  w2 = w2
  k1 = k1
  k2 = k2
  g1 = g1
  g2 = g2
  h1 = h1
  h2 = h2
  h3 = h3
  a1a = a1a
  a1b = a1b
  b1a = b1a
  a2a = a2a
  NoMsg = NoMsg
  Workers <- MCWorkers
  Keys <- MCKeys
  Hashes <- MCHashes
  Groups <- MCGroups
  Key <- MCKey
  Hash <- MCHash
  GroupOf <- MCGroupOf
  Msgs <- Senders
  BatchSize = 2
  Aged <- NoMsgs
  OtherIds <- NoIds
  RediSearch = TRUE
  Searches = FALSE
SPECIFICATION Spec
SYMMETRY Symmetric
INVARIANTS
  VectorsMatchRows
