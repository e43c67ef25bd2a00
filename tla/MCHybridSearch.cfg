CONSTANTS
  m1 = m1
  m2 = m2
  m3 = m3
  ollama = ollama
  openai = openai
  g1 = g1
  g2 = g2
  NoMsg = NoMsg
  AnyGroup = AnyGroup
  Msgs <- Three
  Groups <- Two
  GroupOf <- MCGroupOf
  Time <- MCTime
  Matching <- MCMatching
  Sim <- MCSim
  Providers = {ollama, openai}
  NoProvider = NoProvider
  SameSize = {ollama}
  Cutoffs = {2}
  Asked = {g1, AnyGroup}
  Limits = {1}
SPECIFICATION SearchSpec
INVARIANTS
  SearchTypeOK
PROPERTIES
  LiveAnswer
  StrongHitsReturned
  DoubleHitsFirst
  OtherSizeIsFullText
