SPECIFICATION Spec
CONSTANTS
  Site = {site}
  Profile = {work}
  Context = {tab1, tab2}
  Name = {item, empty}
  EmptyName = empty
  Process = {p1, p2}
  NoVersion = none
  BadVersion = garbage
  NoWipe = nowipe
  MaxRows = 2
  Asked <- ForgersAsk
  WipeList <- VictimWipes
INVARIANTS
  ReadyMeansSound
  AnswersStayInPartition
PROPERTIES
  WipeIsWhole
