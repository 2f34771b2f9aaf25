SPECIFICATION FairSpec
CONSTANTS
  MaxVersion = 3
  Candidates = {c1}
  Texts = {t1, t2}
  NoText = NoText
  OperatorBudget = 1
INVARIANTS
  TypeOK
  InvitesAreReviewed
PROPERTIES
  SettledStays
  GenerationSettles
