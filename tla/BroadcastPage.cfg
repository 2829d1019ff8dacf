\* Three previews and three broadcasts of them.
SPECIFICATION Spec
CONSTANTS
  MaxAsked = 3
  MaxDialled = 3
  None = None
INVARIANTS
  NothingOrphaned
  BadgeTellsTruth
  StartLeadsOn
