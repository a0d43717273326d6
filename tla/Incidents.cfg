SPECIFICATION FairSpec
CONSTANTS
  Procs = {p1, p2}
  Attempts = {att}
  Candidates = {cand}
  None = None
  MaxTxns = 2
  MaxDeaths = 2
  MaxBlinks = 1
  MaxDamage = 1
  MaxIntents = 2
INVARIANTS
  TypeOK
  PacketKept
PROPERTIES
  OneLineOfRevisions
  
