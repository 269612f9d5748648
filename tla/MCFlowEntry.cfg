SPECIFICATION FairSpec

CONSTANTS
  l1 = l1  l2 = l2
  Lcores = {l1, l2}
  Outside = outside
  Inside = inside
  Segments <- HandshakeSegments
  Route <- Spread
  Ways = {"pipeline", "proof", "update", "count"}
  SeqMod = 16
  RST_FIN_SEQ_WINDOW = 1
  idle_timeout = 1
  syn_timeout = 0
  Cap = 2
  Evicts = TRUE
  None = None

INVARIANTS TypeOK
PROPERTIES VerifiedWasAnswered OutsideVouchesNothing HalfOpenEnds
