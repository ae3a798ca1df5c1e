SPECIFICATION AlikeSpec
CONSTANTS
  Named = {n1, n2}
  Root = {r1}
  owner = n1
  None = None
  MaxMoves = 1
  MaxEdits = 1
INVARIANTS TypeOK  CallbackIsNotSprayed DeniedGetsNothing WantedGetsAll
PROPERTIES OwnedCodeGoesHome
CHECK_DEADLOCK FALSE
