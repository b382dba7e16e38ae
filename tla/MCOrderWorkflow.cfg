SPECIFICATION LivesSpec
CONSTANTS
  admin1 = admin1
  admin2 = admin2
  admin3 = admin3
  courier1 = courier1
  courier2 = courier2
  Admins <- TwoAdmins
  Contacts <- TwoContacts
  NoContact = NoContact
  MaxRevision = 3
  MaxRetries = 1
  MaxClock = 3
SYMMETRY Symmetry
INVARIANTS
  AuditTrail
  PageEditsDatedInOrder
  CustomerKnowsCourier
CHECK_DEADLOCK FALSE
