\* One exchange against one rival operation on the Secret Service; at most one fault or
\* step of another program happens.  Every part stops when it is done.
SPECIFICATION Spec
CHECK_DEADLOCK FALSE
CONSTANTS
  edit = edit
  rival = rival
  acct1 = acct1
  acct2 = acct2
  coll1 = coll1
  coll2 = coll2
  foreign = foreign
  check1 = check1
  check2 = check2
  Callers <- MCCallers
  Interactive <- MCCallers
  Accounts <- MCAccounts
  Collections <- MCCollections
  Foreign = foreign
  NoCollection = NoCollection
  NoOne = NoOne
  Empty = Empty
  Cancelled = Cancelled
  MaxAttempts = 3
  MaxOwner = 2
  Edit = edit
  Targets <- MCTargets
  Rivals <- MCRivals
  MaxEvents = 1
SYMMETRY Symmetry
INVARIANT PasswordsKeepTheirPurpose
INVARIANT OneKeyringOneKeyset
INVARIANT SuccessIsWhole
