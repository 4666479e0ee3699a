SPECIFICATION Spec
CONSTANTS
  O = O  a = a  b = b
  Person <- MCPerson
  Owner = O
  Nobody = Nobody
  Edition <- MCEdition
  MaxVersion = 2
  MaxRounds = 128
  Limit = 6
INVARIANTS
  OrderDoesNotMatter
  RevocationHolds
  Unbroken
