SPECIFICATION Spec
CONSTANTS
  Profile = {p1}
  Client = {a, b}
  Kind = {"Update", "Upsert"}
  MaxRows = 1
  MaxLog = 1
  NoRow = NoRow
  Engine = {"cockroachdb"}
  MaxRetries = 2
SYMMETRY Symmetry
INVARIANT SerializationRetried
