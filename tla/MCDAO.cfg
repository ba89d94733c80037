SPECIFICATION Spec
CONSTANTS
  Profile = {p1}
  Client = {a, b}
  Kind = {"Create", "CreateProfileWithCredential", "Update", "Upsert", "Delete",
          "DeleteProfile", "CreateCredential", "DeleteCredential", "DeleteExpired"}
  MaxRows = 1
  MaxLog = 1
  NoRow = NoRow
  Engine = {"sqlite", "postgres", "cockroachdb"}
  MaxRetries = 2
SYMMETRY Symmetry
INVARIANT TypeOK
PROPERTIES
  StoreSpec
  RefreshedSurvives
