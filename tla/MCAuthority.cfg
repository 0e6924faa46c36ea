CONSTANTS
  One = "One"
  Two = "Two"
  Roles <- MCRoles
  Apps <- MCApps
  Workers <- MCWorkers
  Requests <- MCRequests
  Contents <- MCContents
  Kinds = {"k1", "k2"}
  FieldsOf <- MCFieldsOf
  Resolvers = {"c"}
  Accesses = {"access", "other"}
  Account = "account"
  Bucket = "bucket"
  MaxFaults = 1
SPECIFICATION AuthoritySpec
INVARIANTS AuthoritiesAgree FailsForCause ResolvedWasExact

