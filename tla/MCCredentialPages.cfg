SPECIFICATION Spec
CONSTANTS
  MaxSecrets = 3
  MaxChanges = 5
  MaxModels = 3
  Listings <- MCListings
INVARIANTS SecretsAreShown PageTellsWhatHappened ModelsBelongToKey
