SPECIFICATION FairSpec
CONSTANTS
  Id <- MCId
  Body <- MCBody
  Key <- MCKey
  Ext <- MCExt
  Bbt <- MCBbt
  ListingOrder <- MCListingOrder
  CollectionOf <- MCCollectionOf
  Provider = {"caldav", "zotero", "ankiconnect", "mlflow", "wandb"}
  Annotated = {1}
  Overridden = {1}
  MaxEdits = 3
  MaxFaults = 1
  MaxBoth = 4
  None = None
INVARIANTS LastOverrideWins
CHECK_DEADLOCK FALSE
