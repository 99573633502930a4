SPECIFICATION FairSpec
CONSTANTS
  Id <- MCId
  Body <- MCBody
  Key <- MCKey
  Ext <- MCExt
  Bbt <- MCBbt
  ListingOrder <- MCListingOrder
  CollectionOf <- MCCollectionOf
  Provider = {"caldav", "zotero", "ankiconnect", "mlflow", "wandb"}
  Annotated = {1}
  Overridden = {}
  MaxEdits = 3
  MaxFaults = 2
  MaxBoth = 4
  None = None
INVARIANTS StraysAreCancelled Restorable
PROPERTIES Mirrors UsersDataKept Converges
CHECK_DEADLOCK FALSE
