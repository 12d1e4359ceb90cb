SPECIFICATION Spec
CONSTANTS
  None = None
  anna = anna
  boris = boris
  sender = sender
  cement = cement
  sand = sand
  vendor = vendor
  site = site
  bag = bag
  dust = dust
  Users = {anna, boris}
  Docs = {1, 2}
  Lines = {1, 2}
  Senders = {sender}
  SenderOf <- MCSenderOf
  Keys = {cement, sand}
  KeyOf <- MCKeyOf
  Suppliers = {vendor}
  Sites = {site}
  Targets = {bag, dust}
  Vanishing = {dust}
  InnSupplier <- MCInnUnknown
  Volatile = {bag}
  Resolutions <- MCResolutions
  MaxRequests = 6
INVARIANTS
  ReceiptsComplete
PROPERTIES
  ImportsWhatWasSeen
  ChoicesStand
  KeepsLedger
SYMMETRY Interchangeable
