\* Three accounts, two addresses, two requests at a time.
CONSTANTS
  ann = ann  bob = bob  cem = cem
  ann_mail = ann_mail  mail = mail  r1 = r1  r2 = r2
  Accounts = {ann, bob, cem}
  Emails = {ann_mail, mail}
  FirstAdmin = ann
  FirstEmail = ann_mail
  Edits = {r1, r2}
SPECIFICATION StaffSpec
SYMMETRY Symmetry
INVARIANT
  SomeAdminUnlessOverlap
PROPERTY
  RightsChangeByNameUnlessOverlap
CHECK_DEADLOCK FALSE
