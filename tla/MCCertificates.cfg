CONSTANTS
  ann = ann
  ben = ben
  c1 = c1
  c2 = c2
  j1 = j1
  j2 = j2
  f1 = f1
  Nobody = Nobody
  Student = {ann, ben}
  Call = {c1, c2}
  Finish = {f1}
  Second = 2
  MaxRows = 2
  MaxEntries = 3
  MaxNow = 2
  Job = {j1, j2}
  Averages <- MCAverages
  Requests <- MCRequests
  Point = 2
  MaxPlaces = 2
  MaxDone = 3
  Early = {}
SPECIFICATION MCSpec
INVARIANTS NeverOverCredited CertificatesAreEarned OneCertificate OwnFile
PROPERTY EveryCertificateIsPrinted
CHECK_DEADLOCK FALSE
