SPECIFICATION Spec
CONSTANTS
  s1 = s1  d1 = d1  d2 = d2  p1 = p1  r1 = r1
  Sessions = {s1, s2}
  Senders = {s2}
  Receivers = {s1, s2}
  Devices = {d1, d2}
  Owns <- TwoOwners
  Preimages = {p1, p2}
  Responses = {r1, r2}
  Batches <- AllCommits
  Uploads <- OneUpload
  ChanCap = 1
  MaxSends = 2
  Expired = Expired
  None = None
INVARIANTS OnlyToOwner AnswersAreGenuine
PROPERTIES AnswerKept
