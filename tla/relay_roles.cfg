SPECIFICATION FairSpec
CONSTANTS
  s1 = s1  d1 = d1  d2 = d2  p1 = p1  r1 = r1
  Sessions = {s1, s2, s3}
  Senders = {s1, s2}
  Receivers = {s3}
  Devices = {d1}
  Owns <- OneOwner
  Preimages = {p1}
  Responses = {r1}
  Batches <- AllCommits
  Uploads <- OneUpload
  ChanCap = 1
  MaxSends = 2
  Expired = Expired
  None = None
PROPERTIES SendAnswered QueueDrains
