SPECIFICATION Spec
CONSTANTS
  Users = {u1, u2, u3}
  Founders = {u1}
  Names = {n1, n2, n3}
  Slots = {s1, s2}
  MaxRequests = 3
  MaxOverlapping = 2
  MaxDeaths = 1
  Mates = {author, mate}
  Author = author
  Devices = {d1, d2}
  Calls = {k1, k2}
  MaxCalls = 4
  Posters = {p1, p2}
  Readers = {m1}
  MaxPosts = 4
  MaxClears = 2
  Items = {i1, i2}
  Mutations = {c1, c2, c3}
  MaxRefetches = 1
  Pages = {e1, f1}
  MeetingForms = {f1}
  Places = {v1}
  MaxLines = 2
  MaxMade = 2
  MaxEdits = 1
  MaxSaves = 3
CHECK_DEADLOCK FALSE
INVARIANT GatekeeperRemains
INVARIANT OwnersAreOffered
INVARIANT OfficersAreOffered
INVARIANT OneAnnouncementIsLive
INVARIANT SettledShowsServer
INVARIANT FollowUpsMatchBookings
PROPERTY EditRepairsOwner
PROPERTY EditReplacesWhatItShowed
PROPERTY FirstArchiverIsNamed
PROPERTY SaveIsExact
