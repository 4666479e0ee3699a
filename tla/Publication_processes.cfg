SPECIFICATION Spec
CONSTANTS
  p = p  q = q  d1 = d1  r1 = r1  http = http  stdio = stdio
  Person <- MCPerson
  Process <- MCProcess
  Draft <- MCDraft
  Release <- MCRelease
  Join = Join  Bot = Bot
  MaxPosts = 3
  NoRow = NoRow  Gone = Gone  Idle = Idle
SYMMETRY Alike
INVARIANTS
  PublishedOnce
  AnnouncedOnce
  DraftOnce
PROPERTIES
  RecordStands
