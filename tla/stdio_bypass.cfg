SPECIFICATION Spec
CONSTANTS
  Calls = {c1}
  Programs <- MCPrograms
  Users <- MCUsers
  Uris <- MCUris
  Decode <- MCDecode
  Chats = {k1, k2}
  TopChats = {k1}
  MaxCalls = 2
  MaxRounds = 2
  None = None
INVARIANTS StdioCallsAll
ACTION_CONSTRAINT ChatsApart
CHECK_DEADLOCK FALSE
