SPECIFICATION Spec
CONSTANTS
  MaxUsers = 2
  MaxFiles = 2
  MaxRekeys = 1
  Chats = {c1, c2}
  Keks = {1, 2}
  NoChat = NoChat
  NoUser = NoUser
  NoFile = NoFile
  NoDek = NoDek
  NoRow = NoRow
  NoSecret = NoSecret
INVARIANTS TypeOK UploadsStayReadable ReadableFilesAreOnDisk ChatsHaveOneAccount
CHECK_DEADLOCK FALSE
