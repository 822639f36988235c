\* Modules initialised again and again, cleanup, a second world, topics; and
\* messages over a byte stream; and bytecode disassembled.
SPECIFICATION CoreServicesSpec
CONSTANTS
  Modules <- SomeModules
  MaxLives = 2
  MaxOpcodes = 4
  Original = Original
  Addresses = {"local", "remote"}
  Localhost = "local"
  Window = 2
  Lists <- BanLists
  Senders = {s, t}
  Messages = {"a", "b", "bad"}
  Garbage = {"bad"}
  Size <- TextSize
  Zero = Zero
  MaxSent = 3
  MaxPiece = 2
  Compiled <- SomeInstructions
  MaxInstructions = 3
  StringIds = {0, 7, 8, 9, 10}
  ProcIds = {0, 7}
CHECK_DEADLOCK FALSE
INVARIANTS
  TypeOK
  TableIsTrue
  OpcodesKeepOwner
  AcceptedApart
  BannedOnce
  InstructionsAsWritten
  ShortCodeIsSafe
PROPERTIES
  ChannelSpec
