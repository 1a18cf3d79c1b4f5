CONSTANTS
 Systems = {"windows","linux","macos"}
 Real = {"d1","d2"}
 Virtual = "v"
 Roles = {"console","comms"}
 Console = "console"
 Formats = {"f1","f2"}
 MAX_REINIT = 1
 MaxCrashes = 1
 MaxRefused = 1
 MaxMoves = 1
 Me = "me"
 Others = {"a","b"}
 Foreign = {"b"}
 PEER_TTL = 2
 MAX_PEERS = 2
 Ids = {"i"}
 MaxNonces = 4
 MaxAir = 2
 MaxChanges = 1
 Backends = {"uinput", "sendinput", "window", "macos"}
 Buttons = {1, 3}
 Codes <- MCCodes
 MaxDropped = 1
 PadIds = {"p", "q"}
 Kinds = {"xbox360", "ds4"}
 MAX_SERIAL = 2
 Handles = {"h1", "h2"}
 MaxFailures = 1
SPECIFICATION MCSpec
INVARIANT RumbleOwn
