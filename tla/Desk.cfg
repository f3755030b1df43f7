SPECIFICATION DeskSpec
CONSTANTS
    Nothing = Nothing  alice = alice  aliceLid = aliceLid  grp = grp  grpLid = grpLid
    GroupJids = {grp}  CallRecords <- Records  CallItems <- Items  CallAlias <- TwoIds  MaxCallTime = 3
    RawCapacity = 1  MicCapacity = 1  SpeakerCapacity = 2  RingCapacity = 4  Prefill = 3  Chunk = 2
    FrameSamples = 3  BlockSizes = {1, 3}  MaxSamples = 9
    StatusMessages <- Updates  StatusBroadcast = StatusBroadcast  StatusTTL = 2  Readers = {r1}  MaxStatusTime = 4
    s1 = s1  s2 = s2
    Nobody = Nobody  Pn = Pn  Lid = Lid  pPn = pPn  pLid = pLid  pIn = pIn
    PollsMade = {pPn, pLid}  PollsReceived = {pIn}  PollChat <- PollChats  PollSender <- PollSenders
    GroupChats = {grpLid}  LidChats = {aliceLid, grpLid}  Voters = {v1, v2}  PollAlias <- LinkedPoll
    Flags = {pinned}  Stars = {starred}  FlagCommands = {c1, c2}  MaxPatches = 2
    Batches = {b1, b2}  Links = {l1, l2}  NoLink = NoLink  MaxReloads = 1
    Unset = Unset  Half = Half  DefaultTimeout = 1  MinTimeout = 1  MaxTimeout = 2  Timeouts = {0, 1, 2}  OldPreferences <- Preferences
    LateAnswers = FALSE  MaxLockTime = 2  MaxLockFaults = 1
    Null = Null  OldChats <- OldRows  MaxKills = 2  MaxOpens = 3
INVARIANTS ImportsSettle AudioKeepsOrder VotesCount FlagsConverge SettingsKept LockFollows OpensWhole
PROPERTIES ListingsAreRight DeliveredOnce ReopenChangesNothing
CHECK_DEADLOCK FALSE
