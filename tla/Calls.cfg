\* One chat with an outgoing and an incoming call, two commands at a time, one manager.
SPECIFICATION FairSpec
CONSTANTS
    peer = peer
    first = t1
    Chats = {peer}
    MaxStreams = 2
    None = None
    Calls = {out, in}
    Incoming = {in}
    PeerOf <- OnePeer
    Tasks = {t1, t2}
    MaxManagers = 1
    BusCapacity = 1
INVARIANTS RegistryIsSound TablesAreCurrent
PROPERTIES LifeSpec EndedIsTold AudioEnds
ACTION_CONSTRAINT HandlersCrossOne
