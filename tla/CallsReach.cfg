\* Two commands start a call with one chat.
SPECIFICATION Spec
CONSTANTS
    peer = peer
    first = t1
    Chats = {peer}
    MaxStreams = 2
    None = None
    Calls = {out, out2}
    Incoming = {}
    PeerOf <- OnePeer
    Tasks = {t1, t2}
    MaxManagers = 1
    BusCapacity = 1
INVARIANT CallsAreReachable
