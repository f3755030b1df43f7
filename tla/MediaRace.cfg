\* Two downloads of one photo at a time.
SPECIFICATION MCSpec
CONSTANTS
    m1 = m1
    m2 = m2
    own = own
    photo = photo
    clip = clip
    fPhoto = fPhoto
    fClip = fClip
    Msgs = {m1, m2}
    Contents = {photo, clip}
    Files = {fPhoto, fClip}
    None = None
    ContentOf <- Carried
    Blocks <- Lengths
    cache_file_name <- Names
    Declares = {m1}
    Tasks = {t1, t2}
    Sent = {}
INVARIANT EntriesAreComplete
