SPECIFICATION Spec
CONSTANTS
    t1 = t1
    t2 = t2
    h1 = h1
    Tasks = {t1, t2}
    Handlers = {h1}
    Share <- MCShare
    StartWords <- MCStartWords
INVARIANTS
    NoUpdateLost
    StoresFresh
    MaskPutBack
PROPERTY
    UpdatesEnd
