SPECIFICATION MCSpec
CONSTANTS
    tUp = tUp
    tDown = tDown
    Tasks = {tUp, tDown}
    None = None
    MaxBots = 2
    MaxReports = 1
    MaxOutstanding = 2
INVARIANTS BotIsKnown AloneFits
PROPERTY SessionGoesOn
