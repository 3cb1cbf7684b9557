CONSTANTS
    b = b
    Range = {b}
    BuiltIn = {b}
    Commas = Commas
    Typed = {Commas}
    MaxPolls = 2
    MaxChanges = 1
SPECIFICATION FairSpec
INVARIANTS TypeOK ShowsWhatWas
PROPERTIES NoFalseAlarm ReportsAreTrue ClearingConfirmed PanelCatchesUp BannerIsTrue
