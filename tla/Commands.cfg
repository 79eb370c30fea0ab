SPECIFICATION CliSpec
CONSTANTS
    Unit = 2
    Domains = {"Light", "Climate", "Cover", "Valve", "Switch", "Fan", "Siren", "Number", "Select", "Text", "Button", "Lock", "MediaPlayer", "AlarmControlPanel", "Date", "Time", "DateTime", "Update", "WaterHeater"}
    Keys = {k1, k2}
    Bad = Bad
    NaN = NaN
    Infinity = Infinity
    MinusInfinity = MinusInfinity
    IntLimit = 128
    MaxCommands = 2
INVARIANTS DeviceFollows HandleReadsBack ValuesLimited
SYMMETRY KeySymmetry
CHECK_DEADLOCK FALSE
