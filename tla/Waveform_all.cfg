CONSTANTS
    N = 6
    NCH = 2
    Captures <- TheCaptures
    Signal <- TheSignal
    Offset <- TheOffset
    Gain <- TheGain
    Pattern <- ThePattern
    Level = 2
    Dead = 10
    Zero = 20
    Low <- TheLow
    High = 12
    Rail = 120
    Half = 2
    Shift = 3
    Word = 32
    ClockCell = 4
    Reference = 4
    Ns = 2
    Lut <- TheLut
    MaxTicks = 12
    MaxDelay = 72
    Scalers <- TheScalers
SPECIFICATION Spec
INVARIANTS TypeOK RoundingBounded PeriodKept SampleOfCell TimeOfCell ChannelsAgreeAtReference MarkerAtEdge DecodedAsWritten
CHECK_DEADLOCK FALSE
