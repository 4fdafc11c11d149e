\* Rates are in units of 100 kbps: the defaults of config.go are 4000 and 1200.
SPECIFICATION CaptureSpec
CONSTANTS
    Sessions = {s1, s2, s3}
    Agent = agent
    ControlFree = free
    Calls = {}
    MaxViewers = 2
    MaxPrompts = 0
    MaxPipes = 3
    Estimates = {6, 38}
    VideoKbps = 40
    MinVideoKbps = 12
INVARIANTS
    NumbersFitTheSeats
    CaptureFits
    EncoderKeepsPace
SYMMETRY Symmetry
