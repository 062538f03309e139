\* Two callers with two timers and three starts; one writer of trims.
CONSTANTS
    Callers = {c1, c2}
    Timers = {t1, t2}
    MaxStarts = 3
    Nobody = Nobody
    Class = Class
    Trimmers = {w1}
    Prober = Prober
    Times <- TwoTimes
    Digital <- Ppm
    Analog <- Farads
    MaxFailedSends = 1
SPECIFICATION DriversSpec
SYMMETRY Either
INVARIANTS ReportsExpired EndMeansStored ReadsBack
