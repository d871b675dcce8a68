\* A bip of three periods and a silence of two; blocks that may be reset, and not.
CONSTANTS
    UneSec = 3
    DemiSec = 2
    MaxUn = 7
    MaxDemi = 3
SPECIFICATION Spec
INVARIANTS DureesPleines InvBip SecondBipDu
PROPERTY TientPromesse
