----------------------------- MODULE MCVolume -----------------------------
EXTENDS VolumeSystem
Far == [p \in Parts |-> 1000]
Plain == [places |-> {DP}, checks |-> {}, points |-> {}, errors |-> {},
          wipe |-> FALSE, versions |-> 2, kills |-> 1, runs |-> 3]
Deep == [deep |-> TRUE, extra |-> FALSE]
Checked == [Plain EXCEPT !.checks = {Deep}]
Wiped == [Plain EXCEPT !.wipe = TRUE, !.versions = 1]
OnBoth == [Plain EXCEPT !.places = {IP, DP}]
Point(gen, erase, verify) == [gen |-> gen, erase |-> erase, verify |-> verify]
Failing == [Plain EXCEPT !.checks = {Deep}, !.points = {Point(2, FALSE, FALSE)},
                           !.errors = {1, -1}, !.kills = 0]
Rolled == [Plain EXCEPT !.points = {Point(2, FALSE, FALSE), Point(2, TRUE, FALSE),
                                    Point(2, FALSE, TRUE)}]
IpData == {[OnBoth EXCEPT !.checks = {Deep}]}
Unwritten == {[Plain EXCEPT !.errors = {-1}, !.kills = 0]}
CrashSites == {Checked, Wiped, OnBoth, Failing, Rolled}
===========================================================================
