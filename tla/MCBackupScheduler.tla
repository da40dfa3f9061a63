-------------------------- MODULE MCBackupScheduler --------------------------
\* TLC instance of BackupScheduler: one schedule of one subvolume, whose file has a
\* snapshot of last month and one of this month when nosd first starts, and manual
\* snapshots of two subvolumes.
EXTENDS BackupScheduler

CONSTANTS s1, v1, v2

MCSchedules == {s1}
MCCovers == [s \in {s1} |-> <<v1>>]
MCConfigured == [s \in {s1} |-> [enabled |-> TRUE, kind |-> "descriptor"]]
MCEarlier == <<[subvol |-> v1, by |-> s1], [subvol |-> v1, by |-> s1]>>
MCManual == <<v1, v2>>
MCPolicy == [minKeep |-> 1, days |-> 1, weeks |-> 1, months |-> 2, years |-> 1]
MCDayOf == [n \in 0..4 |-> <<0, 10, 40, 50, 60>>[n + 1]]
MCMonth == [d \in 0..400 |-> d \div 30]
MCYear == [d \in 0..400 |-> d \div 360]
=============================================================================
