------------------------------- MODULE Quota -------------------------------
(***************************************************************************)
(* What an upload is charged to, and whether it is admitted.               *)
(*                                                                         *)
(* A live file row is [id, by, space, size, rate]: the account that        *)
(* uploaded it, the space it is in, its bytes and the cost multiplier of   *)
(* its pool.  The spaces are the personal one of each account, the         *)
(* individual workspace ("drive") of one account, Owner, and an            *)
(* organization's workspace.  One unit of size is one unit of quota: the   *)
(* rounding to a MiB is left out.                                          *)
(***************************************************************************)
EXTENDS Naturals, FiniteSetsExt

CONSTANTS
  Owner,     \* the account that owns the drive
  Milestones \* [level1, level10, level60, level120]: the leveling configuration

Space == {"personal", "drive", "org"}

\* The larger of the step reached and the share of level 100.
LevelingQuota(level) ==
  LET progress == ((IF level > 100 THEN 100 ELSE level) * Milestones.level120) \div 100
      step     == CASE level >= 120 -> Milestones.level120
                    [] level >= 60 /\ level < 120 -> Milestones.level60
                    [] level >= 10 /\ level < 60 -> Milestones.level10
                    [] OTHER -> Milestones.level1
  IN  IF progress < step THEN step ELSE progress

PerkQuota(perk) == IF perk \in DOMAIN Milestones.perks THEN Milestones.perks[perk] ELSE 0

\* The account quota is Valve's, if it answers (with more than 0).  The drive of
\* the Owner has this quota with the Owner's valve and the requester's level
\* and perk.
AccountQuota(level, perk, valve) ==
  IF valve > 0 THEN valve ELSE LevelingQuota(level) + PerkQuota(perk)

\* The charge of each row, by the multiplier of its pool.
Bill(rows) == MapThenSumSet(LAMBDA f : f.size * f.rate, rows)

Bytes(rows) == MapThenSumSet(LAMBDA f : f.size, rows)

\* All files of the account, wherever they are, and those that others put
\* into its drive.
AccountPool(rows, a) ==
  {f \in rows : f.by = a \/ (f.space = "drive" /\ a = Owner)}

\* The drive, whoever uploaded, and the personal files of its owner.
DrivePool(rows) ==
  {f \in rows : f.space = "drive" \/ (f.space = "personal" /\ f.by = Owner)}

\* What is counted here; a shared quota service, where one is configured,
\* reports the usage of an organization instead.
OrgPool(rows) == {f \in rows : f.space = "org"}

\* The pool of a workspace, as it is checked and as it is published to Valve.
ChargedWorkspaceBytes(rows, space) ==
  Bytes(IF space = "drive" THEN DrivePool(rows) ELSE OrgPool(rows))

\* Against the account's quota, in billed units.
CheckUploadQuota(rows, a, size, rate, total) ==
  Bill(AccountPool(rows, a)) + size * rate <= total

\* Against the drive's quota or the organization's plan, in bytes.
CheckWorkspaceUploadQuota(rows, space, size, total) ==
  ChargedWorkspaceBytes(rows, space) + size <= total
=============================================================================
