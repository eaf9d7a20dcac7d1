--------------------------- MODULE MCTelegramBackup ---------------------------
(* Small instances of TelegramBackup.                                      *)
EXTENDS TelegramBackup

CONSTANTS d1, d2, btc

OneDay  == {d1}
TwoDays == {d1, d2}

(* One interval of one underlying; or two, with a day each.                *)
OneGroup  == [d \in OneDay |-> 1]
TwoGroups == [d \in TwoDays |-> IF d = d1 THEN 1 ELSE 2]
AllBtc    == [g \in Groups |-> btc]

(* Requests for all days, or also for the first one alone.                *)
AllDays   == {Days}
DayOrBoth == {{d1}, {d1, d2}}

(* Only the rows of completed runs are read after their end (state/        *)
(* telegramBackup.js:87, 232) and only the catalogues of the channel; the  *)
(* requests of other runs matter to no later step, and to the properties   *)
(* only if they were restores or the runs were cancelled or cleared.       *)
View ==
    <<files, row, artifact, sent, work, waiting, bounds,
      [r \in Runs |->
        [by |-> IF row[r] = "failed" THEN "server" ELSE origin[r],
         for |-> IF row[r] \in {"cancelled", "completed"} \/ work.run = r \/ kind[r] = "restore"
                 THEN kind[r] ELSE "full",
         of |-> IF row[r] = "completed" \/ work.run = r THEN saw[r] ELSE Nothing,
         as |-> IF r \in sent \/ work.run = r THEN assets[r] ELSE Nothing]]>>

=============================================================================
