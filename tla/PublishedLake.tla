---------------------------- MODULE PublishedLake ----------------------------
(***************************************************************************)
(* What the lake promises its readers about the partitions of one          *)
(* directory, with no exporter, cleaner or process in sight.               *)
(*                                                                         *)
(* Each partition shows a reader either nothing or one complete file.  A   *)
(* rebuild swaps the old file for a newer one in a single step; between    *)
(* swaps a partition may only be withdrawn or offered again.               *)
(***************************************************************************)
EXTENDS Integers

CONSTANTS
    Markets,    \* the partitions that share the directory, one per market
    File,       \* every file a partition may ever show; f.run orders them
    Nothing     \* what a partition with no readable file shows

VARIABLE
    shown       \* shown[m] = [file |-> .., usable |-> ..]

Empty == [file |-> Nothing, usable |-> FALSE]

Init == shown = [m \in Markets |-> Empty]

(* A finished export replaces what m shows.  The new file is complete, is  *)
(* m's own, and is never older than the one it replaces.                   *)
Swap(m) ==
    LET new == shown'[m]
    IN  /\ shown' = [shown EXCEPT ![m] = new]
        /\ new \in [file: File, usable: BOOLEAN]
        /\ new.file.market = m
        /\ shown[m].file # Nothing => new.file.run > shown[m].file.run

(* m is marked stale, or an acceptance is revoked: same file, not offered. *)
Withdraw(m) ==
    /\ shown[m].usable
    /\ shown' = [shown EXCEPT ![m].usable = FALSE]

(* m is accepted, by hand or by the automatic recheck: same file, offered. *)
Offer(m) ==
    /\ ~shown[m].usable
    /\ shown[m].file # Nothing
    /\ shown' = [shown EXCEPT ![m].usable = TRUE]

Next == \E m \in Markets : Swap(m) \/ Withdraw(m) \/ Offer(m)

Spec == Init /\ [][Next]_shown
=============================================================================
