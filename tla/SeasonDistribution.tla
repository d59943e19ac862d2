------------------------- MODULE SeasonDistribution -------------------------
(***************************************************************************)
(* The hourly task that assigns seasons to transactions                      *)
(* (whimo/contrib/tasks/season_distribution.py): batches by primary key, one *)
(* query per transaction, one bulk update per batch.                         *)
(***************************************************************************)
EXTENDS Schema, FiniteSetsExt

CONSTANT BatchSize

ASSUME DistributionAssumption == BatchSize \in Nat \ {0}

VARIABLE run    \* the run in progress: its place, the last key read, its batch and what it found

NoRun == [at |-> "off", last |-> 0, batch |-> {}, found |-> <<>>]

DistributionTypeOK ==
  /\ run.at \in {"off", "read", "match"}
  /\ run.last \in Keys \cup {0}
  /\ run.batch \subseteq Keys
  /\ DOMAIN run.found \subseteq run.batch
  /\ \A k \in DOMAIN run.found : run.found[k] \in Seasons \cup {None}

\* Celery beat, at the minute; and the retry of a run that failed.
Start ==
  /\ run.at = "off"
  /\ run' = [NoRun EXCEPT !.at = "read"]
  /\ UNCHANGED tables

\* The first BatchSize keys of a set, in the order of the keys.
FirstOf(keys) == {k \in keys : Cardinality({j \in keys : j < k}) < BatchSize}

ReadBatch ==
  LET open == {k \in Written : trx[k].season = None /\ k > run.last}
      batch == FirstOf(open) IN
  /\ run.at = "read"
  /\ run' = IF batch = {} THEN NoRun
            ELSE [at |-> "match", last |-> Max(batch), batch |-> batch, found |-> <<>>]
  /\ UNCHANGED tables

Covers(s, moment) == season[s].start <= moment /\ (season[s].end = 0 \/ moment <= season[s].end)

\* ORDER BY start_date, id: PostgreSQL puts NULL last.
Before(s, t) ==
  LET start(u) == IF season[u].start = 0 THEN Cardinality(Keys) + 1 ELSE season[u].start IN
  start(s) < start(t) \/ (start(s) = start(t) /\ s <= t)

\* _find_matching_season.
MatchingSeason(created, c) ==
  LET matching == {s \in OpenSeasons : Covers(s, created) /\ <<s, c>> \in participant} IN
  IF matching = {} THEN None ELSE CHOOSE s \in matching : \A t \in matching : Before(s, t)

\* The rows of a batch were read before: only what never changes is used of them.
MatchOne ==
  LET left == run.batch \ DOMAIN run.found
      k == Min(left) IN
  /\ run.at = "match" /\ left # {}
  /\ run' = [run EXCEPT !.found = [j \in DOMAIN run.found \cup {k} |->
               IF j = k THEN MatchingSeason(trx[k].created, trx[k].commodity) ELSE run.found[j]]]
  /\ UNCHANGED tables

\* Mutant: the season is not a foreign key.
WriteUnchecked ==
  /\ run.at = "match" /\ run.batch = DOMAIN run.found
  /\ trx' = [k \in Keys |-> IF k \in run.batch THEN [trx[k] EXCEPT !.season = run.found[k]] ELSE trx[k]]
  /\ run' = [run EXCEPT !.at = "read", !.batch = {}, !.found = <<>>]
  /\ UNCHANGED <<commodity, group, season, participant, recipe, input, output, balance, history, file>>

\* Mutant: what was found is kept for the next batch.
WriteKeepingFound ==
  /\ run.at = "match" /\ run.batch = DOMAIN run.found
  /\ IF \A k \in run.batch : run.found[k] \in OpenSeasons \cup {None}
     THEN /\ trx' = [k \in Keys |-> IF k \in run.batch THEN [trx[k] EXCEPT !.season = run.found[k]] ELSE trx[k]]
          /\ run' = [run EXCEPT !.at = "read", !.batch = {}]
     ELSE UNCHANGED trx /\ run' = NoRun
  /\ UNCHANGED <<commodity, group, season, participant, recipe, input, output, balance, history, file>>

\* Mutant: a batch that found nothing for some transaction ends the run.
WriteOrStop ==
  /\ run.at = "match" /\ run.batch = DOMAIN run.found
  /\ IF \A k \in run.batch : run.found[k] \in OpenSeasons
     THEN /\ trx' = [k \in Keys |-> IF k \in run.batch THEN [trx[k] EXCEPT !.season = run.found[k]] ELSE trx[k]]
          /\ run' = [run EXCEPT !.at = "read", !.batch = {}, !.found = <<>>]
     ELSE UNCHANGED trx /\ run' = NoRun
  /\ UNCHANGED <<commodity, group, season, participant, recipe, input, output, balance, history, file>>

\* bulk_update: no signals, no history.  It fails when one of the seasons is gone.
WriteBatch ==
  /\ run.at = "match" /\ run.batch = DOMAIN run.found
  /\ IF \A k \in run.batch : run.found[k] \in OpenSeasons \cup {None}
     THEN /\ trx' = [k \in Keys |-> IF k \in run.batch THEN [trx[k] EXCEPT !.season = run.found[k]] ELSE trx[k]]
          /\ run' = [run EXCEPT !.at = "read", !.batch = {}, !.found = <<>>]
     ELSE UNCHANGED trx /\ run' = NoRun
  /\ UNCHANGED <<commodity, group, season, participant, recipe, input, output, balance, history, file>>

Distribute == Start \/ ReadBatch \/ MatchOne \/ WriteBatch

\* Transactions that a season waits for.
Unassigned ==
  {k \in Written : trx[k].season = None /\ MatchingSeason(trx[k].created, trx[k].commodity) # None}
=============================================================================
