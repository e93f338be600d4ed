---------------------------- MODULE PnlAnalysis ----------------------------
(***************************************************************************)
(* pnl_analysis.cpp: the rows of a strategy calibration are decomposed     *)
(* into realized profit, slippage, impact and inventory carry, and summed  *)
(* per strategy and over all.  A row is whole, has the wrong number of     *)
(* fields, or holds a figure that is no number; the three costs, products  *)
(* of a row's figures, are any amounts, rebates included.                  *)
(***************************************************************************)
EXTENDS Integers, FiniteSets, Sequences, SequencesExt

CONSTANTS
  Strategies,  (* names in the strategy column, in sorting order          *)
  Amounts,     (* what a row may have realized or cost                    *)
  MaxRows      (* bound: rows of the file                                 *)

VARIABLES
  pc,          (* reading, written or aborted                             *)
  file,        (* the whole rows read so far                              *)
  skipped,     (* rows skipped with a message                             *)
  perStrategy, (* per_strategy: strategy -> totals, of those seen         *)
  overall,     (* overall                                                 *)
  breakdown    (* the output file's rows, in order                        *)

vars == <<pc, file, skipped, perStrategy, overall, breakdown>>

Costs == {"slippage", "impact", "carry"}
Figures == {"realized", "alpha", "count"} \cup Costs
NoTotals == [p \in Figures |-> 0]

Init ==
  /\ pc = "reading" /\ file = <<>> /\ skipped = 0
  /\ perStrategy = <<>> /\ overall = NoTotals /\ breakdown = <<>>

\* What a row earned before its costs were paid.
Alpha(row) == row.realized + row.slippage + row.impact + row.carry

Accumulated(totals, row) ==
  [p \in Figures |-> totals[p] + (CASE p = "count" -> 1 [] p = "alpha" -> Alpha(row)
                                  [] OTHER -> row[p])]

\* Mutant: a strategy's totals start again with every row.
TotalsOfNew(strategy) == NoTotals

TotalsOf(strategy) ==
  IF strategy \in DOMAIN perStrategy THEN perStrategy[strategy] ELSE NoTotals

ReadRow(row) ==
  /\ pc = "reading" /\ Len(file) < MaxRows
  /\ file' = Append(file, row)
  /\ perStrategy' = [s \in DOMAIN perStrategy \cup {row.strategy} |->
                       IF s = row.strategy THEN Accumulated(TotalsOf(s), row)
                       ELSE perStrategy[s]]
  /\ overall' = Accumulated(overall, row)
  /\ UNCHANGED <<pc, skipped, breakdown>>

\* A row with the wrong number of fields is passed over.
SkipRow ==
  /\ pc = "reading" /\ skipped = 0
  /\ skipped' = skipped + 1
  /\ UNCHANGED <<pc, file, perStrategy, overall, breakdown>>

\* A figure that is no number ends the program before anything is written.
Abort ==
  /\ pc = "reading"
  /\ pc' = "aborted"
  /\ UNCHANGED <<file, skipped, perStrategy, overall, breakdown>>

\* One row per strategy, sorted, then ALL unless there was none.
Write ==
  /\ pc = "reading"
  /\ LET names == SetToSortSeq(DOMAIN perStrategy, LAMBDA a, b : a < b)
         rows  == [k \in DOMAIN names |-> [label |-> names[k], totals |-> perStrategy[names[k]]]]
     IN breakdown' = rows \o (IF overall.count = 0 THEN <<>>
                              ELSE <<[label |-> 0, totals |-> overall]>>)
  /\ pc' = "written"
  /\ UNCHANGED <<file, skipped, perStrategy, overall>>

Rows == [strategy : Strategies, realized : Amounts, slippage : Amounts,
         impact : Amounts, carry : Amounts]

Next == (\E row \in Rows : ReadRow(row)) \/ SkipRow \/ Abort \/ Write

Spec == Init /\ [][Next]_vars

-----------------------------------------------------------------------------

(***************************************************************************)
(* The breakdown accounts for every whole row of the file, once: what the  *)
(* strategies add up to is the line ALL, which is what the file holds, and *)
(* on every line alpha is what was realized plus the costs, the identity   *)
(* docs/week7_pnl_analytics.md:42 reports (pnl_analysis.cpp:38-50,         *)
(* 239-262).                                                               *)
(***************************************************************************)
BreakdownAccounts ==
  /\ pc = "aborted" => breakdown = <<>>
  /\ pc = "written" /\ file # <<>> =>
       LET all == Last(breakdown).totals
           sumOf(p) == FoldLeft(LAMBDA x, r : x + r.totals[p], 0, Front(breakdown))
       IN /\ \A p \in Figures : sumOf(p) = all[p]
          /\ all.count = Len(file)
          /\ \A p \in Costs \cup {"realized"} :
               all[p] = FoldLeft(LAMBDA x, r : x + r[p], 0, file)
          /\ \A k \in DOMAIN breakdown :
               LET t == breakdown[k].totals
               IN t.alpha = t.realized + t.slippage + t.impact + t.carry

=============================================================================
