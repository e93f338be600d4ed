---------------------------- MODULE WindowedFits ----------------------------
(* run_pipeline of run_week5_empirical.py: cleaned trades are merged, cut into
   overlapping windows, and every window is fitted with an exponential Hawkes
   process (several starting points) and a truncated power-law one (started
   from the fit of the window before, behind a cache of the objective).

   Times are integers.  The optimisers are external: they try what points they
   like and end well or badly.                                               *)
EXTENDS Integers, FiniteSets, SequencesExt

CONSTANTS
  Rows,                    (* the trades of the files: [id, ts, big]          *)
  MaxRows,                 (* bound: rows read, repeated ones included        *)
  WindowSeconds, Step,     (* Step is WindowSeconds * (1 - overlap)           *)
  Truncation, MinExp, MinPow,
  LogLiks,                 (* log-likelihoods an exponential fit may end with *)
  Thetas, Near,            (* points of the power-law fit; np.allclose        *)
  MaxEvals,                (* bound: evaluations the optimiser makes          *)
  MaxWindows,              (* --max-windows                                   *)
  NoValue                  (* None                                            *)

VARIABLES
  step,                    (* "read", "window", "exp", "pow", "done"          *)
  rows,                    (* what the files hold, in the order they are read *)
  trades,                  (* the merged trades                               *)
  windowId, windows,       (* the window of the loop, the windows kept        *)
  seed, tried,             (* the next starting point; the fits that ended      *)
  bestOverall, bestStable, expFits,
  lastX, valueAt, asked, evals, prevPow, powFits
vars == <<step, rows, trades, windowId, windows, seed, tried, bestOverall,
          bestStable, expFits, lastX, valueAt, asked, evals, prevPow, powFits>>

expVars == <<seed, tried, bestOverall, bestStable, expFits>>
powVars == <<lastX, valueAt, asked, evals, prevPow, powFits>>

Init ==
  /\ step = "read" /\ rows = <<>> /\ trades = <<>> /\ windowId = 0 /\ windows = <<>>
  /\ seed = 0 /\ tried = {} /\ bestOverall = NoValue /\ bestStable = NoValue
  /\ expFits = <<>>
  /\ lastX = NoValue /\ valueAt = NoValue /\ asked = NoValue /\ evals = 0
  /\ prevPow = NoValue /\ powFits = <<>>

-----------------------------------------------------------------------------
(* Trades and windows                                                        *)

Read(row) ==
  /\ step = "read" /\ Len(rows) < MaxRows
  /\ rows' = Append(rows, row)
  /\ UNCHANGED <<step, trades, windowId, windows, expVars, powVars>>

\* load_clean_trades drops repeated ids and sorts by time.
Merged(rs) ==
  LET firsts == {k \in DOMAIN rs : \A j \in 1 .. k - 1 : rs[j].id # rs[k].id} IN
  SortSeq([k \in 1 .. Cardinality(firsts) |-> rs[SetToSortSeq(firsts, <)[k]]],
          LAMBDA a, b : a.ts < b.ts)

\* normalise_timestamps: seconds since the first trade.
Elapsed(t) == t.ts - Head(trades).ts

Load ==
  /\ step = "read" /\ rows # <<>>
  /\ trades' = Merged(rows) /\ step' = "window"
  /\ UNCHANGED <<rows, windowId, windows, expVars, powVars>>

Start == windowId * Step
Inside(t) == Elapsed(t) >= Start /\ Elapsed(t) < Start + WindowSeconds
FullWindow == Start + WindowSeconds <= Elapsed(Last(trades))

\* iter_windows: a window without trades is passed over, its number used up.
SkipEmpty ==
  /\ step = "window" /\ Len(windows) < MaxWindows /\ FullWindow
  /\ SelectSeq(trades, Inside) = <<>>
  /\ windowId' = windowId + 1
  /\ UNCHANGED <<step, rows, trades, windows, expVars, powVars>>

Times(ts) == [k \in DOMAIN ts |-> Elapsed(ts[k]) - Start]

Take ==
  /\ step = "window" /\ Len(windows) < MaxWindows /\ FullWindow
  /\ LET all == SelectSeq(trades, Inside) IN
     /\ all # <<>>
     /\ windows' = Append(windows,
          [id |-> windowId, start |-> Start, all |-> Times(all),
           filtered |-> Times(SelectSeq(all, LAMBDA t : t.big))])
  /\ step' = "exp"
  /\ UNCHANGED <<rows, trades, windowId, expVars, powVars>>

Finish ==
  /\ step = "window" /\ (Len(windows) = MaxWindows \/ ~FullWindow)
  /\ step' = "done"
  /\ UNCHANGED <<rows, trades, windowId, windows, expVars, powVars>>

-----------------------------------------------------------------------------
(* fit_exponential: starting points are tried until one gives a branching
   ratio below EXP_RHO_MAX.                                                  *)

Seeds == 4
Better(new, old) == old = NoValue \/ new.loglik > old.loglik

Chosen(stable, overall) == IF stable # NoValue THEN stable ELSE overall

TooFew == step = "exp" /\ Len(Last(windows).all) < MinExp
Trying == step = "exp" /\ ~TooFew /\ seed < Seeds /\ bestStable = NoValue

\* A fit that raises or ends on a point that is not finite counts for nothing.
SeedFails ==
  /\ Trying /\ seed' = seed + 1
  /\ UNCHANGED <<step, rows, trades, windowId, windows, tried, bestOverall,
                 bestStable, expFits, powVars>>

SeedEnds(candidate) ==
  /\ Trying /\ seed' = seed + 1 /\ tried' = tried \cup {candidate}
  /\ bestOverall' = IF Better(candidate, bestOverall) THEN candidate ELSE bestOverall
  /\ bestStable' = IF candidate.stable THEN candidate ELSE bestStable
  /\ UNCHANGED <<step, rows, trades, windowId, windows, expFits, powVars>>

ExpDone ==
  /\ step = "exp" /\ ~Trying
  /\ expFits' = Append(expFits, Chosen(bestStable, bestOverall))
  /\ step' = "pow"
  /\ UNCHANGED <<rows, trades, windowId, windows, seed, tried, bestOverall,
                 bestStable, powVars>>

-----------------------------------------------------------------------------
(* PowerLawObjective and fit_powerlaw                                        *)

AllClose(x, y) == x - y \in -Near .. Near

Enough == Len(Last(windows).filtered) >= MinPow
Initial == IF prevPow = NoValue THEN Min(Thetas) ELSE prevPow

\* Mutant: the point of the cache moves when it answers.
RememberedMoves(theta, hit) == theta
\* The point the cached value was computed at.
Remembered(theta, hit) == IF hit THEN lastX ELSE theta

\* value or grad at a point; the optimiser begins at the initial one.
Ask(theta) ==
  /\ step = "pow" /\ Enough /\ evals < MaxEvals /\ (evals = 0 => theta = Initial)
  /\ LET hit == lastX # NoValue /\ AllClose(theta, lastX) IN
     /\ valueAt' = IF hit THEN valueAt ELSE theta
     /\ lastX' = Remembered(theta, hit)
  /\ asked' = theta /\ evals' = evals + 1
  /\ UNCHANGED <<step, rows, trades, windowId, windows, expVars, prevPow, powFits>>

\* run_pipeline's prev_pow.
WarmStart(fit) == IF fit.success THEN fit.theta ELSE NoValue

\* minimize returns one of the points (any, here) and may have failed; a window
\* with too few events is not fitted.  The loop goes on to the next window.
PowDone ==
  /\ step = "pow" /\ (Enough => evals > 0)
  /\ \E fit \in [theta : IF Enough THEN Thetas ELSE {NoValue},
                success : IF Enough THEN BOOLEAN ELSE {FALSE}] :
       /\ powFits' = Append(powFits,
            [theta |-> fit.theta, success |-> fit.success, from |-> prevPow])
       /\ prevPow' = WarmStart(fit)
  /\ seed' = 0 /\ tried' = {} /\ bestOverall' = NoValue /\ bestStable' = NoValue
  /\ lastX' = NoValue /\ valueAt' = NoValue /\ asked' = NoValue /\ evals' = 0
  /\ windowId' = windowId + 1 /\ step' = "window"
  /\ UNCHANGED <<rows, trades, windows, expFits>>

Next ==
  \/ \E row \in Rows : Read(row)
  \/ Load \/ SkipEmpty \/ Take \/ Finish \/ SeedFails
  \/ \E candidate \in [stable : BOOLEAN, loglik : LogLiks] : SeedEnds(candidate)
  \/ ExpDone
  \/ \E theta \in Thetas : Ask(theta)
  \/ PowDone

Spec == Init /\ [][Next]_vars

-----------------------------------------------------------------------------
(* The history of the power-law kernel                                       *)

InHistory(lag, dt) == lag + dt <= Truncation

\* active_lags of _powerlaw_loglik_grad and _powerlaw_residuals after event k.
ActiveLags(times) ==
  LET lags[k \in 0 .. Len(times)] ==
        IF k = 0 THEN <<>>
        ELSE LET dt == times[k] - (IF k = 1 THEN 0 ELSE times[k - 1])
                 kept == SelectSeq(lags[k - 1], LAMBDA lag : InHistory(lag, dt)) IN
             Append([j \in DOMAIN kept |-> kept[j] + dt], 0) IN
  lags

\* active_times of compute_powerlaw_intensity_grid at second t.
ActiveTimes(times) ==
  LET active[t \in 0 .. WindowSeconds] ==
        SelectSeq((IF t = 0 THEN <<>> ELSE active[t - 1])
                    \o SelectSeq(times, LAMBDA s : s <= t /\ (t = 0 \/ s > t - 1)),
                  LAMBDA s : InHistory(t - s, 0)) IN
  active

-----------------------------------------------------------------------------
(* A window holds each trade of its interval once, however many of the files
   have it, and the windows left out of the loop had none.                   *)
WindowsHoldTheirTrades ==
  /\ \A w \in ToSet(windows) :
       Len(w.all) = Cardinality({r \in ToSet(rows) :
                      Elapsed(r) - w.start \in 0 .. WindowSeconds - 1})
  /\ \A id \in 0 .. windowId - 1 :
       id \in {w.id : w \in ToSet(windows)}
         <=> \E r \in ToSet(rows) : Elapsed(r) - id * Step \in 0 .. WindowSeconds - 1

(* fit_exponential keeps a stable fit when it met one, and otherwise the
   likeliest of those it met.                                                *)
ExpFitJustified ==
  step = "pow" =>
    LET fit == Last(expFits) IN
    IF tried = {} THEN fit = NoValue
    ELSE /\ fit \in tried
         /\ IF \E c \in tried : c.stable THEN fit.stable
            ELSE \A c \in tried : c.loglik <= fit.loglik

(* What the objective answers was computed near the point it was asked for,
   however many answers the cache gave in a row.                             *)
CacheAnswersNear == asked # NoValue => AllClose(asked, valueAt)

(* A power-law fit starts from the fit of the window before it, when that one
   succeeded, and from the default otherwise.                                *)
WarmStartIsLastFit ==
  \A k \in DOMAIN powFits :
    powFits[k].from = IF k > 1 /\ powFits[k - 1].success THEN powFits[k - 1].theta
                      ELSE NoValue

(* The incremental histories of the kernel are the events of the last
   Truncation seconds; the likelihood leaves out the event itself, the grid
   counts those of its second.                                               *)
HistoryIsTruncated ==
  \A w \in ToSet(windows) :
    LET times == w.filtered IN
    /\ \A k \in DOMAIN times :
         ActiveLags(times)[k] =
           LET recent == {j \in 1 .. k : times[k] - times[j] <= Truncation} IN
           [i \in 1 .. Cardinality(recent) |-> times[k] - times[Min(recent) + i - 1]]
    /\ \A t \in 0 .. WindowSeconds :
         ActiveTimes(times)[t] = SelectSeq(times, LAMBDA s : t - s \in 0 .. Truncation)

(* The fits of the windows are justified: the trades they are of, the start
   they were given, the values they compared and the one they kept
   (run_week5_empirical.py:326-688, 1050-1103).                            *)
FitsAreJustified ==
  /\ WindowsHoldTheirTrades /\ ExpFitJustified /\ CacheAnswersNear
  /\ WarmStartIsLastFit /\ HistoryIsTruncated

=============================================================================
