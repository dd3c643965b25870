---------------------------- MODULE ParameterSearch ----------------------------
(***************************************************************************)
(* Parameter sweeps and walk-forward runs: backtest/sweep.py, search/ and  *)
(* walk_forward.py.                                                        *)
(*                                                                         *)
(* A sweep asks its search backend for parameters, runs a backtest with    *)
(* them, scores it and tells the backend, until the backend has no more;   *)
(* then it ranks the cells and writes the summary.  A walk-forward run     *)
(* does one sweep per fold on the in-sample window and one backtest with   *)
(* the best parameters on the window behind it.  A backtest is a function  *)
(* of the parameters and the window, drawn the first time it is run; the   *)
(* random generators of the backends are nondeterministic.  The rank by a  *)
(* custom expression is left out.                                          *)
(***************************************************************************)
EXTENDS BacktestReports

CONSTANTS
  Grid,          \* Grid[name]: the candidate values of a parameter, in order
  NameOrder,     \* the parameter names, in the order of the config
  Reports,       \* the reports a backtest may have
  Algos, RankBys, Schemes,   \* the configurations looked at
  Objectives,    \* objectives of the Pareto frontier
  NTrials,       \* n_trials of random and optuna
  PopSize, Generations, Elite, TournamentSize, Mutates,  \* genetic
  WindowStart, WindowEnd, NFolds, InSample, InSampleOf   \* in_sample_pct is InSample / InSampleOf

Names == ToSet(NameOrder)
Params == {p \in [Names -> UNION {ToSet(Grid[n]) : n \in Names}] :
             \A n \in Names : p[n] \in ToSet(Grid[n])}

(* A configuration has one list of candidates, not empty, per parameter; a *)
(* metric that is a number lies within Worst and -Worst; and the in-sample *)
(* part of a fold takes some time.                                         *)
ASSUME SearchAssumption ==
  /\ {NTrials, PopSize, Generations, Elite, NFolds, WindowStart, WindowEnd, InSampleOf} \subseteq Nat
  /\ NTrials >= 1 /\ PopSize >= 2 /\ Generations >= 1 /\ Elite < PopSize /\ NFolds >= 1
  /\ WindowStart < WindowEnd /\ InSample \in 1..(InSampleOf - 1)
  /\ InSample * (WindowEnd - WindowStart) >= NFolds * InSampleOf
  /\ NameOrder \in Seq(Names) /\ NameOrder # <<>>
  /\ \A k, l \in DOMAIN NameOrder : NameOrder[k] = NameOrder[l] => k = l
  /\ \A n \in Names : Grid[n] \in Seq(ToSet(Grid[n])) /\ Grid[n] # <<>>
  /\ Algos \subseteq {"grid", "random", "optuna", "genetic"} /\ Worst \in Int /\ Worst < 0
  /\ \A r \in Reports : \A name \in DOMAIN MetricsOf(r) :
       LET value == MetricsOf(r)[name]
       IN  value # None => value \in Int /\ Worst <= value /\ value <= -Worst
  /\ \A obj \in Objectives : /\ obj.dir \in {"max", "min"}
                             /\ \A r \in Reports : obj.metric \in DOMAIN MetricsOf(r)

VARIABLES
  algo, rankBy,  \* of this run
  at,            \* where the run is
  fold,          \* the fold under way
  cell,          \* the suggested parameters
  asked,         \* suggestions so far in this sweep
  gen, pop, inGen, scores,   \* state of the genetic search
  results,       \* the sweep's cells: parameters and report
  outcome,       \* history: reports of the parameters run on this window
  best,          \* history: best score of the generation before this one
  folds          \* the walk-forward's fold results

searchVars == <<algo, rankBy, at, fold, cell, asked, gen, pop, inGen, scores, results, outcome, best, folds>>
setup == <<algo, rankBy>>
-----------------------------------------------------------------------------
(* slice_folds(): equal windows, the first part of each is in-sample; an   *)
(* expanding in-sample window starts at the very start.                    *)
WindowEdge(i) == WindowStart + (i * (WindowEnd - WindowStart)) \div NFolds

InSampleEnd(i) ==
  WindowStart + (((i - 1) * InSampleOf + InSample) * (WindowEnd - WindowStart)) \div (NFolds * InSampleOf)

FoldOf(i, scheme) ==
  [inSample |-> <<IF scheme = "expanding" THEN WindowStart ELSE WindowEdge(i - 1), InSampleEnd(i)>>,
   outOfSample |-> <<InSampleEnd(i), WindowEdge(i)>>]

(* The metrics of every report.                                            *)
Metrics == [r \in Reports |-> MetricsOf(r)]

(* Smaller is better for the drawdown only.                                *)
Minimize == rankBy = "max_drawdown"

Known(name) == \A r \in Reports : name \in DOMAIN Metrics[r]

(* run(): an unknown metric scores 0.0, one without a number worst of all; *)
(* a score is negated when smaller is better.                              *)
ScoreOf(r) ==
  IF ~Known(rankBy) THEN 0
  ELSE IF Metrics[r][rankBy] = None THEN Worst
  ELSE IF Minimize THEN -Metrics[r][rankBy] ELSE Metrics[r][rankBy]

(* SweepReport.ranked: sorting raises when it compares with a None, which  *)
(* it does as soon as there are two cells.                                 *)
Unrankable ==
  /\ Len(results) > 1 /\ Known(rankBy)
  /\ \E i \in DOMAIN results : results[i].metrics[rankBy] = None

RankKey(i) ==
  IF ~Known(rankBy) \/ results[i].metrics[rankBy] = None THEN Worst
  ELSE IF Minimize THEN -results[i].metrics[rankBy] ELSE results[i].metrics[rankBy]

(* best(): the sort keeps the order of equals in either direction.         *)
BestCell ==
  LET top == {i \in DOMAIN results : \A j \in DOMAIN results : RankKey(j) <= RankKey(i)}
  IN  results[Min(top)]
-----------------------------------------------------------------------------
(* GridSearch: combinations of the parameters from the k-th on; the last  *)
(* parameter of the product varies fastest.                                *)
SizeFrom[k \in 1..(Len(NameOrder) + 1)] ==
  IF k > Len(NameOrder) THEN 1 ELSE Len(Grid[NameOrder[k]]) * SizeFrom[k + 1]

GridSize == SizeFrom[1]
Place(n) == CHOOSE k \in DOMAIN NameOrder : NameOrder[k] = n
Candidate(i, n) == 1 + (((i - 1) \div SizeFrom[Place(n) + 1]) % Len(Grid[n]))

GridPoint(i) == [n \in Names |-> Grid[n][Candidate(i, n)]]

(* GeneticSearch: the score of an individual that was not reported is the  *)
(* worst; equal individuals share theirs.                                  *)
Fitness(i) == IF pop[i] \in DOMAIN scores THEN scores[pop[i]] ELSE Worst

(* scored.sort(): by score, best first, equals in their order.             *)
ByScore ==
  CHOOSE s \in [1..PopSize -> 1..PopSize] :
    /\ \A i, j \in 1..PopSize : i < j =>
         \/ Fitness(s[i]) > Fitness(s[j])
         \/ Fitness(s[i]) = Fitness(s[j]) /\ s[i] < s[j]
    /\ \A i \in 1..PopSize : \E j \in 1..PopSize : s[j] = i

(* _tournament(): the best of so many drawn without replacement.           *)
Drawn == Min({PopSize, Max({2, Min({TournamentSize, PopSize})})})

Winners ==
  {pop[i] : i \in {x \in 1..PopSize :
     Cardinality({y \in 1..PopSize : Fitness(y) <= Fitness(x)}) >= Drawn}}

(* _crossover() and _mutate(): each gene is of one parent, or any value.   *)
Children ==
  IF Mutates THEN Params
  ELSE LET parents == Winners
       IN  {c \in Params : \E p, q \in parents : \A n \in Names : c[n] \in {p[n], q[n]}}

(* (mutant) Every slot is bred.                                            *)
NextPopulationsNoElite == [1..PopSize -> Children]

(* _advance_generation(): the elite carries over, the rest is bred.        *)
NextPopulations ==
  LET kept == [i \in 1..Elite |-> pop[ByScore[i]]]
  IN  {kept \o bred : bred \in [1..(PopSize - Elite) -> Children]}

(* next_params(): the last generation is not bred from.                    *)
MoreToBreed(g) == g < Generations

BestFitness == Max({Fitness(i) : i \in 1..PopSize})
-----------------------------------------------------------------------------
(* build_search_strategy(): a backend of its own for each sweep.           *)
FreshSweep ==
  /\ at' = "suggest"
  /\ asked' = 0 /\ gen' = 0 /\ inGen' = 0 /\ scores' = <<>>
  /\ pop' \in (IF algo = "genetic" THEN [1..PopSize -> Params] ELSE {<<>>})
  /\ results' = <<>> /\ outcome' = <<>> /\ best' = Worst

SearchInit ==
  /\ algo \in Algos /\ rankBy \in RankBys
  /\ at = "suggest" /\ fold = 1 /\ cell = <<>>
  /\ asked = 0 /\ gen = 0 /\ inGen = 0 /\ scores = <<>>
  /\ pop \in (IF algo = "genetic" THEN [1..PopSize -> Params] ELSE {<<>>})
  /\ results = <<>> /\ outcome = <<>> /\ best = Worst
  /\ folds = <<>>

(* The backend suggests parameters to run, or has no more.                 *)
Suggested(p) ==
  /\ cell' = p /\ at' = "run" /\ asked' = asked + 1

SuggestGrid ==
  /\ at = "suggest" /\ algo = "grid"
  /\ IF asked < GridSize THEN Suggested(GridPoint(asked + 1))
     ELSE at' = "rank" /\ UNCHANGED <<cell, asked>>
  /\ UNCHANGED <<setup, fold, gen, pop, inGen, scores, results, outcome, best, folds>>

(* _yielded, _completed: the trials of the sweep so far.                   *)
DrawnSoFar == asked

(* RandomSearch draws NTrials times; so does OptunaSearch, whose sampler   *)
(* may draw anything.                                                      *)
SuggestDrawn ==
  /\ at = "suggest" /\ algo \in {"random", "optuna"}
  /\ IF DrawnSoFar < NTrials THEN \E p \in Params : Suggested(p)
     ELSE at' = "rank" /\ UNCHANGED <<cell, asked>>
  /\ UNCHANGED <<setup, fold, gen, pop, inGen, scores, results, outcome, best, folds>>

SuggestGenetic ==
  /\ at = "suggest" /\ algo = "genetic"
  /\ IF inGen < PopSize
     THEN /\ Suggested(pop[inGen + 1])
          /\ inGen' = inGen + 1
          /\ UNCHANGED <<gen, pop, scores, best>>
     ELSE /\ gen' = gen + 1
          /\ best' = BestFitness
          /\ scores' = <<>>
          /\ IF MoreToBreed(gen + 1)
             THEN pop' \in NextPopulations /\ Suggested(pop'[1]) /\ inGen' = 1
             ELSE at' = "rank" /\ inGen' = 0 /\ pop' = <<>> /\ UNCHANGED <<cell, asked>>
  /\ UNCHANGED <<setup, fold, results, outcome, folds>>

(* A dict with d[key] = value.                                             *)
Put(d, key, value) == [k \in DOMAIN d \cup {key} |-> IF k = key THEN value ELSE d[k]]

(* _run_cell(), the score and report() to the backend.                     *)
RunCell ==
  /\ at = "run"
  /\ \E r \in (IF cell \in DOMAIN outcome THEN {outcome[cell]} ELSE Reports) :
       /\ outcome' = Put(outcome, cell, r)
       /\ results' = Append(results, [params |-> cell, report |-> r, metrics |-> Metrics[r]])
       /\ scores' = IF algo = "genetic" THEN Put(scores, cell, ScoreOf(r)) ELSE scores
  /\ at' = "suggest"
  /\ UNCHANGED <<setup, fold, cell, asked, gen, pop, inGen, best, folds>>

(* _persist(): writing the summary ranks the cells.                        *)
Rank ==
  /\ at = "rank"
  /\ at' = IF Unrankable THEN "raised" ELSE "ranked"
  /\ UNCHANGED <<setup, fold, cell, asked, gen, pop, inGen, scores, results, outcome, best, folds>>

(* WalkForward.run(): the fold's best parameters, ...                      *)
Chosen == BestCell

(* ... evaluated out of sample; then the next fold's sweep.                *)
Evaluate ==
  /\ at = "ranked"
  /\ folds' = Append(folds, [index |-> fold, params |-> Chosen.params])
  /\ IF fold < NFolds
     THEN fold' = fold + 1 /\ FreshSweep /\ cell' = <<>>
     ELSE /\ at' = "done"
          /\ UNCHANGED <<fold, cell, asked, gen, pop, inGen, scores, results, outcome, best>>
  /\ UNCHANGED setup

SearchNext == SuggestGrid \/ SuggestDrawn \/ SuggestGenetic \/ RunCell \/ Rank \/ Evaluate
-----------------------------------------------------------------------------
SearchTypeOK ==
  /\ at \in {"suggest", "run", "rank", "raised", "ranked", "done"}
  /\ fold \in 1..NFolds
  /\ Len(results) <= asked
  /\ \A i \in DOMAIN results : results[i].params \in Params /\ results[i].report \in Reports
  /\ pop \in [1..PopSize -> Params] \cup {<<>>}
  /\ gen \in 0..Generations /\ inGen \in 0..PopSize
  /\ \A i \in DOMAIN folds : folds[i].index = i /\ folds[i].params \in Params

(* The best of a generation is never worse than the best of the one before *)
(* it: the elite is run again and scores what it scored.                   *)
EliteSurvives ==
  algo = "genetic" /\ at = "suggest" /\ inGen = PopSize /\ Elite > 0 => BestFitness >= best

(* A grid sweep runs every combination once: parameters as often as there  *)
(* are candidates, one for each name, that give them.                      *)
Combos == {c \in [Names -> UNION {DOMAIN Grid[n] : n \in Names}] : \A n \in Names : c[n] \in DOMAIN Grid[n]}

GridExhausted ==
  algo = "grid" /\ at \in {"rank", "ranked", "raised"} =>
    \A p \in Params :
      Cardinality({i \in DOMAIN results : results[i].params = p}) =
      Cardinality({c \in Combos : \A n \in Names : Grid[n][c[n]] = p[n]})

(* No fold is evaluated on data that any fold up to it was fitted on, and  *)
(* no data are evaluated twice.                                            *)
NoLookahead ==
  \A s \in Schemes : \A i, j \in DOMAIN folds :
    LET a == FoldOf(folds[i].index, s)
        b == FoldOf(folds[j].index, s)
    IN  /\ a.inSample[1] < a.inSample[2]
        /\ i <= j => a.inSample[2] <= b.outOfSample[1]
        /\ i < j => a.outOfSample[2] <= b.outOfSample[1]

(* The frontier of a sweep holds a best cell of every objective, and every *)
(* other cell is dominated by one of the frontier.                         *)
FrontierSound ==
  at \in {"ranked", "raised"} =>
    LET cells == [i \in DOMAIN results |-> results[i].metrics]
        f == Frontier(cells, Objectives)
    IN  /\ \A obj \in Objectives : \E i \in f : \A j \in DOMAIN cells :
              ~Better(cells[j], cells[i], obj)
        /\ \A j \in DOMAIN cells \ f : \E i \in f : Dominates(cells[i], cells[j], Objectives)

(* A sweep runs as many backtests as total_trials says it will, whether or *)
(* not it draws the same parameters again.                                 *)
RunsAnnounced ==
  at \in {"rank", "ranked", "raised"} =>
    Len(results) = CASE algo = "grid" -> GridSize
                     [] algo = "genetic" -> PopSize * Generations
                     [] OTHER -> NTrials

(* The parameters a fold goes on with are those of a cell that no other    *)
(* beats in the metric it is ranked by, in the direction that is better.   *)
Ranking == [metric |-> rankBy, dir |-> IF Minimize THEN "min" ELSE "max"]

BestUnbeaten ==
  at = "ranked" /\ Known(rankBy) =>
    \A i \in DOMAIN results : ~Better(results[i].metrics, BestCell.metrics, Ranking)

(* What a search concludes follows from the runs it made.                  *)
SearchSound ==
  /\ SearchTypeOK /\ RunsAnnounced /\ EliteSurvives /\ GridExhausted /\ NoLookahead
  /\ FrontierSound /\ BestUnbeaten

-----------------------------------------------------------------------------
(* The drawdown is the deepest fall from an earlier equity, the initial    *)
(* balance included.                                                       *)
DeepestFall(r) ==
  LET eq == <<r.initial>> \o Equities(r)
  IN  Max({eq[p[1]] - eq[p[2]] : p \in {x \in (DOMAIN eq) \X (DOMAIN eq) : x[1] <= x[2]}})

(* What a portfolio is worth at an instant, the highest it has been by     *)
(* then, and how far below that it is, in percent.                         *)
Worth(rs, t) == Total([i \in DOMAIN rs |-> EquityAt(rs[i], t)])
HighestBy(rs, t) == Max({Worth(rs, u) : u \in {x \in Instants(rs) : x <= t}})
BelowBy(rs, t) ==
  LET high == HighestBy(rs, t)
  IN  IF high > 0 THEN (100 * (high - Worth(rs, t))) \div high ELSE 0

(* The drawdown of a portfolio is the deepest fall of what it is worth;    *)
(* what it is worth falls no further than its reports together; and its    *)
(* result is the sum of theirs when their curves end with the final        *)
(* balance.                                                                *)
Complete(r) == r.curve # <<>> /\ r.curve[Len(r.curve)][2] = r.final

PortfolioAddsUp(rs) ==
  /\ PortfolioDrawdown(rs) = Max({0} \cup {BelowBy(rs, t) : t \in Instants(rs)})
  /\ \A t \in Instants(rs) : HighestBy(rs, t) - Worth(rs, t) <=
                                Total([i \in DOMAIN rs |-> MaxDrawdown(rs[i])])
  /\ (\A i \in DOMAIN rs : Complete(rs[i])) =>
       FinalOf(rs) - InitialOf(rs) = Total([i \in DOMAIN rs |-> NetPnl(rs[i])])

(* The bands of a bootstrap are ordered, and the envelope ends with the    *)
(* bands of the result.                                                    *)
BandsOrdered(r) ==
  \A sims \in [1..2 -> Samples(r)] : \A p, q \in {5, 50, 95} :
    p <= q =>
      /\ \A k \in DOMAIN r.trades : Envelope(r, sims, p)[k] <= Envelope(r, sims, q)[k]
      /\ Envelope(r, sims, p)[Len(r.trades)] = NetPnlBand(r, sims, p) + 100 * r.initial

ReportSound(r) == MaxDrawdown(r) = DeepestFall(r) /\ (r.trades # <<>> => BandsOrdered(r))

(* What is computed from the reports of a search is right; the first grid  *)
(* sweep sees every pair of reports.                                       *)
AnalysisSound ==
  algo = "grid" /\ folds = <<>> /\ at \in {"ranked", "raised"} =>
    LET seen == {results[i].report : i \in DOMAIN results}
    IN  /\ \A r \in seen : ReportSound(r)
        /\ \A a, b \in seen : PortfolioAddsUp(<<a, b>>)
=============================================================================
