----------------------------- MODULE SiteScoring -----------------------------
(***************************************************************************)
(* Recalculation of site scores: recalculate_site() with the transaction   *)
(* of its callers, the CLI commands `score` and `backtest` and the route   *)
(* POST /sites/{id}/recalculate.  Any number of them run at once, each in  *)
(* a READ COMMITTED transaction of its own, at the grain of its database   *)
(* statements; evidence is attached to sites and days pass meanwhile.      *)
(*                                                                         *)
(* A score is reduced to the stage it implies, the evidence behind it and  *)
(* its as-of date: confidences never decide what is written.  Evidence     *)
(* records carry a positive confidence, as every connector gives them, so  *)
(* a contribution has the sign of its rule's weight.                       *)
(***************************************************************************)
EXTENDS Integers, FiniteSets, Sequences

CONSTANTS
    Scorers,        \* processes that recalculate
    Sites,
    Records,        \* evidence records
    Kinds,          \* evidence kinds
    Releases,       \* scoring rule sets, all of one SCORING_MODEL_VERSION
    KindOf,         \* [Records -> Kinds]
    ObservedAt,     \* [Records -> Days]
    StageWeight,    \* [Kinds -> Int], the sign of a rule's stage_weight
    ImpliesStage,   \* [Kinds -> Stages], 0 for a rule that implies none
    MaxOccurrences, \* records of one kind that may contribute
    Measured,       \* the sites with a known acreage
    NoSite,         \* site_id of a record that is attached to none
    NoRelease,      \* calibration_notes that are empty, a model not yet stored
    MaxDay,         \* bound: the last day of the model
    MaxJobs,        \* bound: recalculations one scorer begins
    MayMove         \* whether the site builder may move a record to another site

Days == 0 .. MaxDay
Stages == 0 .. 8

ASSUME ScoringAssumption ==
    /\ IsFiniteSet(Records)
    /\ MaxDay \in Nat /\ MaxJobs \in Nat /\ MaxOccurrences \in Nat \ {0}
    /\ KindOf \in [Records -> Kinds]
    /\ ObservedAt \in [Records -> Days]
    /\ StageWeight \in [Kinds -> Int]
    /\ ImpliesStage \in [Kinds -> Stages]
    /\ Measured \subseteq Sites
    /\ NoSite \notin Sites
    /\ NoRelease \notin Releases
    /\ MayMove \in BOOLEAN

VARIABLES
    today,       \* the UTC date
    attached,    \* EvidenceRecord.site_id
    model,       \* the ModelVersion row: its parameters and what its notes name
    stage,       \* Site.current_stage
    history,     \* SiteStageHistory of a site, in commit order
    predictions, \* stage predictions of a site, in commit order
    estimates,   \* SiteEstimate: one element stands for the rows of one recalculation
    scorer,      \* what each scorer's session holds
    overlapped   \* history variable: whether two sessions were ever open at once

db == <<model, stage, history, predictions, estimates>>
vars == <<today, attached, db, scorer, overlapped>>

-----------------------------------------------------------------------------
(***************************************************************************)
(* The rules.                                                              *)
(***************************************************************************)

\* Evidence of site s that was observed by the cutoff.
load_evidence_inputs(s, asOf) ==
    {r \in Records : attached[r] = s /\ ObservedAt[r] <= asOf}

\* The records that count for the stage: of each kind the newest ones only,
\* and of those the ones whose rule adds weight.
score_site(usable) ==
    {r \in usable :
        /\ StageWeight[KindOf[r]] > 0
        /\ Cardinality({q \in usable : /\ KindOf[q] = KindOf[r]
                                       /\ ObservedAt[q] > ObservedAt[r]}) < MaxOccurrences}

\* Mutant: the lowest stage any record implies.
infer_stageLowest(positive) ==
    LET implied == {8} \cup ({ImpliesStage[KindOf[r]] : r \in positive} \ {0})
    IN  IF positive = {} THEN 0 ELSE CHOOSE n \in implied : \A k \in implied : n <= k

\* The highest stage that a contributing rule implies, 0 if there is none.
infer_stage(positive) ==
    LET implied == {0} \cup {ImpliesStage[KindOf[r]] : r \in positive}
    IN  CHOOSE n \in implied : \A k \in implied : k <= n

\* The earliest date among all positive contributions, else the cutoff.
effective_date(positive, asOf) ==
    IF positive = {} THEN asOf
    ELSE CHOOSE d \in {ObservedAt[r] : r \in positive} :
            \A r \in positive : d <= ObservedAt[r]

-----------------------------------------------------------------------------
(***************************************************************************)
(* A session.                                                              *)
(***************************************************************************)

Results == [from : Stages, to : Stages, asOf : Days, triggers : SUBSET Records]
NoResult == [from |-> 0, to |-> 0, asOf |-> 0, triggers |-> {}]

\* A batch of estimate rows is named by its site and the recalculation it is from.
Batches == [site : Sites, by : Scorers, job : 1 .. MaxJobs, stage : Stages]

Model == [hash : Releases \cup {NoRelease}, notes : Releases \cup {NoRelease}]

Steps == {"idle", "model", "insert_model", "evidence", "delete", "deleting", "flush"}

Session ==
    [pc : Steps, jobs : 0 .. MaxJobs, backtest : BOOLEAN,
     rules : Releases \cup {NoRelease},
     todo : SUBSET Sites,           \* sites still to score
     at : Sites \cup {NoSite},      \* the site being scored
     asOf : Days,                   \* and the cutoff for it
     seen : [Sites -> Stages],      \* current_stage as the session loaded it
     result : [Sites -> Results], done : SUBSET Sites,
     creates : BOOLEAN, notes : BOOLEAN,   \* unflushed or uncommitted ModelVersion
     doomed : SUBSET Batches,       \* rows the DELETE statement has set out to delete
     deleted : SUBSET Batches]      \* rows it has deleted, locked until the end

Idle(jobs) ==
    [pc |-> "idle", jobs |-> jobs, backtest |-> FALSE, rules |-> NoRelease,
     todo |-> {}, at |-> NoSite, asOf |-> 0, seen |-> [s \in Sites |-> 0],
     result |-> [s \in Sites |-> NoResult], done |-> {},
     creates |-> FALSE, notes |-> FALSE, doomed |-> {}, deleted |-> {}]

HistoryRow == [from : Stages, to : Stages, effective : Days, triggers : SUBSET Records]
PredictionRow == [stage : Stages, asOf : Days, rules : Releases, backtest : BOOLEAN]

\* The model row may be there from before; nothing has been scored with it.
Init ==
    /\ today = 0
    /\ attached = [r \in Records |-> NoSite]
    /\ \E hash \in Releases \cup {NoRelease} :
          model = [hash |-> hash, notes |-> NoRelease]
    /\ stage = [s \in Sites |-> 0]
    /\ history = [s \in Sites |-> <<>>]
    /\ predictions = [s \in Sites |-> <<>>]
    /\ estimates = [s \in Sites |-> {}]
    /\ scorer = [p \in Scorers |-> Idle(0)]
    /\ overlapped = FALSE

-----------------------------------------------------------------------------
(***************************************************************************)
(* Surroundings.                                                           *)
(***************************************************************************)

Midnight ==
    /\ today < MaxDay
    /\ today' = today + 1
    /\ UNCHANGED <<attached, db, scorer, overlapped>>

\* Ingestion or the site builder commits the site of an evidence record.  A
\* record that has a site goes to another one when a later pass links its
\* permit there; none is ever detached.
Attach(r, s) ==
    /\ attached[r] # s
    /\ attached[r] = NoSite \/ MayMove
    /\ attached' = [attached EXCEPT ![r] = s]
    /\ UNCHANGED <<today, db, scorer, overlapped>>

-----------------------------------------------------------------------------
(***************************************************************************)
(* A recalculation.                                                        *)
(***************************************************************************)

\* Mutant: the stage before is taken to be the first one, the row is not read.
BeginUnread(p, rules, sites, backtest) ==
    /\ scorer[p].pc = "idle"
    /\ scorer[p].jobs < MaxJobs
    /\ scorer' = [scorer EXCEPT ![p] =
                    [Idle(@.jobs + 1) EXCEPT !.pc = "model", !.backtest = backtest,
                                             !.rules = rules, !.todo = sites]]
    /\ overlapped' = (overlapped \/ \E q \in Scorers : scorer[q].pc # "idle")
    /\ UNCHANGED <<today, attached, db>>

\* The session loads its Site rows: one for the API, one or all for the CLI.
\* Processes of different releases, with different rules, run side by side.
Begin(p, rules, sites, backtest) ==
    /\ scorer[p].pc = "idle"
    /\ scorer[p].jobs < MaxJobs
    /\ scorer' = [scorer EXCEPT ![p] =
                    [Idle(@.jobs + 1) EXCEPT !.pc = "model", !.backtest = backtest,
                                             !.rules = rules, !.todo = sites,
                                             !.seen = stage]]
    /\ overlapped' = (overlapped \/ \E q \in Scorers : scorer[q].pc # "idle")
    /\ UNCHANGED <<today, attached, db>>

\* A recalculation of one site begins: the cutoff of a live score is today, that
\* of a backtest the one its case names.  The model row is looked up; rules that
\* differ from the stored ones are noted on it, a missing row is to be inserted.
get_or_create_model_version(p, s, cutoff) ==
    /\ scorer[p].pc = "model"
    /\ s \in scorer[p].todo
    /\ scorer[p].backtest \/ cutoff = today
    /\ LET found == model.hash # NoRelease \/ scorer[p].creates
       IN  scorer' = [scorer EXCEPT
                ![p].at = s,
                ![p].asOf = cutoff,
                ![p].pc = IF found THEN "evidence" ELSE "insert_model",
                ![p].notes = @ \/ (found /\ ~ scorer[p].creates
                                         /\ model.hash # scorer[p].rules)]
    /\ UNCHANGED <<today, attached, db, overlapped>>

\* The INSERT waits for another transaction that inserts the same version, and
\* goes through when there is no such row after all.
InsertModel(p) ==
    /\ scorer[p].pc = "insert_model"
    /\ \A q \in Scorers : ~ scorer[q].creates
    /\ model.hash = NoRelease
    /\ scorer' = [scorer EXCEPT ![p].creates = TRUE, ![p].pc = "evidence"]
    /\ UNCHANGED <<today, attached, db, overlapped>>

\* Rolled back by session_scope() or by closing the session: nothing is kept.
RollBack(p) == scorer' = [scorer EXCEPT ![p] = Idle(@.jobs)]

\* Mutant: the error is swallowed and the INSERT tried again.
InsertModelRetries(p) ==
    /\ scorer[p].pc = "insert_model"
    /\ model.hash # NoRelease
    /\ UNCHANGED vars

\* Another transaction stored the row: the unique constraint fails the flush.
InsertModelRaises(p) ==
    /\ scorer[p].pc = "insert_model"
    /\ model.hash # NoRelease
    /\ RollBack(p)
    /\ UNCHANGED <<today, attached, db, overlapped>>

\* Load the evidence and score it.  A backtest ends with its predictions.
Score(p) ==
    LET me == scorer[p]
        s  == me.at
        positive == score_site(load_evidence_inputs(s, me.asOf))
        result == [from |-> me.seen[s], to |-> infer_stage(positive),
                   asOf |-> me.asOf, triggers |-> positive]
    IN  /\ me.pc = "evidence"
        /\ scorer' = [scorer EXCEPT
                ![p].result[s] = result,
                ![p].done = IF me.backtest THEN @ \cup {s} ELSE @,
                ![p].todo = IF me.backtest THEN @ \ {s} ELSE @,
                ![p].pc   = IF me.backtest THEN "model" ELSE "delete"]
        /\ UNCHANGED <<today, attached, db, overlapped>>

\* Mutant: the old estimates are left where they are.
DeleteNoEstimates(p) ==
    /\ scorer[p].pc = "delete"
    /\ scorer' = [scorer EXCEPT ![p].pc = "deleting"]
    /\ UNCHANGED <<today, attached, db, overlapped>>

\* The DELETE of the old estimates takes its snapshot ...
DeleteEstimates(p) ==
    /\ scorer[p].pc = "delete"
    /\ scorer' = [scorer EXCEPT ![p].doomed = estimates[scorer[p].at],
                                ![p].pc = "deleting"]
    /\ UNCHANGED <<today, attached, db, overlapped>>

WaitsForRows(p, q) ==
    q # p /\ scorer[p].pc = "deleting" /\ scorer[p].doomed \cap scorer[q].deleted # {}

\* ... and deletes what is left of it, once no other transaction holds a row.
EstimatesDeleted(p) ==
    LET me == scorer[p]
    IN  /\ me.pc = "deleting"
        /\ \A q \in Scorers : ~ WaitsForRows(p, q)
        /\ scorer' = [scorer EXCEPT
                ![p].deleted = @ \cup (me.doomed \cap estimates[me.at]),
                ![p].doomed = {},
                ![p].pc = "flush"]
        /\ UNCHANGED <<today, attached, db, overlapped>>

WaitsForSite(p, q) ==
    /\ q # p
    /\ scorer[p].pc = "flush"
    /\ ~ scorer[q].backtest
    /\ scorer[p].at \in scorer[q].done

\* The flush updates the Site row, which waits for any other transaction that
\* has updated it, and inserts the transition and the new estimates.
Flush(p) ==
    LET me == scorer[p]
    IN  /\ me.pc = "flush"
        /\ \A q \in Scorers : ~ WaitsForSite(p, q)
        /\ scorer' = [scorer EXCEPT ![p].done = @ \cup {me.at},
                                    ![p].todo = @ \ {me.at},
                                    ![p].pc = "model"]
        /\ UNCHANGED <<today, attached, db, overlapped>>

-----------------------------------------------------------------------------
(***************************************************************************)
(* The end of a recalculation.                                             *)
(***************************************************************************)

\* Mutant: a backtest counts as a live score.
LiveOrNot(p) == scorer[p].done

\* Sites whose live state the session p has written.
Live(p) == IF scorer[p].backtest THEN {} ELSE scorer[p].done

\* Sites for which it has recorded a transition, as seen from the stage it
\* loaded when it began.
Moved(p) == {s \in Live(p) : scorer[p].result[s].to # scorer[p].result[s].from}

_record_stage_transition(result) ==
    [from |-> result.from, to |-> result.to,
     effective |-> effective_date(result.triggers, result.asOf),
     triggers |-> result.triggers]

\* Mutant: the estimates are computed from the stage the site had before.
EstimateOfOldStage(p, s) ==
    IF s \in Measured
    THEN {[site |-> s, by |-> p, job |-> scorer[p].jobs,
           stage |-> scorer[p].result[s].from]}
    ELSE {}

_estimate_row(p, s) ==
    IF s \in Measured
    THEN {[site |-> s, by |-> p, job |-> scorer[p].jobs,
           stage |-> scorer[p].result[s].to]}
    ELSE {}

\* The model row after the session's INSERT or UPDATE of it.
StoredModel(p) ==
    IF scorer[p].creates THEN [hash |-> scorer[p].rules, notes |-> NoRelease]
    ELSE IF scorer[p].notes THEN [model EXCEPT !.notes = scorer[p].rules]
    ELSE model

\* Mutant: the stage is written by every live score.
StageAlwaysWritten(p, s) == IF s \in Live(p) THEN scorer[p].result[s].to ELSE stage[s]

StageAfter(p, s) == IF s \in Moved(p) THEN scorer[p].result[s].to ELSE stage[s]

Commit(p) ==
    LET me == scorer[p]
    IN  /\ me.pc = "model"
        /\ me.todo = {}
        /\ model' = StoredModel(p)
        /\ predictions' = [s \in Sites |->
                IF s \in me.done
                THEN Append(predictions[s],
                            [stage |-> me.result[s].to, asOf |-> me.result[s].asOf,
                             rules |-> me.rules, backtest |-> me.backtest])
                ELSE predictions[s]]
        /\ stage' = [s \in Sites |-> StageAfter(p, s)]
        /\ history' = [s \in Sites |->
                IF s \in Moved(p)
                THEN Append(history[s], _record_stage_transition(me.result[s]))
                ELSE history[s]]
        /\ estimates' = [s \in Sites |->
                (estimates[s] \ me.deleted)
                    \cup (IF s \in Live(p) THEN _estimate_row(p, s) ELSE {})]
        /\ RollBack(p)
        /\ UNCHANGED <<today, attached, overlapped>>

\* The process is killed or the connection is lost.
Fail(p) ==
    /\ scorer[p].pc # "idle"
    /\ RollBack(p)
    /\ UNCHANGED <<today, attached, db, overlapped>>

WaitsFor(p, q) == WaitsForRows(p, q) \/ WaitsForSite(p, q)

\* Transactions wait for each other in a circle: the database raises in one.
DeadlockDetected(p) ==
    /\ \E stuck \in SUBSET Scorers :
          p \in stuck /\ \A q \in stuck : \E r \in stuck : WaitsFor(q, r)
    /\ RollBack(p)
    /\ UNCHANGED <<today, attached, db, overlapped>>

ScorerStep(p) ==
    \/ \E s \in Sites, cutoff \in Days : get_or_create_model_version(p, s, cutoff)
    \/ InsertModel(p)
    \/ InsertModelRaises(p)
    \/ Score(p)
    \/ DeleteEstimates(p)
    \/ EstimatesDeleted(p)
    \/ Flush(p)
    \/ Commit(p)
    \/ DeadlockDetected(p)

Next ==
    \/ Midnight
    \/ \E r \in Records, s \in Sites : Attach(r, s)
    \/ \E p \in Scorers :
        \/ \E rules \in Releases, backtest \in BOOLEAN,
              sites \in {{s} : s \in Sites} \cup {Sites} : Begin(p, rules, sites, backtest)
        \/ ScorerStep(p)
        \/ Fail(p)

Spec == Init /\ [][Next]_vars

\* A session that has begun keeps being executed.
FairSpec == Spec /\ \A p \in Scorers : WF_vars(ScorerStep(p))

-----------------------------------------------------------------------------
(***************************************************************************)
(* Properties.                                                             *)
(***************************************************************************)

\* The rows and the sessions keep their types.
TypeOK ==
    /\ today \in Days
    /\ attached \in [Records -> Sites \cup {NoSite}]
    /\ model \in Model
    /\ stage \in [Sites -> Stages]
    /\ history \in [Sites -> Seq(HistoryRow)]
    /\ predictions \in [Sites -> Seq(PredictionRow)]
    /\ estimates \in [Sites -> SUBSET Batches]
    /\ scorer \in [Scorers -> Session]
    /\ overlapped \in BOOLEAN

Rows(s) == DOMAIN history[s]

LastTo(s) == IF history[s] = <<>> THEN 0 ELSE history[s][Len(history[s])].to

\* A site is at the stage its last recorded transition led to, however many
\* recalculations overlap (_record_stage_transition).
StageIsLastTransition == \A s \in Sites : stage[s] = LastTo(s)

\* Every transition starts from the stage the one before it led to, the first
\* one from 0: the history can be replayed (SiteStageHistory).
HistoryIsChain ==
    \A s \in Sites : \A i \in Rows(s) :
        history[s][i].from = IF i = 1 THEN 0 ELSE history[s][i - 1].to

\* It is a chain as long as no two recalculations overlap, whichever processes
\* they are from, however they end and whatever happens to the evidence between.
SerialHistoryIsChain == ~ overlapped => HistoryIsChain

LiveScores(s) == {i \in DOMAIN predictions[s] : ~ predictions[s][i].backtest}

IsLatest(i, s) == i \in LiveScores(s) /\ \A j \in LiveScores(s) : j <= i

\* Unless recalculations overlap, a site is at the stage of its latest live
\* prediction, which its page shows beside it, and has one estimate of a type:
\* the totals of a region sum the rows and count each site once
\* (recalculate_site, get_site, _site_estimate_totals).
SerialScoresAgree ==
    ~ overlapped => \A s \in Sites :
        /\ \A i \in LiveScores(s) : IsLatest(i, s) => stage[s] = predictions[s][i].stage
        /\ Cardinality(estimates[s]) <= 1

\* The estimates of the latest live recalculation of a measured site are there,
\* whatever other recalculations have deleted (recalculate_site).
LatestIsEstimated ==
    \A s \in Measured : \A i \in LiveScores(s) :
        IsLatest(i, s) => \E e \in estimates[s] : e.stage = predictions[s][i].stage

\* A transition recorded as a downgrade has lost some of the evidence an earlier
\* one to the stage it leaves was justified by: nothing else lowers the stage,
\* neither contradicting evidence nor the passing of time (infer_stage).
DowngradeHasLostEvidence ==
    \A s \in Sites : \A i \in Rows(s) :
        history[s][i].to < history[s][i].from =>
            \E j \in 1 .. i - 1 :
                /\ history[s][j].to = history[s][i].from
                /\ ~ history[s][j].triggers \subseteq history[s][i].triggers

\* The live state of a site changes only in a step that adds a live prediction
\* for it: a backtest leaves it alone (run_backtest).
OnlyLiveScoresMoveSites ==
    [][\A s \in Sites :
        \/ stage'[s] = stage[s] /\ history'[s] = history[s] /\ estimates'[s] = estimates[s]
        \/ /\ Len(predictions'[s]) = Len(predictions[s]) + 1
           /\ ~ predictions'[s][Len(predictions'[s])].backtest]_vars

\* Every recalculation ends, though recalculations of several sites may wait for
\* each other's rows (recalculate_site, session_scope).
EveryScoringEnds == \A p \in Scorers : scorer[p].pc # "idle" ~> scorer[p].pc = "idle"

=============================================================================
