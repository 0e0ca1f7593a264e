-------------------------- MODULE SiteScoringProofs --------------------------
(***************************************************************************)
(* Theorems about SiteScoring, for any sites, evidence, rules and number   *)
(* of processes unless an assumption says otherwise.                       *)
(***************************************************************************)
EXTENDS SiteScoring, SequenceTheorems, FiniteSetTheorems, WellFoundedInduction, TLAPS

USE ScoringAssumption

-----------------------------------------------------------------------------
(***************************************************************************)
(* The rules.                                                              *)
(***************************************************************************)

LEMMA LeastNatural ==
    ASSUME NEW S, S \subseteq Nat, S # {}
    PROVE  \E x \in S : \A y \in S : x <= y
<1>1. PICK x \in S : \A y \in S : ~ (<<y, x>> \in OpToRel(<, Nat))
  BY NatLessThanWellFounded, WFMin
<1>2. \A y \in S : ~ (y < x)
  BY <1>1 DEF OpToRel
<1> QED
  BY <1>2

\* The highest implied stage exists: it is implied, and nothing above it is.
LEMMA InferStageHighest ==
    ASSUME NEW positive \in SUBSET Records
    PROVE  LET implied == {0} \cup {ImpliesStage[KindOf[r]] : r \in positive}
           IN  infer_stage(positive) \in implied /\ \A k \in implied : k <= infer_stage(positive)
<1> DEFINE implied == {0} \cup {ImpliesStage[KindOf[r]] : r \in positive}
<1> DEFINE below == {8 - k : k \in implied}
<1>1. implied \subseteq Stages /\ implied # {}
  BY DEF Stages
<1>2. below \subseteq Nat /\ below # {}
  BY <1>1 DEF Stages
<1>3. PICK least \in below : \A k \in below : least <= k
  BY <1>2, LeastNatural
<1>4. PICK n \in implied : least = 8 - n
  BY <1>3
<1>5. \A k \in implied : 8 - k \in below /\ k \in 0 .. 8
  BY <1>1 DEF Stages
<1>6. \A k \in implied : k <= n
  <2> SUFFICES ASSUME NEW k \in implied PROVE k <= n
    OBVIOUS
  <2>1. 8 - n <= 8 - k
    BY <1>3, <1>4, <1>5
  <2> QED
    BY <2>1, <1>5
<1> QED
  BY <1>6 DEF infer_stage

LEMMA InferStageType ==
    ASSUME NEW positive \in SUBSET Records
    PROVE  infer_stage(positive) \in Stages
<1>1. infer_stage(positive) \in {0} \cup {ImpliesStage[KindOf[r]] : r \in positive}
  BY InferStageHighest
<1> QED
  BY <1>1 DEF Stages

\* More evidence never implies a lower stage.
LEMMA InferStageMonotone ==
    ASSUME NEW more \in SUBSET Records, NEW fewer \in SUBSET more
    PROVE  infer_stage(fewer) <= infer_stage(more)
<1>1. infer_stage(fewer) \in {0} \cup {ImpliesStage[KindOf[r]] : r \in fewer}
  BY InferStageHighest
<1>2. \A k \in {0} \cup {ImpliesStage[KindOf[r]] : r \in more} : k <= infer_stage(more)
  BY InferStageHighest
<1> QED
  BY <1>1, <1>2

LEMMA InferStageOfNothing == infer_stage({}) = 0
<1>1. infer_stage({}) \in {0} \cup {ImpliesStage[KindOf[r]] : r \in {}}
  BY InferStageHighest
<1> QED
  BY <1>1

\* The earliest date of the contributions exists and is a date.
LEMMA EffectiveDateType ==
    ASSUME NEW positive \in SUBSET Records, NEW asOf \in Days
    PROVE  effective_date(positive, asOf) \in Days
<1>1. CASE positive = {}
  BY <1>1 DEF effective_date
<1>2. CASE positive # {}
  <2> DEFINE dates == {ObservedAt[r] : r \in positive}
  <2>1. dates \subseteq Days /\ dates \subseteq Nat /\ dates # {}
    BY <1>2 DEF Days
  <2>2. PICK d \in dates : \A k \in dates : d <= k
    BY <2>1, LeastNatural
  <2>3. \A r \in positive : ObservedAt[r] \in dates
    OBVIOUS
  <2>4. d \in dates /\ \A r \in positive : d <= ObservedAt[r]
    BY <2>2, <2>3
  <2>5. effective_date(positive, asOf) \in dates
    BY <1>2, <2>4 DEF effective_date
  <2> QED
    BY <2>1, <2>5
<1> QED
  BY <1>1, <1>2

LEMMA TransitionType ==
    ASSUME NEW result \in Results
    PROVE  _record_stage_transition(result) \in HistoryRow
BY EffectiveDateType DEF Results, HistoryRow, _record_stage_transition

-----------------------------------------------------------------------------
(***************************************************************************)
(* Types.  A session that has begun knows its rules, and its site once it  *)
(* has chosen one.                                                         *)
(***************************************************************************)

Sound ==
    {me \in Session :
        /\ me.pc # "idle" => me.rules \in Releases /\ me.jobs \in 1 .. MaxJobs
        /\ me.pc \notin {"idle", "model"} => me.at \in Sites
        /\ me.pc = "idle" => me.done = {}}

TypeInv == TypeOK /\ scorer \in [Scorers -> Sound]

LEMMA IdleType == \A n \in 0 .. MaxJobs : Idle(n) \in Sound
BY DEF Idle, Sound, Session, Steps, NoResult, Results, Stages, Days

LEMMA TypeInit == Init => TypeInv
<1> SUFFICES ASSUME Init PROVE TypeInv
  OBVIOUS
<1>1. 0 \in 0 .. MaxJobs /\ 0 \in Days /\ 0 \in Stages
  BY DEF Days, Stages
<1>2. scorer \in [Scorers -> Sound]
  BY <1>1, IdleType DEF Init
<1>3. scorer \in [Scorers -> Session]
  BY <1>2 DEF Sound
<1>4. history \in [Sites -> Seq(HistoryRow)] /\ predictions \in [Sites -> Seq(PredictionRow)]
  BY DEF Init
<1>5. model \in Model
  BY DEF Init, Model
<1> QED
  BY <1>1, <1>2, <1>3, <1>4, <1>5 DEF Init, TypeInv, TypeOK

\* A step that changes one session only keeps the types if what it leaves there
\* is sound.
LEMMA SessionStep ==
    ASSUME TypeInv, NEW p \in Scorers, NEW me \in Sound,
           scorer' = [scorer EXCEPT ![p] = me],
           UNCHANGED <<today, attached, db>>,
           overlapped' = overlapped \/ overlapped' \in BOOLEAN
    PROVE  TypeInv'
<1>1. me \in Session
  BY DEF Sound
<1>2. scorer' \in [Scorers -> Session] /\ scorer' \in [Scorers -> Sound]
  BY <1>1 DEF TypeInv, TypeOK
<1> QED
  BY <1>2 DEF TypeInv, TypeOK, db

LEMMA RollBackType ==
    ASSUME TypeInv, NEW p \in Scorers, RollBack(p)
    PROVE  scorer' \in [Scorers -> Session] /\ scorer' \in [Scorers -> Sound]
<1>1. scorer[p].jobs \in 0 .. MaxJobs
  BY DEF TypeInv, TypeOK, Session
<1>2. Idle(scorer[p].jobs) \in Sound
  BY <1>1, IdleType
<1>3. Idle(scorer[p].jobs) \in Session
  BY <1>2 DEF Sound
<1>4. scorer' = [scorer EXCEPT ![p] = Idle(scorer[p].jobs)]
  BY DEF RollBack
<1> QED
  BY <1>2, <1>3, <1>4 DEF TypeInv, TypeOK

LEMMA AbortType ==
    ASSUME TypeInv, NEW p \in Scorers, RollBack(p),
           UNCHANGED <<today, attached, db, overlapped>>
    PROVE  TypeInv'
BY RollBackType DEF TypeInv, TypeOK, db

LEMMA BeginType ==
    ASSUME TypeInv, NEW p \in Scorers, NEW rules \in Releases,
           NEW sites \in {{s} : s \in Sites} \cup {Sites}, NEW backtest \in BOOLEAN,
           Begin(p, rules, sites, backtest)
    PROVE  TypeInv'
<1> DEFINE me == [Idle(scorer[p].jobs + 1) EXCEPT !.pc = "model", !.backtest = backtest,
                                     !.rules = rules, !.todo = sites, !.seen = stage]
<1>1. scorer[p].jobs + 1 \in 1 .. MaxJobs
  BY DEF TypeInv, TypeOK, Session, Begin
<1>2. Idle(scorer[p].jobs + 1) \in Session
  BY <1>1, IdleType DEF Sound
<1>3. sites \subseteq Sites
  OBVIOUS
<1>4. me \in Session
  BY <1>2, <1>3 DEF Session, Steps, TypeInv, TypeOK
<1>5. me.pc = "model" /\ me.rules = rules /\ me.jobs = scorer[p].jobs + 1
  BY DEF Idle
<1>6. me \in Sound
  BY <1>1, <1>4, <1>5 DEF Sound
<1>7. scorer' = [scorer EXCEPT ![p] = me]
  BY DEF Begin
<1> QED
  BY <1>6, <1>7, SessionStep DEF Begin

LEMMA ModelType ==
    ASSUME TypeInv, NEW p \in Scorers, NEW s \in Sites, NEW cutoff \in Days,
           get_or_create_model_version(p, s, cutoff)
    PROVE  TypeInv'
<1> DEFINE found == model.hash # NoRelease \/ scorer[p].creates
<1> DEFINE me == [scorer[p] EXCEPT
                !.at = s, !.asOf = cutoff,
                !.pc = IF found THEN "evidence" ELSE "insert_model",
                !.notes = @ \/ (found /\ ~ scorer[p].creates
                                      /\ model.hash # scorer[p].rules)]
<1>1. scorer[p] \in Sound /\ scorer[p] \in Session /\ scorer[p].pc = "model"
  BY DEF TypeInv, TypeOK, get_or_create_model_version
<1>2. me \in Session
  BY <1>1 DEF Session, Steps
<1>a. me.pc \in {"evidence", "insert_model"} /\ me.at = s
        /\ me.rules = scorer[p].rules /\ me.jobs = scorer[p].jobs
  BY <1>1 DEF Session
<1>b. scorer[p].rules \in Releases /\ scorer[p].jobs \in 1 .. MaxJobs
  BY <1>1 DEF Sound
<1>4. scorer' = [scorer EXCEPT ![p] = me]
  BY DEF get_or_create_model_version, TypeInv, TypeOK
<1> HIDE DEF me
<1>3. me \in Sound
  BY <1>2, <1>a, <1>b DEF Sound
<1> QED
  BY <1>3, <1>4, SessionStep DEF get_or_create_model_version

LEMMA ScoreType ==
    ASSUME TypeInv, NEW p \in Scorers, Score(p)
    PROVE  TypeInv'
<1> DEFINE me == scorer[p]
<1> DEFINE positive == score_site(load_evidence_inputs(me.at, me.asOf))
<1> DEFINE result == [from |-> me.seen[me.at], to |-> infer_stage(positive),
                      asOf |-> me.asOf, triggers |-> positive]
<1> DEFINE next == [me EXCEPT !.result[me.at] = result,
                !.done = IF me.backtest THEN @ \cup {me.at} ELSE @,
                !.todo = IF me.backtest THEN @ \ {me.at} ELSE @,
                !.pc   = IF me.backtest THEN "model" ELSE "delete"]
<1>0. me \in Sound /\ me \in Session /\ me.pc = "evidence"
  BY DEF TypeInv, TypeOK, Score
<1>a. me.at \in Sites /\ me.rules \in Releases /\ me.jobs \in 1 .. MaxJobs
  BY <1>0 DEF Sound
<1>1. positive \in SUBSET Records
  BY DEF score_site, load_evidence_inputs
<1>2. infer_stage(positive) \in Stages
  BY <1>1, InferStageType
<1>3. result \in Results
  <2>1. me.seen[me.at] \in Stages /\ me.asOf \in Days
    BY <1>0, <1>a DEF Session
  <2> HIDE DEF positive
  <2> QED
    BY <1>1, <1>2, <2>1 DEF Results
<1>4. scorer' = [scorer EXCEPT ![p] = next]
  BY DEF Score, TypeInv, TypeOK
<1> HIDE DEF result, positive
<1>5. next \in Session
  BY <1>0, <1>a, <1>3 DEF Session, Steps
<1>6. next.pc \in {"model", "delete"} /\ next.rules = me.rules
        /\ next.jobs = me.jobs /\ next.at = me.at
  BY <1>0 DEF Session
<1>7. next \in Sound
  BY <1>5, <1>6, <1>a DEF Sound
<1> QED
  BY <1>4, <1>7, SessionStep DEF Score

\* The steps that only advance a session, and what each of them leaves.
LEMMA AdvanceType ==
    ASSUME TypeInv, NEW p \in Scorers,
           InsertModel(p) \/ DeleteEstimates(p) \/ EstimatesDeleted(p) \/ Flush(p)
    PROVE  TypeInv'
<1> DEFINE me == scorer[p]
<1>0. me \in Sound /\ me \in Session
  BY DEF TypeInv, TypeOK
<1>1. CASE InsertModel(p)
  <2> DEFINE next == [me EXCEPT !.creates = TRUE, !.pc = "evidence"]
  <2>1. next \in Session
    BY <1>0 DEF Session, Steps
  <2>2. next \in Sound
    BY <1>0, <1>1, <2>1 DEF Sound, Session, InsertModel
  <2>3. scorer' = [scorer EXCEPT ![p] = next]
    BY <1>1 DEF InsertModel, TypeInv, TypeOK
  <2> QED
    BY <1>1, <2>2, <2>3, SessionStep DEF InsertModel
<1>2. CASE DeleteEstimates(p)
  <2> DEFINE next == [me EXCEPT !.doomed = estimates[me.at], !.pc = "deleting"]
  <2>0. me.pc = "delete" /\ me.at \in Sites
    BY <1>0, <1>2 DEF Sound, DeleteEstimates
  <2>1. estimates[me.at] \in SUBSET Batches
    BY <2>0 DEF TypeInv, TypeOK
  <2>2. next \in Session
    BY <1>0, <2>1 DEF Session, Steps
  <2>3. next \in Sound
    BY <1>0, <2>0, <2>2 DEF Sound, Session
  <2>4. scorer' = [scorer EXCEPT ![p] = next]
    BY <1>2 DEF DeleteEstimates, TypeInv, TypeOK
  <2> QED
    BY <1>2, <2>3, <2>4, SessionStep DEF DeleteEstimates
<1>3. CASE EstimatesDeleted(p)
  <2> DEFINE next == [me EXCEPT !.deleted = @ \cup (me.doomed \cap estimates[me.at]),
                                !.doomed = {}, !.pc = "flush"]
  <2>0. me.pc = "deleting" /\ me.at \in Sites
    BY <1>0, <1>3 DEF Sound, EstimatesDeleted
  <2>1. me.doomed \cap estimates[me.at] \in SUBSET Batches
    BY <1>0 DEF Session
  <2>2. next \in Session
    BY <1>0, <2>1 DEF Session, Steps
  <2>3. next \in Sound
    BY <1>0, <2>0, <2>2 DEF Sound, Session
  <2>4. scorer' = [scorer EXCEPT ![p] = next]
    BY <1>3 DEF EstimatesDeleted, TypeInv, TypeOK
  <2> QED
    BY <1>3, <2>3, <2>4, SessionStep DEF EstimatesDeleted
<1>4. CASE Flush(p)
  <2> DEFINE next == [me EXCEPT !.done = @ \cup {me.at}, !.todo = @ \ {me.at},
                                !.pc = "model"]
  <2>0. me.pc = "flush" /\ me.at \in Sites
    BY <1>0, <1>4 DEF Sound, Flush
  <2>2. next \in Session
    BY <1>0, <2>0 DEF Session, Steps
  <2>3. next \in Sound
    BY <1>0, <2>0, <2>2 DEF Sound, Session
  <2>4. scorer' = [scorer EXCEPT ![p] = next]
    BY <1>4 DEF Flush, TypeInv, TypeOK
  <2> QED
    BY <1>4, <2>3, <2>4, SessionStep DEF Flush
<1> QED
  BY <1>1, <1>2, <1>3, <1>4

LEMMA CommitType ==
    ASSUME TypeInv, NEW p \in Scorers, Commit(p)
    PROVE  TypeInv'
<1> DEFINE me == scorer[p]
<1>0. me \in Sound /\ me \in Session /\ me.pc = "model"
  BY DEF TypeInv, TypeOK, Commit
<1>a. me.rules \in Releases /\ me.jobs \in 1 .. MaxJobs
  BY <1>0 DEF Sound
<1>b. /\ me.done \subseteq Sites /\ me.backtest \in BOOLEAN
      /\ \A s \in Sites : me.result[s] \in Results
  BY <1>0 DEF Session
<1>c. Live(p) \subseteq Sites
  BY <1>b DEF Live
<1>1. model' \in Model
  BY <1>a DEF Commit, StoredModel, Model, TypeInv, TypeOK
<1>2. \A s \in Sites :
        [stage |-> me.result[s].to, asOf |-> me.result[s].asOf,
         rules |-> me.rules, backtest |-> me.backtest] \in PredictionRow
  BY <1>a, <1>b DEF PredictionRow, Results
<1>3. predictions' \in [Sites -> Seq(PredictionRow)]
  BY <1>2 DEF Commit, TypeInv, TypeOK
<1>4. stage' \in [Sites -> Stages]
  BY <1>b DEF Commit, StageAfter, Results, TypeInv, TypeOK
<1>5. \A s \in Sites : _record_stage_transition(me.result[s]) \in HistoryRow
  BY <1>b, TransitionType
<1>6. history' \in [Sites -> Seq(HistoryRow)]
  BY <1>5 DEF Commit, TypeInv, TypeOK
<1>7. \A s \in Sites : _estimate_row(p, s) \subseteq Batches
  BY <1>a, <1>b DEF _estimate_row, Batches, Results
<1>8. estimates' \in [Sites -> SUBSET Batches]
  BY <1>7 DEF Commit, TypeInv, TypeOK
<1>9. scorer' \in [Scorers -> Session] /\ scorer' \in [Scorers -> Sound]
  BY RollBackType DEF Commit
<1> QED
  BY <1>1, <1>3, <1>4, <1>6, <1>8, <1>9 DEF Commit, TypeInv, TypeOK

LEMMA TypeStep == TypeInv /\ [Next]_vars => TypeInv'
<1> SUFFICES ASSUME TypeInv, [Next]_vars PROVE TypeInv'
  OBVIOUS
<1>1. CASE UNCHANGED vars
  BY <1>1 DEF TypeInv, TypeOK, vars, db
<1>2. CASE Midnight
  BY <1>2 DEF TypeInv, TypeOK, Midnight, db, Days
<1>3. CASE \E r \in Records, s \in Sites : Attach(r, s)
  BY <1>3 DEF TypeInv, TypeOK, Attach, db
<1>4. ASSUME NEW p \in Scorers, NEW rules \in Releases, NEW backtest \in BOOLEAN,
             NEW sites \in {{s} : s \in Sites} \cup {Sites},
             Begin(p, rules, sites, backtest)
      PROVE  TypeInv'
  BY <1>4, BeginType
<1>5. ASSUME NEW p \in Scorers, ScorerStep(p) \/ Fail(p)
      PROVE  TypeInv'
  BY <1>5, ModelType, ScoreType, AdvanceType, CommitType, AbortType
     DEF ScorerStep, Fail, InsertModelRaises, DeadlockDetected
<1> QED
  BY <1>1, <1>2, <1>3, <1>4, <1>5 DEF Next

THEOREM TypeInvariant == Spec => []TypeInv
BY TypeInit, TypeStep, PTL DEF Spec

\* The rows and the sessions of scoring keep their types.
THEOREM TypeCorrect == Spec => []TypeOK
<1>1. TypeInv => TypeOK
  BY DEF TypeInv
<1> QED
  BY <1>1, TypeInvariant, PTL

-----------------------------------------------------------------------------
(***************************************************************************)
(* Stage and history.                                                      *)
(***************************************************************************)

\* Only a commit changes the rows.
LEMMA QuietStep ==
    ASSUME [Next]_vars, \A p \in Scorers : ~ Commit(p)
    PROVE  UNCHANGED db
<1>1. CASE UNCHANGED vars
  BY <1>1 DEF vars
<1>2. CASE Midnight \/ \E r \in Records, s \in Sites : Attach(r, s)
  BY <1>2 DEF Midnight, Attach
<1>3. ASSUME NEW p \in Scorers, NEW rules, NEW sites, NEW backtest,
             Begin(p, rules, sites, backtest)
      PROVE  UNCHANGED db
  BY <1>3 DEF Begin
<1>4. ASSUME NEW p \in Scorers, NEW s \in Sites, NEW cutoff \in Days,
             get_or_create_model_version(p, s, cutoff)
      PROVE  UNCHANGED db
  BY <1>4 DEF get_or_create_model_version
<1>5. ASSUME NEW p \in Scorers,
             InsertModel(p) \/ InsertModelRaises(p) \/ Score(p) \/ DeleteEstimates(p)
      PROVE  UNCHANGED db
  BY <1>5 DEF InsertModel, InsertModelRaises, Score, DeleteEstimates
<1>6. ASSUME NEW p \in Scorers,
             EstimatesDeleted(p) \/ Flush(p) \/ DeadlockDetected(p) \/ Fail(p)
      PROVE  UNCHANGED db
  BY <1>6 DEF EstimatesDeleted, Flush, DeadlockDetected, Fail
<1> QED
  BY <1>1, <1>2, <1>3, <1>4, <1>5, <1>6 DEF Next, ScorerStep

LEMMA Appended ==
    ASSUME NEW T, NEW q \in Seq(T), NEW row \in T, NEW longer,
           longer = Append(q, row)
    PROVE  /\ longer # <<>> /\ Len(longer) = Len(q) + 1
           /\ longer[Len(longer)] = row
           /\ \A k \in 1 .. Len(q) : longer[k] = q[k]
           /\ DOMAIN longer = 1 .. Len(q) + 1
<1>1. longer \in Seq(T) /\ longer # <<>> /\ Len(longer) = Len(q) + 1
  BY AppendProperties
<1>2. longer[Len(q) + 1] = row /\ \A k \in 1 .. Len(q) : longer[k] = q[k]
  BY AppendProperties
<1> QED
  BY <1>1, <1>2

LEMMA AppendedRow ==
    ASSUME NEW q \in Seq(HistoryRow), NEW row \in HistoryRow, NEW longer,
           longer = Append(q, row)
    PROVE  /\ longer # <<>> /\ Len(longer) = Len(q) + 1
           /\ longer[Len(longer)] = row
           /\ \A k \in 1 .. Len(q) : longer[k] = q[k]
           /\ DOMAIN longer = 1 .. Len(q) + 1
BY Appended

\* What a commit does to a site: one row whose end is the new stage, or nothing.
LEMMA CommitMoves ==
    ASSUME TypeInv, NEW p \in Scorers, Commit(p), NEW s \in Sites
    PROVE  \/ /\ s \in Moved(p)
              /\ history[s] \in Seq(HistoryRow)
              /\ \E row \in HistoryRow : /\ history'[s] = Append(history[s], row)
                                         /\ row.from = scorer[p].result[s].from
                                         /\ row.to = scorer[p].result[s].to
              /\ stage'[s] = scorer[p].result[s].to
           \/ history'[s] = history[s] /\ stage'[s] = stage[s]
<1>1. CASE s \in Moved(p)
  <2> DEFINE row == _record_stage_transition(scorer[p].result[s])
  <2>1. scorer[p].result[s] \in Results
    BY DEF TypeInv, TypeOK, Session
  <2>2. row \in HistoryRow
    BY <2>1, TransitionType
  <2>3. history'[s] = Append(history[s], row) /\ stage'[s] = scorer[p].result[s].to
    BY <1>1 DEF Commit, StageAfter
  <2>4. row.from = scorer[p].result[s].from /\ row.to = scorer[p].result[s].to
    BY DEF _record_stage_transition
  <2> QED
    BY <1>1, <2>2, <2>3, <2>4 DEF TypeInv, TypeOK
<1>2. CASE s \notin Moved(p)
  BY <1>2 DEF Commit, StageAfter
<1> QED
  BY <1>1, <1>2

LEMMA LastTransitionStep ==
    ASSUME TypeInv, StageIsLastTransition, [Next]_vars
    PROVE  StageIsLastTransition'
<1>1. CASE \A p \in Scorers : ~ Commit(p)
  <2>1. UNCHANGED <<stage, history>>
    BY <1>1, QuietStep DEF db
  <2> QED
    BY <2>1 DEF StageIsLastTransition, LastTo
<1>2. CASE \E p \in Scorers : Commit(p)
  <2>1. PICK p \in Scorers : Commit(p)
    BY <1>2
  <2> SUFFICES ASSUME NEW s \in Sites
               PROVE  stage'[s] = LastTo(s)'
    BY DEF StageIsLastTransition
  <2>2. CASE history'[s] = history[s] /\ stage'[s] = stage[s]
    BY <2>2 DEF StageIsLastTransition, LastTo
  <2>3. ASSUME NEW row \in HistoryRow, history[s] \in Seq(HistoryRow),
               history'[s] = Append(history[s], row), stage'[s] = row.to
        PROVE  stage'[s] = LastTo(s)'
    <3> DEFINE rows == history[s]
    <3>1. /\ rows \in Seq(HistoryRow) /\ row \in HistoryRow
          /\ history'[s] = Append(rows, row)
      BY <2>3
    <3> HIDE DEF rows
    <3>2. history'[s] # <<>> /\ history'[s][Len(history'[s])] = row
      BY ONLY <3>1, AppendProperties
    <3> QED
      BY <2>3, <3>2 DEF LastTo
  <2> QED
    BY <2>1, <2>2, <2>3, CommitMoves
<1> QED
  BY <1>1, <1>2

\* Whatever overlaps, a site is at the stage its last recorded transition led to.
THEOREM LastTransition == Spec => []StageIsLastTransition
<1>1. Init => StageIsLastTransition
  BY DEF Init, StageIsLastTransition, LastTo
<1> QED
  BY <1>1, LastTransitionStep, TypeInvariant, PTL DEF Spec

-----------------------------------------------------------------------------
(***************************************************************************)
(* Sessions that do not overlap.  There is at most one at a time, what it  *)
(* loaded when it began is still what the database holds, and so the       *)
(* transitions it records continue the history.                            *)
(***************************************************************************)

Open(p) == scorer[p].pc # "idle"

OneSession == \A p, q \in Scorers : Open(p) /\ Open(q) => p = q

Fresh ==
    \A p \in Scorers : Open(p) =>
        /\ scorer[p].seen = stage
        /\ \A s \in scorer[p].done : scorer[p].result[s].from = stage[s]
        /\ scorer[p].pc \in {"delete", "deleting", "flush"} =>
              scorer[p].result[scorer[p].at].from = stage[scorer[p].at]

SerialInv ==
    /\ StageIsLastTransition
    /\ ~ overlapped => OneSession /\ HistoryIsChain /\ Fresh

\* A step of a session needs it to be open and leaves the others alone.
LEMMA ActorStep ==
    ASSUME TypeInv, NEW q \in Scorers, ScorerStep(q) \/ Fail(q)
    PROVE  /\ Open(q) /\ overlapped' = overlapped
           /\ \A p \in Scorers \ {q} : scorer'[p] = scorer[p]
<1> USE DEF Open
<1>t. scorer \in [Scorers -> Session]
  BY DEF TypeInv, TypeOK
<1>1. ASSUME NEW s \in Sites, NEW cutoff \in Days, get_or_create_model_version(q, s, cutoff)
      PROVE  /\ Open(q) /\ overlapped' = overlapped
             /\ \A p \in Scorers \ {q} : scorer'[p] = scorer[p]
  BY <1>1, <1>t DEF get_or_create_model_version
<1>2. CASE InsertModel(q) \/ Flush(q)
  BY <1>2, <1>t DEF InsertModel, Flush
<1>3. CASE InsertModelRaises(q) \/ Fail(q)
  BY <1>3, <1>t DEF InsertModelRaises, Fail, RollBack
<1>4. CASE Score(q)
  BY <1>4, <1>t DEF Score
<1>5. CASE DeleteEstimates(q)
  BY <1>5, <1>t DEF DeleteEstimates
<1>6. CASE EstimatesDeleted(q)
  BY <1>6, <1>t DEF EstimatesDeleted
<1>7. CASE Commit(q)
  BY <1>7, <1>t DEF Commit, RollBack
<1>8. CASE DeadlockDetected(q)
  <2>1. PICK r : WaitsFor(q, r)
    BY <1>8 DEF DeadlockDetected
  <2>2. Open(q)
    BY <2>1 DEF WaitsFor, WaitsForRows, WaitsForSite
  <2> QED
    BY <1>8, <1>t, <2>2 DEF DeadlockDetected, RollBack
<1> QED
  BY <1>1, <1>2, <1>3, <1>4, <1>5, <1>6, <1>7, <1>8 DEF ScorerStep

\* A session opens beside none, or the overlap is on record.
LEMMA BeginStep ==
    ASSUME TypeInv, NEW q \in Scorers, NEW rules, NEW sites, NEW backtest,
           Begin(q, rules, sites, backtest)
    PROVE  /\ ~ overlapped' => ~ overlapped /\ \A p \in Scorers : ~ Open(p)
           /\ \A p \in Scorers \ {q} : scorer'[p] = scorer[p]
<1>1. overlapped' = (overlapped \/ \E p \in Scorers : Open(p))
  BY DEF Begin, Open
<1>2. \A p \in Scorers \ {q} : scorer'[p] = scorer[p]
  BY DEF Begin, TypeInv, TypeOK
<1> QED
  BY <1>1, <1>2

LEMMA OneSessionStep ==
    ASSUME TypeInv, SerialInv, [Next]_vars, ~ overlapped'
    PROVE  ~ overlapped /\ OneSession /\ OneSession'
<1>1. CASE UNCHANGED vars \/ Midnight \/ \E r \in Records, s \in Sites : Attach(r, s)
  <2>1. overlapped' = overlapped /\ scorer' = scorer
    BY <1>1 DEF vars, Midnight, Attach
  <2> QED
    BY <2>1 DEF SerialInv, OneSession, Open
<1>2. ASSUME NEW q \in Scorers, NEW rules, NEW sites, NEW backtest,
             Begin(q, rules, sites, backtest)
      PROVE  ~ overlapped /\ OneSession /\ OneSession'
  BY <1>2, BeginStep DEF OneSession, Open
<1>3. ASSUME NEW q \in Scorers, ScorerStep(q) \/ Fail(q)
      PROVE  ~ overlapped /\ OneSession /\ OneSession'
  <2>1. /\ Open(q) /\ ~ overlapped
        /\ \A p \in Scorers \ {q} : scorer'[p] = scorer[p]
    BY <1>3, ActorStep
  <2>2. OneSession
    BY <2>1 DEF SerialInv
  <2> QED
    BY <2>1, <2>2 DEF OneSession, Open
<1> QED
  BY <1>1, <1>2, <1>3 DEF Next

LEMMA ChainGrows ==
    ASSUME TypeInv, StageIsLastTransition, HistoryIsChain, Fresh, NEW p \in Scorers, Commit(p)
    PROVE  HistoryIsChain'
<1> SUFFICES ASSUME NEW s \in Sites, NEW i \in Rows(s)'
             PROVE  history'[s][i].from = IF i = 1 THEN 0 ELSE history'[s][i - 1].to
  BY DEF HistoryIsChain
<1>1. CASE history'[s] = history[s]
  BY <1>1 DEF HistoryIsChain, Rows
<1>2. CASE history'[s] # history[s]
  <2>0. s \in Moved(p)
    BY <1>2, CommitMoves
  <2>1. PICK row \in HistoryRow :
            /\ history[s] \in Seq(HistoryRow)
            /\ history'[s] = Append(history[s], row)
            /\ row.from = scorer[p].result[s].from
    BY <1>2, CommitMoves
  <2>2. row.from = LastTo(s)
    BY <2>0, <2>1 DEF Fresh, Open, Moved, Live, Commit, StageIsLastTransition
  <2>3. /\ Rows(s)' = 1 .. Len(history[s]) + 1
        /\ history'[s][Len(history[s]) + 1] = row
        /\ \A k \in 1 .. Len(history[s]) : history'[s][k] = history[s][k]
    BY <2>1, AppendedRow DEF Rows
  <2>a. Len(history[s]) \in Nat /\ (history[s] = <<>> <=> Len(history[s]) = 0)
    BY <2>1
  <2>4. CASE i = Len(history[s]) + 1
    <3>1. CASE Len(history[s]) = 0
      BY <2>2, <2>3, <2>4, <2>a, <3>1 DEF LastTo
    <3>2. CASE Len(history[s]) # 0
      <4>1. i - 1 \in 1 .. Len(history[s]) /\ i # 1 /\ i - 1 = Len(history[s])
        BY <2>4, <2>a, <3>2
      <4> QED
        BY <2>2, <2>3, <2>4, <2>a, <3>2, <4>1 DEF LastTo
    <3> QED
      BY <3>1, <3>2
  <2>5. CASE i \in 1 .. Len(history[s])
    <3>1. history[s][i].from = IF i = 1 THEN 0 ELSE history[s][i - 1].to
      BY <2>1, <2>5 DEF HistoryIsChain, Rows
    <3>2. i = 1 \/ i - 1 \in 1 .. Len(history[s])
      BY <2>5, <2>a
    <3> QED
      BY <2>3, <2>5, <3>1, <3>2
  <2> QED
    BY <2>3, <2>4, <2>5, <2>a
<1> QED
  BY <1>1, <1>2

LEMMA FreshStep ==
    ASSUME TypeInv, SerialInv, [Next]_vars, ~ overlapped'
    PROVE  HistoryIsChain' /\ Fresh'
<1>0. /\ StageIsLastTransition /\ HistoryIsChain /\ Fresh
      /\ ~ overlapped /\ OneSession /\ OneSession'
  BY OneSessionStep DEF SerialInv
<1>2. ASSUME NEW p \in Scorers, Commit(p)
      PROVE  HistoryIsChain' /\ Fresh'
  <2>1. HistoryIsChain'
    BY <1>0, <1>2, ChainGrows
  <2>2. /\ Open(p) /\ scorer'[p].pc = "idle"
        /\ \A q \in Scorers \ {p} : scorer'[q] = scorer[q]
    BY <1>2 DEF Open, Commit, RollBack, Idle, TypeInv, TypeOK
  <2>3. \A q \in Scorers : scorer'[q].pc = "idle"
    BY <1>0, <2>2 DEF OneSession, Open
  <2> QED
    BY <2>1, <2>3 DEF Fresh, Open
<1>3. ASSUME \A p \in Scorers : ~ Commit(p)
      PROVE  HistoryIsChain' /\ Fresh'
  <2>1. UNCHANGED <<stage, history>>
    BY <1>3, QuietStep DEF db
  <2>2. HistoryIsChain'
    BY <1>0, <2>1 DEF HistoryIsChain, Rows
  <2> SUFFICES ASSUME NEW p \in Scorers, scorer'[p].pc # "idle"
               PROVE  /\ scorer'[p].seen = stage
                      /\ \A s \in scorer'[p].done : scorer'[p].result[s].from = stage[s]
                      /\ scorer'[p].pc \in {"delete", "deleting", "flush"} =>
                            scorer'[p].result[scorer'[p].at].from = stage[scorer'[p].at]
    BY <2>1, <2>2 DEF Fresh, Open
  <2>t. scorer \in [Scorers -> Sound] /\ scorer \in [Scorers -> Session]
    BY DEF TypeInv, TypeOK
  <2>3. CASE scorer' = scorer
    BY <1>0, <2>3 DEF Fresh, Open
  <2>4. ASSUME NEW rules, NEW sites, NEW backtest, Begin(p, rules, sites, backtest)
        PROVE  /\ scorer'[p].seen = stage /\ scorer'[p].done = {}
               /\ scorer'[p].pc = "model"
    BY <2>4, <2>t DEF Begin, Idle
  <2>5. ASSUME NEW s \in Sites, NEW cutoff \in Days,
               get_or_create_model_version(p, s, cutoff)
        PROVE  /\ scorer'[p].seen = scorer[p].seen /\ scorer'[p].done = scorer[p].done
               /\ scorer'[p].result = scorer[p].result
               /\ scorer'[p].pc \in {"evidence", "insert_model"} /\ scorer[p].pc # "idle"
    BY <2>5, <2>t DEF get_or_create_model_version
  <2>6. CASE InsertModel(p)
    BY <1>0, <2>6, <2>t DEF InsertModel, Fresh, Open
  <2>7. CASE Score(p)
    <3> DEFINE at == scorer[p].at
    <3>1. at \in Sites /\ scorer[p].pc = "evidence"
      BY <2>7, <2>t DEF Score, Sound
    <3>2. PICK result :
              /\ result.from = scorer[p].seen[at]
              /\ scorer' = [scorer EXCEPT
                     ![p].result[at] = result,
                     ![p].done = IF scorer[p].backtest THEN @ \cup {at} ELSE @,
                     ![p].todo = IF scorer[p].backtest THEN @ \ {at} ELSE @,
                     ![p].pc   = IF scorer[p].backtest THEN "model" ELSE "delete"]
      BY <2>7 DEF Score
    <3> HIDE DEF at
    <3>3. scorer[p].result \in [Sites -> Results] /\ scorer[p].done \subseteq Sites
      BY <2>t DEF Session
    <3>4. /\ scorer'[p].seen = scorer[p].seen /\ scorer'[p].at = scorer[p].at
          /\ scorer'[p].done \subseteq scorer[p].done \cup {at}
          /\ scorer'[p].result = [scorer[p].result EXCEPT ![at] = result]
      BY <2>t, <3>2
    <3>5. /\ scorer'[p].result[at].from = scorer[p].seen[at]
          /\ \A s \in Sites \ {at} : scorer'[p].result[s] = scorer[p].result[s]
      <4> DEFINE old == scorer[p].result
                 new == scorer'[p].result
      <4>1. /\ old \in [Sites -> Results] /\ new = [old EXCEPT ![at] = result]
            /\ at \in Sites
        BY <3>1, <3>3, <3>4
      <4> HIDE DEF old, new
      <4>2. new[at] = result /\ \A s \in Sites \ {at} : new[s] = old[s]
        BY <4>1
      <4>3. result.from = scorer[p].seen[at]
        BY <3>2
      <4> QED
        BY <4>2, <4>3 DEF old, new
    <3>6. /\ scorer[p].seen = stage
          /\ \A s \in scorer[p].done : scorer[p].result[s].from = stage[s]
      BY <1>0, <3>1 DEF Fresh, Open
    <3>7. at = scorer[p].at
      BY DEF at
    <3> QED
      BY <3>1, <3>3, <3>4, <3>5, <3>6, <3>7
  <2>8. ASSUME DeleteEstimates(p) \/ EstimatesDeleted(p)
        PROVE  /\ scorer'[p].seen = scorer[p].seen /\ scorer'[p].done = scorer[p].done
               /\ scorer'[p].result = scorer[p].result /\ scorer'[p].at = scorer[p].at
               /\ scorer[p].pc \in {"delete", "deleting"}
    <3>1. CASE DeleteEstimates(p)
      BY <2>t, <3>1 DEF DeleteEstimates
    <3>2. CASE EstimatesDeleted(p)
      <4> DEFINE gone == scorer[p].deleted \cup (scorer[p].doomed \cap estimates[scorer[p].at])
      <4>1. /\ scorer' = [scorer EXCEPT ![p].deleted = gone, ![p].doomed = {}, ![p].pc = "flush"]
            /\ scorer[p].pc = "deleting"
        BY <2>t, <3>2 DEF EstimatesDeleted
      <4> HIDE DEF gone
      <4> QED
        BY <2>t, <4>1
    <3> QED
      BY <2>8, <3>1, <3>2
  <2>9. CASE Flush(p)
    BY <1>0, <2>9, <2>t DEF Flush, Fresh, Open
  <2>10. CASE RollBack(p)
    BY <2>10, <2>t DEF RollBack, Idle
  <2>11. CASE UNCHANGED vars \/ Midnight \/ \E r \in Records, s \in Sites : Attach(r, s)
    BY <2>3, <2>11 DEF vars, Midnight, Attach
  <2>12. ASSUME NEW q \in Scorers, q # p,
                \/ \E rules \in Releases, backtest \in BOOLEAN,
                      sites \in {{s} : s \in Sites} \cup {Sites} : Begin(q, rules, sites, backtest)
                \/ ScorerStep(q)
                \/ Fail(q)
         PROVE  FALSE
    <3>1. CASE ScorerStep(q) \/ Fail(q)
      <4>1. Open(q) /\ scorer'[p] = scorer[p]
        BY <2>12, <3>1, ActorStep
      <4> QED
        BY <1>0, <2>12, <4>1 DEF OneSession, Open
    <3>2. CASE ~ (ScorerStep(q) \/ Fail(q))
      <4>1. ~ Open(p) /\ scorer'[p] = scorer[p]
        BY <2>12, <3>2, BeginStep
      <4> QED
        BY <4>1 DEF Open
    <3> QED
      BY <3>1, <3>2
  <2>13. CASE \E rules \in Releases, backtest \in BOOLEAN,
                 sites \in {{s} : s \in Sites} \cup {Sites} : Begin(p, rules, sites, backtest)
    BY <2>4, <2>13
  <2>14. CASE \E s \in Sites, cutoff \in Days : get_or_create_model_version(p, s, cutoff)
    BY <1>0, <2>5, <2>14 DEF Fresh, Open
  <2>15. CASE DeleteEstimates(p) \/ EstimatesDeleted(p)
    BY <1>0, <2>8, <2>15 DEF Fresh, Open
  <2>16. CASE InsertModelRaises(p) \/ DeadlockDetected(p) \/ Fail(p)
    BY <2>10, <2>16 DEF InsertModelRaises, DeadlockDetected, Fail
  <2> QED
    BY <1>3, <2>6, <2>7, <2>9, <2>11, <2>12, <2>13, <2>14, <2>15, <2>16 DEF Next, ScorerStep
<1> QED
  BY <1>2, <1>3

LEMMA SerialInit == Init => SerialInv
<1> SUFFICES ASSUME Init PROVE SerialInv
  OBVIOUS
<1>1. \A s \in Sites : history[s] = <<>> /\ Rows(s) = {}
  BY DEF Init, Rows
<1>2. \A p \in Scorers : ~ Open(p)
  BY DEF Init, Idle, Open
<1> QED
  BY <1>1, <1>2
     DEF Init, SerialInv, HistoryIsChain, StageIsLastTransition, LastTo, Fresh, OneSession

LEMMA SerialStep == TypeInv /\ SerialInv /\ [Next]_vars => SerialInv'
<1> SUFFICES ASSUME TypeInv, SerialInv, [Next]_vars PROVE SerialInv'
  OBVIOUS
<1>1. StageIsLastTransition'
  BY LastTransitionStep DEF SerialInv
<1>2. ~ overlapped' => OneSession' /\ HistoryIsChain' /\ Fresh'
  BY OneSessionStep, FreshStep
<1> QED
  BY <1>1, <1>2 DEF SerialInv

\* As long as recalculations do not overlap, the stage history of a site is a chain.
THEOREM SerialHistory == Spec => []SerialHistoryIsChain
<1>1. SerialInv => SerialHistoryIsChain
  BY DEF SerialInv, SerialHistoryIsChain
<1> QED
  BY <1>1, SerialInit, SerialStep, TypeInvariant, PTL DEF Spec

-----------------------------------------------------------------------------
(***************************************************************************)
(* What a step does to one session, in the fields the invariants below     *)
(* speak of.                                                               *)
(***************************************************************************)

\* The session is untouched in these fields.
Same(me, next) ==
    /\ next.pc = me.pc /\ next.at = me.at /\ next.backtest = me.backtest
    /\ next.seen = me.seen /\ next.result = me.result /\ next.done = me.done
    /\ next.doomed = me.doomed /\ next.deleted = me.deleted

\* It is closed, or opened.
Closes(next) ==
    /\ next.pc = "idle" /\ next.seen = [s \in Sites |-> 0]
    /\ next.result = [s \in Sites |-> NoResult]
    /\ next.done = {} /\ next.doomed = {} /\ next.deleted = {}

Opens(next) ==
    /\ next.pc = "model" /\ next.seen = stage
    /\ next.result = [s \in Sites |-> NoResult]
    /\ next.done = {} /\ next.doomed = {} /\ next.deleted = {}

\* It goes on to the next site, with the model row found or inserted.
Chooses(me, next) ==
    /\ me.pc \in {"model", "insert_model"} /\ next.pc \in {"evidence", "insert_model"}
    /\ next.backtest = me.backtest
    /\ next.seen = me.seen /\ next.result = me.result /\ next.done = me.done
    /\ next.doomed = me.doomed /\ next.deleted = me.deleted

Scores(me, next) ==
    /\ me.pc = "evidence" /\ next.pc = IF me.backtest THEN "model" ELSE "delete"
    /\ me.at \in Sites /\ next.at = me.at /\ next.backtest = me.backtest
    /\ next.seen = me.seen
    /\ \E result \in Results : /\ next.result = [me.result EXCEPT ![me.at] = result]
                               /\ result.from = me.seen[me.at]
                               /\ result.to = infer_stage(result.triggers)
    /\ next.done = IF me.backtest THEN me.done \cup {me.at} ELSE me.done
    /\ next.doomed = me.doomed /\ next.deleted = me.deleted

Deletes(me, next) ==
    /\ me.pc = "delete" /\ next.pc = "deleting"
    /\ me.at \in Sites /\ next.at = me.at /\ next.backtest = me.backtest
    /\ next.seen = me.seen /\ next.result = me.result /\ next.done = me.done
    /\ next.doomed = estimates[me.at] /\ next.deleted = me.deleted

HasDeleted(me, next) ==
    /\ me.pc = "deleting" /\ next.pc = "flush"
    /\ me.at \in Sites /\ next.at = me.at /\ next.backtest = me.backtest
    /\ next.seen = me.seen /\ next.result = me.result /\ next.done = me.done
    /\ next.doomed = {}
    /\ next.deleted = me.deleted \cup (me.doomed \cap estimates[me.at])

Flushes(me, next) ==
    /\ me.pc = "flush" /\ next.pc = "model"
    /\ me.at \in Sites /\ next.at = me.at /\ next.backtest = me.backtest
    /\ next.seen = me.seen /\ next.result = me.result
    /\ next.done = me.done \cup {me.at}
    /\ next.doomed = me.doomed /\ next.deleted = me.deleted

SessionMoves(me, next) ==
    \/ Same(me, next) \/ Closes(next) \/ Opens(next) \/ Chooses(me, next)
    \/ Scores(me, next) \/ Deletes(me, next) \/ HasDeleted(me, next) \/ Flushes(me, next)

LEMMA RollBackCloses ==
    ASSUME TypeInv, NEW p \in Scorers, RollBack(p)
    PROVE  Closes(scorer'[p])
BY DEF TypeInv, TypeOK, RollBack, Idle, Closes

LEMMA ScoreMoves ==
    ASSUME TypeInv, NEW p \in Scorers, Score(p)
    PROVE  Scores(scorer[p], scorer'[p])
<1> DEFINE me == scorer[p]
           positive == score_site(load_evidence_inputs(me.at, me.asOf))
           result == [from |-> me.seen[me.at], to |-> infer_stage(positive),
                      asOf |-> me.asOf, triggers |-> positive]
<1>1. me \in Sound /\ me \in Session /\ me.pc = "evidence" /\ me.at \in Sites
  BY DEF TypeInv, TypeOK, Score, Sound
<1>2. positive \in SUBSET Records
  BY DEF score_site, load_evidence_inputs
<1>3. result \in Results
  <2>1. me.seen[me.at] \in Stages /\ me.asOf \in Days
    BY <1>1 DEF Session
  <2>2. infer_stage(positive) \in Stages
    BY <1>2, InferStageType
  <2> HIDE DEF positive
  <2> QED
    BY <1>2, <2>1, <2>2 DEF Results
<1>4. result.from = me.seen[me.at] /\ result.to = infer_stage(result.triggers)
  OBVIOUS
<1>5. scorer' = [scorer EXCEPT
                ![p].result[me.at] = result,
                ![p].done = IF me.backtest THEN @ \cup {me.at} ELSE @,
                ![p].todo = IF me.backtest THEN @ \ {me.at} ELSE @,
                ![p].pc   = IF me.backtest THEN "model" ELSE "delete"]
  BY DEF Score
<1> HIDE DEF positive, result
<1>6. scorer \in [Scorers -> Session]
  BY DEF TypeInv, TypeOK
<1> QED
  BY <1>1, <1>3, <1>4, <1>5, <1>6 DEF Scores, Session

LEMMA ActorMoves ==
    ASSUME TypeInv, NEW p \in Scorers, ScorerStep(p) \/ Fail(p)
    PROVE  SessionMoves(scorer[p], scorer'[p])
<1>t. scorer \in [Scorers -> Session] /\ scorer[p] \in Sound
  BY DEF TypeInv, TypeOK
<1>1. ASSUME NEW s \in Sites, NEW cutoff \in Days, get_or_create_model_version(p, s, cutoff)
      PROVE  Chooses(scorer[p], scorer'[p])
  BY <1>1, <1>t DEF get_or_create_model_version, Chooses, Session
<1>2. CASE InsertModel(p)
  BY <1>2, <1>t DEF InsertModel, SessionMoves, Chooses, Session
<1>3. CASE Score(p)
  BY <1>3, ScoreMoves DEF SessionMoves
<1>4. CASE DeleteEstimates(p)
  <2>1. Deletes(scorer[p], scorer'[p])
    BY <1>4, <1>t DEF DeleteEstimates, Deletes, Session, Sound
  <2> QED
    BY <2>1 DEF SessionMoves
<1>5. CASE EstimatesDeleted(p)
  <2> DEFINE gone == scorer[p].doomed \cap estimates[scorer[p].at]
  <2>1. /\ scorer[p].pc = "deleting" /\ scorer[p].at \in Sites
        /\ scorer' = [scorer EXCEPT ![p].deleted = @ \cup gone, ![p].doomed = {}, ![p].pc = "flush"]
    BY <1>5, <1>t DEF EstimatesDeleted, Sound
  <2> HIDE DEF gone
  <2>2. /\ scorer'[p] = [scorer[p] EXCEPT !.deleted = @ \cup gone, !.doomed = {}, !.pc = "flush"]
    BY <1>t, <2>1
  <2>3. HasDeleted(scorer[p], scorer'[p])
    BY <1>t, <2>1, <2>2 DEF HasDeleted, Session, gone
  <2> QED
    BY <2>3 DEF SessionMoves
<1>6. CASE Flush(p)
  <2>1. Flushes(scorer[p], scorer'[p])
    BY <1>6, <1>t DEF Flush, Flushes, Session, Sound
  <2> QED
    BY <2>1 DEF SessionMoves
<1>7. CASE RollBack(p)
  BY <1>7, RollBackCloses DEF SessionMoves
<1> QED
  BY <1>1, <1>2, <1>3, <1>4, <1>5, <1>6, <1>7
     DEF ScorerStep, InsertModelRaises, DeadlockDetected, Commit, Fail, SessionMoves

\* Every step moves every session in one of these ways.
LEMMA EverySessionMoves ==
    ASSUME TypeInv, [Next]_vars, NEW p \in Scorers
    PROVE  SessionMoves(scorer[p], scorer'[p])
<1>t. scorer \in [Scorers -> Session]
  BY DEF TypeInv, TypeOK
<1>1. CASE scorer'[p] = scorer[p]
  BY <1>1 DEF SessionMoves, Same
<1>2. CASE UNCHANGED vars \/ Midnight \/ \E r \in Records, s \in Sites : Attach(r, s)
  BY <1>1, <1>2 DEF vars, Midnight, Attach
<1>3. ASSUME NEW q \in Scorers, NEW rules, NEW sites, NEW backtest,
             Begin(q, rules, sites, backtest)
      PROVE  SessionMoves(scorer[p], scorer'[p])
  <2>1. CASE q = p
    BY <1>3, <1>t, <2>1 DEF Begin, Idle, SessionMoves, Opens
  <2> QED
    BY <1>1, <1>3, <2>1, BeginStep
<1>4. ASSUME NEW q \in Scorers, ScorerStep(q) \/ Fail(q)
      PROVE  SessionMoves(scorer[p], scorer'[p])
  <2>1. CASE q = p
    BY <1>4, <2>1, ActorMoves
  <2> QED
    BY <1>1, <1>4, <2>1, ActorStep
<1> QED
  BY <1>2, <1>3, <1>4 DEF Next

-----------------------------------------------------------------------------
(***************************************************************************)
(* Downgrades.  Every transition leads to the stage its evidence implies,  *)
(* and starts from 0 or from a stage that an earlier one led to: what a    *)
(* session loaded was in the history by then, however sessions overlap.    *)
(***************************************************************************)

Reached(s) == {0} \cup {history[s][i].to : i \in Rows(s)}

RowsJustified ==
    \A s \in Sites : \A i \in Rows(s) :
        /\ history[s][i].to = infer_stage(history[s][i].triggers)
        /\ history[s][i].from # 0 => \E j \in 1 .. i - 1 : history[s][j].to = history[s][i].from

SessionsJustified ==
    \A p \in Scorers, s \in Sites :
        /\ scorer[p].seen[s] \in Reached(s)
        /\ scorer[p].result[s].from \in Reached(s)
        /\ scorer[p].result[s].to = infer_stage(scorer[p].result[s].triggers)

JustifiedInv == StageIsLastTransition /\ RowsJustified /\ SessionsJustified

\* Committing extends histories at their end.
LEMMA HistoryGrows ==
    ASSUME TypeInv, [Next]_vars, NEW s \in Sites
    PROVE  /\ Rows(s) \subseteq Rows(s)' /\ \A i \in Rows(s) : history'[s][i] = history[s][i]
           /\ Reached(s) \subseteq Reached(s)'
<1>1. Rows(s) \subseteq Rows(s)' /\ \A i \in Rows(s) : history'[s][i] = history[s][i]
  <2>1. CASE history'[s] = history[s]
    BY <2>1 DEF Rows
  <2>2. CASE history'[s] # history[s]
    <3>1. PICK p \in Scorers : Commit(p)
      BY <2>2, QuietStep DEF db
    <3>2. PICK row \in HistoryRow :
              history[s] \in Seq(HistoryRow) /\ history'[s] = Append(history[s], row)
      BY <2>2, <3>1, CommitMoves
    <3> QED
      BY <3>2, AppendedRow DEF Rows
  <2> QED
    BY <2>1, <2>2
<1> QED
  BY <1>1 DEF Reached

LEMMA RowsStayJustified ==
    ASSUME TypeInv, JustifiedInv, [Next]_vars
    PROVE  RowsJustified'
<1> SUFFICES ASSUME NEW s \in Sites, NEW i \in Rows(s)'
             PROVE  /\ history'[s][i].to = infer_stage(history'[s][i].triggers)
                    /\ history'[s][i].from # 0 =>
                          \E j \in 1 .. i - 1 : history'[s][j].to = history'[s][i].from
  BY DEF RowsJustified, infer_stage
<1>1. CASE i \in Rows(s)
  <2>1. history[s] \in Seq(HistoryRow)
    BY DEF TypeInv, TypeOK
  <2>2. \A j \in 1 .. i - 1 : j \in Rows(s)
    BY <1>1, <2>1 DEF Rows
  <2> QED
    BY <1>1, <2>2, HistoryGrows DEF JustifiedInv, RowsJustified
<1>2. CASE i \notin Rows(s)
  <2>1. history'[s] # history[s]
    BY <1>2 DEF Rows
  <2>2. PICK p \in Scorers : Commit(p)
    BY <2>1, QuietStep DEF db
  <2>3. /\ history[s] \in Seq(HistoryRow) /\ s \in Moved(p)
        /\ history' = [z \in Sites |->
                IF z \in Moved(p)
                THEN Append(history[z], _record_stage_transition(scorer[p].result[z]))
                ELSE history[z]]
    BY <2>1, <2>2, CommitMoves DEF Commit
  <2> DEFINE row == _record_stage_transition(scorer[p].result[s])
  <2>4. row \in HistoryRow /\ history'[s] = Append(history[s], row)
    <3>1. scorer[p].result[s] \in Results
      BY DEF TypeInv, TypeOK, Session
    <3> QED
      BY <2>3, <3>1, TransitionType
  <2>5. /\ row.from = scorer[p].result[s].from /\ row.to = scorer[p].result[s].to
        /\ row.triggers = scorer[p].result[s].triggers
    BY DEF _record_stage_transition
  <2> HIDE DEF row
  <2>6. /\ Rows(s)' = 1 .. Len(history[s]) + 1 /\ Rows(s) = 1 .. Len(history[s])
        /\ history'[s][Len(history[s]) + 1] = row /\ Len(history[s]) \in Nat
        /\ \A k \in 1 .. Len(history[s]) : history'[s][k] = history[s][k]
    BY <2>3, <2>4, AppendedRow DEF Rows
  <2>7. i = Len(history[s]) + 1
    BY <1>2, <2>6
  <2>8. row.from \in Reached(s) /\ row.to = infer_stage(row.triggers)
    BY <2>5 DEF JustifiedInv, SessionsJustified
  <2>9. row.from # 0 => \E j \in 1 .. Len(history[s]) : history[s][j].to = row.from
    BY <2>6, <2>8 DEF Reached
  <2>a. history'[s][i] = row
    BY <2>6, <2>7
  <2>b. i - 1 = Len(history[s])
    BY <2>6, <2>7
  <2>c. \A k \in 1 .. i - 1 : history'[s][k] = history[s][k]
    BY <2>6, <2>b
  <2>d. row.from # 0 => \E j \in 1 .. i - 1 : history'[s][j].to = row.from
    BY <2>9, <2>b, <2>c
  <2> QED
    BY <2>8, <2>a, <2>d
<1> QED
  BY <1>1, <1>2

LEMMA SessionsStayJustified ==
    ASSUME TypeInv, JustifiedInv, [Next]_vars
    PROVE  SessionsJustified'
<1> SUFFICES ASSUME NEW p \in Scorers, NEW s \in Sites
             PROVE  /\ scorer'[p].seen[s] \in Reached(s)'
                    /\ scorer'[p].result[s].from \in Reached(s)'
                    /\ scorer'[p].result[s].to = infer_stage(scorer'[p].result[s].triggers)
  BY DEF SessionsJustified, infer_stage
<1> DEFINE me == scorer[p]
           next == scorer'[p]
           Good(x) == /\ x.seen[s] \in Reached(s)' /\ x.result[s].from \in Reached(s)'
                      /\ x.result[s].to = infer_stage(x.result[s].triggers)
<1> SUFFICES Good(next)
  OBVIOUS
<1>1. Good(me)
  BY HistoryGrows DEF JustifiedInv, SessionsJustified
<1>2. SessionMoves(me, next)
  BY EverySessionMoves
<1>3. NoResult.from = 0 /\ NoResult.to = infer_stage(NoResult.triggers) /\ 0 \in Reached(s)'
  BY InferStageOfNothing DEF NoResult, Reached
<1>4. stage[s] \in Reached(s)'
  <2>1. stage[s] = 0 \/ (history[s] # <<>> /\ stage[s] = history[s][Len(history[s])].to)
    BY DEF JustifiedInv, StageIsLastTransition, LastTo
  <2>2. history[s] # <<>> => Len(history[s]) \in Rows(s)
    BY DEF Rows, TypeInv, TypeOK
  <2>3. stage[s] \in Reached(s)
    BY <2>1, <2>2 DEF Reached
  <2> QED
    BY <2>3, HistoryGrows
<1>5. me.result \in [Sites -> Results]
  BY DEF TypeInv, TypeOK, Session
<1> HIDE DEF me, next
<1>6. CASE Closes(next) \/ Opens(next)
  BY <1>3, <1>4, <1>6 DEF Closes, Opens
<1>7. CASE Scores(me, next)
  <2>1. PICK result \in Results : /\ next.result = [me.result EXCEPT ![me.at] = result]
                                  /\ result.from = me.seen[me.at]
                                  /\ result.to = infer_stage(result.triggers)
    BY <1>7 DEF Scores
  <2>2. next.seen = me.seen /\ next.result[s] \in {result, me.result[s]}
        /\ ((next.result[s] = result /\ s = me.at) \/ next.result[s] = me.result[s])
    BY <1>5, <1>7, <2>1 DEF Scores
  <2> QED
    BY <1>1, <2>1, <2>2
<1>8. CASE next.seen = me.seen /\ next.result = me.result
  BY <1>1, <1>8
<1> QED
  BY <1>2, <1>6, <1>7, <1>8 DEF SessionMoves, Same, Chooses, Deletes, HasDeleted, Flushes

\* What lowers a stage is the loss of evidence, however recalculations overlap.
THEOREM DowngradesLoseEvidence == Spec => []DowngradeHasLostEvidence
<1>1. Init => JustifiedInv
  <2> SUFFICES ASSUME Init PROVE JustifiedInv
    OBVIOUS
  <2>1. \A s \in Sites : Rows(s) = {} /\ history[s] = <<>>
    BY DEF Init, Rows
  <2>2. SessionsJustified
    BY InferStageOfNothing DEF Init, SessionsJustified, Reached, Idle, NoResult
  <2> QED
    BY <2>1, <2>2 DEF Init, JustifiedInv, RowsJustified, StageIsLastTransition, LastTo
<1>2. TypeInv /\ JustifiedInv /\ [Next]_vars => JustifiedInv'
  BY LastTransitionStep, RowsStayJustified, SessionsStayJustified DEF JustifiedInv
<1>3. TypeInv /\ JustifiedInv => DowngradeHasLostEvidence
  <2> SUFFICES ASSUME TypeInv, JustifiedInv, NEW s \in Sites, NEW i \in Rows(s),
                      history[s][i].to < history[s][i].from
               PROVE  \E j \in 1 .. i - 1 :
                        /\ history[s][j].to = history[s][i].from
                        /\ ~ history[s][j].triggers \subseteq history[s][i].triggers
    BY DEF DowngradeHasLostEvidence
  <2>1. /\ history[s] \in Seq(HistoryRow) /\ Rows(s) = 1 .. Len(history[s])
        /\ history[s][i] \in HistoryRow
    BY DEF TypeInv, TypeOK, Rows
  <2>2. history[s][i].to \in Nat /\ history[s][i].from \in Nat /\ history[s][i].from # 0
    BY <2>1 DEF HistoryRow, Stages
  <2>3. PICK j \in 1 .. i - 1 : history[s][j].to = history[s][i].from
    BY <2>2 DEF JustifiedInv, RowsJustified
  <2>4. j \in Rows(s) /\ history[s][j] \in HistoryRow
    BY <2>1
  <2>5. /\ history[s][j].to = infer_stage(history[s][j].triggers)
        /\ history[s][i].to = infer_stage(history[s][i].triggers)
    BY <2>4 DEF JustifiedInv, RowsJustified
  <2>6. /\ history[s][j].triggers \in SUBSET Records /\ history[s][i].triggers \in SUBSET Records
    BY <2>1, <2>4 DEF HistoryRow
  <2>7. history[s][j].triggers \subseteq history[s][i].triggers =>
          history[s][i].from <= history[s][i].to
    BY <2>3, <2>5, <2>6, InferStageMonotone
  <2> QED
    BY <2>2, <2>3, <2>7
<1> QED
  BY <1>1, <1>2, <1>3, TypeInvariant, PTL DEF Spec

-----------------------------------------------------------------------------
(***************************************************************************)
(* Estimates.  What a session has deleted are rows of sites it writes a    *)
(* live score of, so that its commit puts new ones in their place.         *)
(***************************************************************************)

EstimatesOfSites == \A s \in Sites : \A e \in estimates[s] : e.site = s

Replaces(me) ==
    /\ me.pc \in {"delete", "deleting", "flush"} => ~ me.backtest
    /\ \A e \in me.deleted :
          /\ ~ me.backtest
          /\ e.site \in me.done \/ (me.pc = "flush" /\ e.site = me.at)

DeletedInv == EstimatesOfSites /\ \A p \in Scorers : Replaces(scorer[p])

LEMMA DeletedInit == Init => DeletedInv
BY DEF Init, DeletedInv, EstimatesOfSites, Replaces, Idle

LEMMA DeletedStep ==
    ASSUME TypeInv, DeletedInv, [Next]_vars
    PROVE  DeletedInv'
<1>1. EstimatesOfSites'
  <2>1. CASE \A p \in Scorers : ~ Commit(p)
    BY <2>1, QuietStep DEF db, DeletedInv, EstimatesOfSites
  <2>2. ASSUME NEW p \in Scorers, Commit(p) PROVE EstimatesOfSites'
    BY <2>2 DEF Commit, _estimate_row, DeletedInv, EstimatesOfSites
  <2> QED
    BY <2>1, <2>2
<1>2. ASSUME NEW p \in Scorers PROVE Replaces(scorer'[p])
  <2> DEFINE me == scorer[p]
             next == scorer'[p]
  <2> SUFFICES Replaces(next)
    OBVIOUS
  <2>1. Replaces(me) /\ SessionMoves(me, next)
    BY EverySessionMoves DEF DeletedInv
  <2>2. me.at \in Sites => \A e \in estimates[me.at] : e.site = me.at
    BY DEF DeletedInv, EstimatesOfSites
  <2> HIDE DEF me, next
  <2>3. CASE Same(me, next) \/ Closes(next) \/ Opens(next)
    BY <2>1, <2>3 DEF Same, Closes, Opens, Replaces
  <2>4. CASE Chooses(me, next) \/ Scores(me, next)
    BY <2>1, <2>4 DEF Chooses, Scores, Replaces
  <2>5. CASE Deletes(me, next) \/ Flushes(me, next)
    BY <2>1, <2>5 DEF Deletes, Flushes, Replaces
  <2>6. CASE HasDeleted(me, next)
    BY <2>1, <2>2, <2>6 DEF HasDeleted, Replaces
  <2> QED
    BY <2>1, <2>3, <2>4, <2>5, <2>6 DEF SessionMoves
<1> QED
  BY <1>1, <1>2 DEF DeletedInv, Replaces

\* A commit writes an estimate of the sites it scores and keeps those of others.
LEMMA CommitEstimates ==
    ASSUME TypeInv, DeletedInv, NEW p \in Scorers, Commit(p), NEW s \in Sites
    PROVE  IF s \in Live(p)
           THEN estimates'[s] = (estimates[s] \ scorer[p].deleted) \cup _estimate_row(p, s)
           ELSE estimates'[s] = estimates[s]
<1>1. scorer[p].pc = "model" /\ Replaces(scorer[p])
  BY DEF Commit, DeletedInv
<1>2. \A e \in scorer[p].deleted : e.site \in Live(p)
  BY <1>1 DEF Replaces, Live
<1>3. \A e \in estimates[s] : e.site = s
  BY DEF DeletedInv, EstimatesOfSites
<1>4. estimates'[s] = (estimates[s] \ scorer[p].deleted)
                        \cup (IF s \in Live(p) THEN _estimate_row(p, s) ELSE {})
  BY DEF Commit
<1> QED
  BY <1>2, <1>3, <1>4

\* A commit adds one live prediction of a site it scores, and none of another.
LEMMA CommitPredicts ==
    ASSUME TypeInv, NEW p \in Scorers, Commit(p), NEW s \in Sites
    PROVE  \/ /\ s \in Live(p) /\ Len(predictions[s]) \in Nat
              /\ Len(predictions'[s]) = Len(predictions[s]) + 1
              /\ LiveScores(s)' = LiveScores(s) \cup {Len(predictions'[s])}
              /\ \A i \in LiveScores(s) : i \in 1 .. Len(predictions[s])
              /\ ~ predictions'[s][Len(predictions'[s])].backtest
              /\ predictions'[s][Len(predictions'[s])].stage = scorer[p].result[s].to
           \/ /\ s \notin Live(p)
              /\ LiveScores(s)' = LiveScores(s)
              /\ \A i \in LiveScores(s) : predictions'[s][i] = predictions[s][i]
<1> DEFINE me == scorer[p]
           row == [stage |-> me.result[s].to, asOf |-> me.result[s].asOf,
                   rules |-> me.rules, backtest |-> me.backtest]
           old == predictions[s]
           new == predictions'[s]
<1>1. old \in Seq(PredictionRow)
  BY DEF TypeInv, TypeOK
<1>2. me \in Sound /\ me \in Session /\ me.pc = "model"
  BY DEF TypeInv, TypeOK, Commit
<1>3. row \in PredictionRow
  <2>1. me.rules \in Releases /\ me.result[s] \in Results /\ me.backtest \in BOOLEAN
    BY <1>2 DEF Sound, Session
  <2> QED
    BY <2>1 DEF PredictionRow, Results
<1>4. CASE s \notin me.done
  <2>1. new = old
    BY <1>4 DEF Commit
  <2> QED
    BY <1>4, <2>1 DEF LiveScores, Live
<1>5. CASE s \in me.done
  <2>1. new = Append(old, row)
    BY <1>5 DEF Commit
  <2>2. row.backtest = me.backtest /\ row.stage = me.result[s].to
    OBVIOUS
  <2>3. s \in Live(p) <=> ~ me.backtest
    BY <1>5 DEF Live
  <2>a. /\ LiveScores(s) = {i \in DOMAIN old : ~ old[i].backtest}
        /\ LiveScores(s)' = {i \in DOMAIN new : ~ new[i].backtest}
    BY DEF LiveScores
  <2> HIDE DEF row, old, new
  <2>4. /\ Len(old) \in Nat /\ DOMAIN old = 1 .. Len(old) /\ Len(new) = Len(old) + 1
        /\ new[Len(new)] = row /\ \A k \in 1 .. Len(old) : new[k] = old[k]
        /\ DOMAIN new = 1 .. Len(old) + 1
    BY <1>1, <1>3, <2>1, Appended
  <2>5. CASE me.backtest
    <3>1. LiveScores(s)' = LiveScores(s)
      <4>1. new[Len(old) + 1].backtest
        BY <2>2, <2>4, <2>5
      <4>2. \A i \in DOMAIN new : ~ new[i].backtest => i \in DOMAIN old
        BY <2>4, <4>1
      <4> QED
        BY <2>4, <2>a, <4>2
    <3>2. \A i \in LiveScores(s) : new[i] = old[i]
      BY <2>4, <2>a
    <3> QED
      BY <2>3, <2>5, <3>1, <3>2 DEF old, new
  <2>6. CASE ~ me.backtest
    <3>1. LiveScores(s)' = LiveScores(s) \cup {Len(new)}
      BY <2>2, <2>4, <2>6, <2>a
    <3>2. \A i \in LiveScores(s) : i \in 1 .. Len(old)
      BY <2>4, <2>a
    <3> QED
      BY <2>2, <2>3, <2>4, <2>6, <3>1, <3>2 DEF old, new
  <2> QED
    BY <2>5, <2>6
<1> QED
  BY <1>4, <1>5

LEMMA EstimatedStep ==
    ASSUME TypeInv, DeletedInv, LatestIsEstimated, [Next]_vars
    PROVE  LatestIsEstimated'
<1>1. CASE \A p \in Scorers : ~ Commit(p)
  BY <1>1, QuietStep DEF db, LatestIsEstimated, IsLatest, LiveScores
<1>2. ASSUME NEW p \in Scorers, Commit(p)
      PROVE  LatestIsEstimated'
  <2> SUFFICES ASSUME NEW s \in Measured, NEW i \in LiveScores(s)',
                      \A j \in LiveScores(s)' : j <= i
               PROVE  \E e \in estimates'[s] : e.stage = predictions'[s][i].stage
    BY DEF LatestIsEstimated, IsLatest
  <2>0. s \in Sites
    OBVIOUS
  <2>1. CASE s \notin Live(p)
    <3>1. /\ LiveScores(s)' = LiveScores(s) /\ estimates'[s] = estimates[s]
          /\ predictions'[s][i] = predictions[s][i]
      BY <1>2, <2>0, <2>1, CommitPredicts, CommitEstimates
    <3> QED
      BY <3>1 DEF LatestIsEstimated, IsLatest
  <2>2. CASE s \in Live(p)
    <3>1. i = Len(predictions'[s]) /\ predictions'[s][i].stage = scorer[p].result[s].to
      <4>1. /\ Len(predictions[s]) \in Nat
            /\ Len(predictions'[s]) = Len(predictions[s]) + 1
            /\ LiveScores(s)' = LiveScores(s) \cup {Len(predictions'[s])}
            /\ \A k \in LiveScores(s) : k \in 1 .. Len(predictions[s])
            /\ predictions'[s][Len(predictions'[s])].stage = scorer[p].result[s].to
        BY <1>2, <2>0, <2>2, CommitPredicts
      <4>2. Len(predictions'[s]) <= i
        BY <4>1
      <4>3. i \notin LiveScores(s)
        BY <4>1, <4>2
      <4> QED
        BY <4>1, <4>3
    <3>2. _estimate_row(p, s) \subseteq estimates'[s]
      BY <1>2, <2>0, <2>2, CommitEstimates
    <3> QED
      BY <3>1, <3>2 DEF _estimate_row
  <2> QED
    BY <2>1, <2>2
<1> QED
  BY <1>1, <1>2

\* A measured site has the estimates of its latest live score, whatever other
\* recalculations have deleted.
THEOREM LatestEstimated == Spec => []LatestIsEstimated
<1>1. Init => LatestIsEstimated
  BY DEF Init, LatestIsEstimated, LiveScores
<1> QED
  BY <1>1, DeletedInit, DeletedStep, EstimatedStep, TypeInvariant, PTL DEF Spec

\* Nothing but a live score moves a site: not a backtest, nor a recalculation of
\* another site that has deleted estimates.
THEOREM LiveScoresMove == Spec => OnlyLiveScoresMoveSites
<1>1. TypeInv /\ DeletedInv /\ [Next]_vars =>
        [\A s \in Sites :
            \/ stage'[s] = stage[s] /\ history'[s] = history[s] /\ estimates'[s] = estimates[s]
            \/ /\ Len(predictions'[s]) = Len(predictions[s]) + 1
               /\ ~ predictions'[s][Len(predictions'[s])].backtest]_vars
  <2> DEFINE Quiet(s) == /\ stage'[s] = stage[s] /\ history'[s] = history[s]
                         /\ estimates'[s] = estimates[s]
             Scored(s) == /\ Len(predictions'[s]) = Len(predictions[s]) + 1
                          /\ ~ predictions'[s][Len(predictions'[s])].backtest
  <2> SUFFICES ASSUME TypeInv, DeletedInv, [Next]_vars, NEW s \in Sites
               PROVE  Quiet(s) \/ Scored(s)
    OBVIOUS
  <2>1. CASE \A p \in Scorers : ~ Commit(p)
    BY <2>1, QuietStep DEF db
  <2>2. ASSUME NEW p \in Scorers, Commit(p), s \in Live(p)
        PROVE  Scored(s)
    BY <2>2, CommitPredicts
  <2>3. ASSUME NEW p \in Scorers, Commit(p), s \notin Live(p)
        PROVE  Quiet(s)
    BY <2>3, CommitMoves, CommitEstimates DEF Moved
  <2> QED
    BY <2>1, <2>2, <2>3
<1>2. Spec => []DeletedInv
  BY DeletedInit, DeletedStep, TypeInvariant, PTL DEF Spec
<1> QED
  BY <1>1, <1>2, TypeInvariant, PTL DEF Spec, OnlyLiveScoresMoveSites

-----------------------------------------------------------------------------
(***************************************************************************)
(* Scores that do not overlap.  A session that deletes estimates deletes   *)
(* all there are of the site, so that its own are the only ones; and the   *)
(* stage it commits is the one it predicts, moved or not.                  *)
(***************************************************************************)

\* Its deletion has missed no row of the sites it has scored.
Clears(me) ==
    /\ ~ me.backtest => \A s \in me.done : estimates[s] \subseteq me.deleted
    /\ me.pc = "deleting" => me.doomed = estimates[me.at]
    /\ me.pc = "flush" => estimates[me.at] \subseteq me.deleted

ScoresAgree ==
    \A s \in Sites :
        /\ \A i \in LiveScores(s) : IsLatest(i, s) => stage[s] = predictions[s][i].stage
        /\ Cardinality(estimates[s]) <= 1

AgreeInv == ~ overlapped => ScoresAgree /\ \A p \in Scorers : Clears(scorer[p])

LEMMA ClearsStep ==
    ASSUME TypeInv, \A q \in Scorers : Clears(scorer[q]), [Next]_vars,
           \A q \in Scorers : ~ Commit(q), NEW p \in Scorers
    PROVE  Clears(scorer[p])'
<1> DEFINE me == scorer[p]
           next == scorer'[p]
<1>1. estimates' = estimates
  BY QuietStep DEF db
<1>2. SUFFICES Clears(next)
  BY <1>1 DEF Clears
<1>3. Clears(me) /\ SessionMoves(me, next)
  BY EverySessionMoves
<1> HIDE DEF me, next
<1>4. CASE Same(me, next) \/ Closes(next) \/ Opens(next)
  BY <1>3, <1>4 DEF Same, Closes, Opens, Clears
<1>5. CASE Chooses(me, next) \/ Scores(me, next)
  BY <1>3, <1>5 DEF Chooses, Scores, Clears
<1>6. CASE Deletes(me, next) \/ HasDeleted(me, next) \/ Flushes(me, next)
  BY <1>3, <1>6 DEF Deletes, HasDeleted, Flushes, Clears
<1> QED
  BY <1>3, <1>4, <1>5, <1>6 DEF SessionMoves

\* A commit that overlapped none leaves the stage it predicts and one estimate.
LEMMA CommitAgrees ==
    ASSUME TypeInv, DeletedInv, SerialInv, ~ overlapped, ScoresAgree,
           NEW p \in Scorers, Commit(p), Clears(scorer[p]), NEW s \in Sites
    PROVE  /\ \A i \in LiveScores(s)' :
                IsLatest(i, s)' => stage'[s] = predictions'[s][i].stage
           /\ Cardinality(estimates'[s]) <= 1
<1>1. CASE s \notin Live(p)
  <2>1. /\ LiveScores(s)' = LiveScores(s) /\ estimates'[s] = estimates[s]
        /\ \A i \in LiveScores(s) : predictions'[s][i] = predictions[s][i]
        /\ stage'[s] = stage[s]
    BY <1>1, CommitPredicts, CommitEstimates, CommitMoves DEF Moved
  <2> QED
    BY <2>1 DEF ScoresAgree, IsLatest
<1>2. CASE s \in Live(p)
  <2>1. scorer[p].pc = "model" /\ ~ scorer[p].backtest /\ s \in scorer[p].done
    BY <1>2 DEF Live, Commit
  <2>2. stage'[s] = scorer[p].result[s].to
    <3>1. scorer[p].result[s].from = stage[s]
      BY <2>1 DEF SerialInv, Fresh, Open
    <3>2. s \in Moved(p) <=> scorer[p].result[s].to # scorer[p].result[s].from
      BY <1>2 DEF Moved
    <3>3. stage'[s] = StageAfter(p, s)
      BY DEF Commit
    <3> QED
      BY <3>1, <3>2, <3>3 DEF StageAfter
  <2>3. ASSUME NEW i \in LiveScores(s)', IsLatest(i, s)'
        PROVE  stage'[s] = predictions'[s][i].stage
    <3>1. /\ Len(predictions[s]) \in Nat
          /\ Len(predictions'[s]) = Len(predictions[s]) + 1
          /\ LiveScores(s)' = LiveScores(s) \cup {Len(predictions'[s])}
          /\ \A k \in LiveScores(s) : k \in 1 .. Len(predictions[s])
          /\ predictions'[s][Len(predictions'[s])].stage = scorer[p].result[s].to
      BY <1>2, CommitPredicts
    <3>2. \A k \in LiveScores(s)' : k <= i
      BY <2>3 DEF IsLatest
    <3>3. Len(predictions'[s]) <= i
      BY <3>1, <3>2
    <3>4. i = Len(predictions'[s])
      BY <3>1, <3>3
    <3> QED
      BY <2>2, <3>1, <3>4
  <2>4. estimates'[s] = _estimate_row(p, s)
    <3>1. estimates'[s] = (estimates[s] \ scorer[p].deleted) \cup _estimate_row(p, s)
      BY <1>2, CommitEstimates
    <3>2. estimates[s] \subseteq scorer[p].deleted
      BY <2>1 DEF Clears
    <3> QED
      BY <3>1, <3>2
  <2>5. Cardinality(_estimate_row(p, s)) <= 1
    <3>1. _estimate_row(p, s) = {} \/ \E e : _estimate_row(p, s) = {e}
      BY DEF _estimate_row
    <3>2. Cardinality(_estimate_row(p, s)) \in {0, 1}
      BY <3>1, FS_EmptySet, FS_Singleton, Zenon
    <3> QED
      BY <3>2
  <2> QED
    BY <2>3, <2>4, <2>5
<1> QED
  BY <1>1, <1>2

LEMMA AgreeStep ==
    ASSUME TypeInv, TypeInv', DeletedInv, SerialInv, AgreeInv, [Next]_vars
    PROVE  AgreeInv'
<1> SUFFICES ASSUME ~ overlapped'
             PROVE  ScoresAgree' /\ \A p \in Scorers : Clears(scorer[p])'
  BY DEF AgreeInv
<1>1. /\ ~ overlapped /\ OneSession
      /\ ScoresAgree /\ \A p \in Scorers : Clears(scorer[p])
  BY OneSessionStep DEF AgreeInv
<1>2. CASE \A p \in Scorers : ~ Commit(p)
  <2>1. UNCHANGED <<stage, predictions, estimates>>
    BY <1>2, QuietStep DEF db
  <2>2. ScoresAgree'
    BY <1>1, <2>1 DEF ScoresAgree, IsLatest, LiveScores
  <2> QED
    BY <1>1, <1>2, <2>2, ClearsStep
<1>3. ASSUME NEW p \in Scorers, Commit(p)
      PROVE  ScoresAgree' /\ \A q \in Scorers : Clears(scorer[q])'
  <2>1. ScoresAgree'
    <3>1. ASSUME NEW s \in Sites
          PROVE  /\ \A i \in LiveScores(s)' :
                      IsLatest(i, s)' => stage'[s] = predictions'[s][i].stage
                 /\ Cardinality(estimates'[s]) <= 1
      BY <1>1, <1>3, CommitAgrees
    <3> QED
      BY <3>1 DEF ScoresAgree
  <2>2. /\ Open(p) /\ scorer'[p].pc = "idle"
        /\ \A q \in Scorers \ {p} : scorer'[q] = scorer[q]
    BY <1>3 DEF Open, Commit, RollBack, Idle, TypeInv, TypeOK
  <2>3. \A q \in Scorers : scorer'[q].pc = "idle"
    BY <1>1, <2>2 DEF OneSession, Open
  <2>4. \A q \in Scorers : scorer'[q].done = {}
    BY <2>3 DEF TypeInv, Sound
  <2> QED
    BY <2>1, <2>3, <2>4 DEF Clears
<1> QED
  BY <1>2, <1>3

\* As long as recalculations do not overlap, a site is at the stage of its latest
\* live prediction and has at most one estimate of a type.
THEOREM SerialScores == Spec => []SerialScoresAgree
<1>1. Init => AgreeInv
  <2> SUFFICES ASSUME Init PROVE AgreeInv
    OBVIOUS
  <2>1. \A s \in Sites : LiveScores(s) = {} /\ Cardinality(estimates[s]) = 0
    BY FS_EmptySet DEF Init, LiveScores
  <2>2. \A p \in Scorers : Clears(scorer[p])
    BY DEF Init, Idle, Clears
  <2> QED
    BY <2>1, <2>2 DEF AgreeInv, ScoresAgree
<1>2. Spec => []SerialInv
  BY SerialInit, SerialStep, TypeInvariant, PTL DEF Spec
<1>3. Spec => []DeletedInv
  BY DeletedInit, DeletedStep, TypeInvariant, PTL DEF Spec
<1>4. AgreeInv => SerialScoresAgree
  BY DEF AgreeInv, ScoresAgree, SerialScoresAgree
<1> QED
  BY <1>1, <1>2, <1>3, <1>4, AgreeStep, TypeInvariant, PTL DEF Spec
=============================================================================
