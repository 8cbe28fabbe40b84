------------------------- MODULE ForeignScanProofs -------------------------
(***************************************************************************)
(* Proofs about ForeignScan for every table, every set of quals and every  *)
(* set of values.                                                          *)
(***************************************************************************)
EXTENDS ForeignScan, ClickHouseStream, TLAPS

-----------------------------------------------------------------------------
(* Types. *)

LEMMA AssignedTypes ==
  ASSUME ScanAssumption, NEW c \in [Quals -> Values],
         NEW v \in [Quals -> Values \cup {Unset}], NEW e \in [Quals -> Values]
  PROVE  /\ AssignedParam(v, c) \in [Quals -> Values \cup {Unset}]
         /\ AssignedExpr(v, c) \in [Quals -> Values \cup {Unset}]
         /\ AssignedEval(e, c) \in [Quals -> Values]
         /\ Fingerprint(v, e) \in [Quals -> Values \cup {Unset}]
BY DEF AssignedParam, AssignedExpr, AssignedEval, Fingerprint, ToCell, IsParam, Values

LEMMA RemoteTypes ==
  ASSUME NEW v, NEW isAgg, NEW S \in RemoteSets(isAgg, v)
  PROVE  S \subseteq Rows
BY DEF RemoteSets, Match

\* What CreateState leaves in the fields of the new state.
LEMMA CreateTypes ==
  ASSUME ScanAssumption, TypeOK, NEW c \in Bindings,
         NEW z \in [Quals -> {ZeroVal, NULL}],
         CreateState(c, SeenAtBegin(c, z))
  PROVE  /\ c \in [Quals -> Values]
         /\ value' \in [Quals -> Values \cup {Unset}]
         /\ evalValue' \in [Quals -> Values]
         /\ fp' \in [Quals -> Values \cup {Unset}]
         /\ recheck' \in BOOLEAN
         /\ ctxs' = ctxs + 1
         /\ state' = "set"
<1>1. c \in [Quals -> Values]
  BY DEF Bindings
<1>2. SeenAtBegin(c, z) \in [Quals -> Values]
  BY <1>1 DEF SeenAtBegin, Values, ScanAssumption
<1>3. [q \in Quals |-> NULL] \in [Quals -> Values]
  BY DEF Values
<1>4. Deserialised(c) \in [Quals -> Values \cup {Unset}]
  BY <1>1 DEF Deserialised
<1>5. AssignedEval([q \in Quals |-> NULL], SeenAtBegin(c, z)) \in [Quals -> Values]
  BY <1>2, <1>3, <1>4, AssignedTypes
<1>6. AssignedParam(Deserialised(c), SeenAtBegin(c, z)) \in [Quals -> Values \cup {Unset}]
  BY <1>2, <1>3, <1>4, AssignedTypes
<1>7. AssignedExpr(AssignedParam(Deserialised(c), SeenAtBegin(c, z)), c)
        \in [Quals -> Values \cup {Unset}]
  BY <1>1, <1>5, <1>6, AssignedTypes
<1>8. value' \in [Quals -> Values \cup {Unset}] /\ evalValue' \in [Quals -> Values]
  BY <1>5, <1>7 DEF CreateState
<1>9. fp' = Fingerprint(value', evalValue')
  BY DEF CreateState
<1>10. fp' \in [Quals -> Values \cup {Unset}]
  BY <1>1, <1>8, <1>9, AssignedTypes
<1> QED BY <1>1, <1>8, <1>10 DEF CreateState

\* The reachability of memory contexts makes the count of contexts a natural
\* number, so the two are proved together.
CoreInv == TypeOK /\ ContextsOwned

LEMMA DropTypes ==
  ASSUME ScanAssumption, CoreInv, state = "set", exec' = "idle", DropState, ExecutionOver
  PROVE  CoreInv'
<1>1. /\ kind' = kind /\ planner' = planner /\ plan' = plan /\ planAgg' = planAgg
      /\ cur' = cur /\ exec' = "idle" /\ got' = {} /\ done' = FALSE
  BY DEF ExecutionOver
<1>2. /\ state' = "null" /\ ctxs' = ctxs - 1 /\ mode' = "none"
      /\ remote' = {} /\ pending' = {} /\ recheck' = FALSE
  BY DEF DropState
<1>3. /\ value' \in [Quals -> Values \cup {Unset}]
      /\ evalValue' \in [Quals -> Values]
      /\ fp' \in [Quals -> Values \cup {Unset}]
  BY DEF DropState, Values
<1>4. ctxs' \in Nat /\ Orphans' >= 0
  BY <1>1, <1>2 DEF CoreInv, TypeOK, ContextsOwned, Orphans
<1> QED BY <1>1, <1>2, <1>3, <1>4 DEF CoreInv, TypeOK, ContextsOwned

LEMMA LoseTypes ==
  ASSUME ScanAssumption, CoreInv, state = "set", LoseState, ExecutionOver
  PROVE  CoreInv'
<1>1. /\ kind' = kind /\ planner' = planner /\ plan' = plan /\ planAgg' = planAgg
      /\ cur' = cur /\ exec' = "idle" /\ got' = {} /\ done' = FALSE
  BY DEF ExecutionOver
<1>2. /\ state' = "null" /\ ctxs' = ctxs /\ mode' = "none"
      /\ remote' = {} /\ pending' = {} /\ recheck' = FALSE
  BY DEF LoseState
<1>3. /\ value' \in [Quals -> Values \cup {Unset}]
      /\ evalValue' \in [Quals -> Values]
      /\ fp' \in [Quals -> Values \cup {Unset}]
  BY DEF LoseState, Values
<1>4. Orphans' >= 0
  BY <1>1, <1>2 DEF CoreInv, TypeOK, ContextsOwned, Orphans
<1> QED BY <1>1, <1>2, <1>3, <1>4 DEF CoreInv, TypeOK, ContextsOwned

\* Fetch keeps the rows of the pass among the rows of the table.
LEMMA FetchTypes ==
  ASSUME NEW P, P \subseteq Rows, got \subseteq Rows, done \in BOOLEAN, Fetch(P)
  PROVE  pending' \subseteq Rows /\ got' \subseteq Rows /\ done' \in BOOLEAN
BY DEF Fetch, Tuples, Surviving

LEMMA CoreInvStep == ScanAssumption /\ CoreInv /\ [Next]_vars => CoreInv'
<1> SUFFICES ASSUME ScanAssumption, CoreInv, [Next]_vars PROVE CoreInv'
  OBVIOUS
<1> USE DEF planVars, fdwVars, passVars
<1>1. CASE GetForeignRelSize
  <2>1. kind' \in [Quals -> Kinds] /\ cur' \in [Quals -> Values]
    BY <1>1 DEF GetForeignRelSize, Values
  <2>2. ctxs' \in Nat /\ Orphans' >= 0
    BY <1>1 DEF GetForeignRelSize, CoreInv, TypeOK, ContextsOwned, Orphans
  <2> QED BY <1>1, <2>1, <2>2 DEF GetForeignRelSize, CoreInv, TypeOK, ContextsOwned
<1>2. CASE GetForeignPathsError \/ PlannerGivesUp
  BY <1>2 DEF GetForeignPathsError, PlannerGivesUp, CoreInv, TypeOK, ContextsOwned, Orphans
<1>3. CASE GetForeignUpperPaths
  BY <1>3 DEF GetForeignUpperPaths, CoreInv, TypeOK, ContextsOwned, Orphans
<1>4. ASSUME NEW path \in {"base", "upper"}, GetForeignPlan(path) PROVE CoreInv'
  BY <1>4 DEF GetForeignPlan, PlanIsAgg, CoreInv, TypeOK, ContextsOwned, Orphans
<1>5. CASE DropPlan
  BY <1>5 DEF DropPlan, CoreInv, TypeOK, ContextsOwned, Orphans
<1>6. ASSUME NEW explainOnly \in BOOLEAN, BeginForeignScan(explainOnly) PROVE CoreInv'
  <2>1. PICK c \in Bindings, z \in [Quals -> {ZeroVal, NULL}] :
          cur' = c /\ CreateState(c, SeenAtBegin(c, z))
    BY <1>6 DEF BeginForeignScan
  <2>2. /\ cur' \in [Quals -> Values]
        /\ value' \in [Quals -> Values \cup {Unset}]
        /\ evalValue' \in [Quals -> Values]
        /\ fp' \in [Quals -> Values \cup {Unset}]
        /\ recheck' \in BOOLEAN
        /\ ctxs' = ctxs + 1 /\ state' = "set"
    BY <2>1, CreateTypes DEF CoreInv
  <2>3. /\ exec' \in {"explain", "run"}
        /\ mode' \in {"new", "scan", "agg"}
        /\ remote' \subseteq Rows /\ pending' \subseteq Rows
    <3>1. CASE explainOnly
      BY <1>6, <3>1 DEF BeginForeignScan
    <3>2. CASE ~explainOnly
      BY <1>6, <3>2, RemoteTypes DEF BeginForeignScan, BeginRemote, ScanMode
    <3> QED BY <3>1, <3>2
  <2>4. state = "null" \/ state = "set"
    BY DEF CoreInv, TypeOK
  <2> QED BY <1>6, <2>2, <2>3, <2>4 DEF BeginForeignScan, CoreInv, TypeOK, ContextsOwned, Orphans
<1>7. CASE InstanceCreationError
  BY <1>7 DEF InstanceCreationError, CoreInv, TypeOK, ContextsOwned, Orphans
<1>8. CASE IterateForeignScan
  <2>1. /\ value' \in [Quals -> Values \cup {Unset}]
        /\ evalValue' \in [Quals -> Values]
        /\ Fingerprint(value', evalValue') \in [Quals -> Values \cup {Unset}]
    BY <1>8, AssignedTypes DEF IterateForeignScan, CoreInv, TypeOK
  <2>2. fp' \in [Quals -> Values \cup {Unset}] /\ mode' \in {"none", "new", "scan", "agg"}
    BY <1>8, <2>1 DEF IterateForeignScan, Rechecked, CoreInv, TypeOK, ScanMode
  <2>3. \E P \in SUBSET Rows : Fetch(P) /\ remote' \subseteq Rows
    <3>1. CASE MustRestart(value', evalValue')
      BY <1>8, <3>1, RemoteTypes DEF IterateForeignScan
    <3>2. CASE ~MustRestart(value', evalValue')
      BY <1>8, <3>2 DEF IterateForeignScan, CoreInv, TypeOK
    <3> QED BY <3>1, <3>2
  <2>4. pending' \subseteq Rows /\ got' \subseteq Rows /\ done' \in BOOLEAN
    BY <2>3, FetchTypes DEF CoreInv, TypeOK
  <2> QED BY <1>8, <2>1, <2>2, <2>3, <2>4 DEF IterateForeignScan, Rechecked, CoreInv, TypeOK, ContextsOwned, Orphans
<1>9. CASE IterateError \/ ReScanError \/ EndForeignScan
  BY <1>9, DropTypes DEF IterateError, ReScanError, EndForeignScan, ExecutionOver
<1>10. CASE IterateColumnMismatch \/ AbortElsewhere
  BY <1>10, LoseTypes DEF IterateColumnMismatch, AbortElsewhere
<1>11. CASE ReScanForeignScan
  <2>1. cur' \in [Quals -> Values]
    BY <1>11 DEF ReScanForeignScan, Rebindings
  <2>2. /\ value' \in [Quals -> Values \cup {Unset}]
        /\ evalValue' \in [Quals -> Values]
    BY <1>11, <2>1, AssignedTypes DEF ReScanForeignScan, CoreInv, TypeOK
  <2>3. fp' \in [Quals -> Values \cup {Unset}]
    BY <1>11, <2>1, <2>2, AssignedTypes DEF ReScanForeignScan
  <2>4. /\ mode' \in {"none", "new", "scan", "agg"}
        /\ remote' \subseteq Rows /\ pending' \subseteq Rows
    <3>1. CASE fp' # fp
      BY <1>11, <3>1, RemoteTypes DEF ReScanForeignScan, BeginRemote, ScanMode
    <3>2. CASE fp' = fp
      BY <1>11, <3>2 DEF ReScanForeignScan, CoreInv, TypeOK
    <3> QED BY <3>1, <3>2
  <2> QED BY <1>11, <2>1, <2>2, <2>3, <2>4 DEF ReScanForeignScan, CoreInv, TypeOK, ContextsOwned, Orphans
<1>12. CASE UNCHANGED vars
  BY <1>12 DEF vars, CoreInv, TypeOK, ContextsOwned, Orphans
<1> QED BY <1>1, <1>2, <1>3, <1>4, <1>5, <1>6, <1>7, <1>8, <1>9, <1>10, <1>11, <1>12
        DEF Next, PlanStep, ExecStep

LEMMA CoreInvInit == ScanAssumption /\ Init => CoreInv
<1> SUFFICES ASSUME ScanAssumption, Init PROVE CoreInv
  OBVIOUS
<1>1. /\ cur \in [Quals -> Values]
      /\ value \in [Quals -> Values \cup {Unset}]
      /\ evalValue \in [Quals -> Values]
      /\ fp \in [Quals -> Values \cup {Unset}]
      /\ kind \in [Quals -> Kinds]
  BY DEF ScanAssumption, Init, Values, Kinds
<1>2. /\ Orphans = 0 /\ ctxs \in Nat
  BY DEF Init, Orphans
<1>3. planAgg \in BOOLEAN /\ recheck \in BOOLEAN /\ done \in BOOLEAN
  BY DEF Init
<1> QED BY <1>1, <1>2, <1>3 DEF Init, CoreInv, TypeOK, ContextsOwned

\* Every field keeps its type over every behaviour.
THEOREM TypeCorrect == Spec => []TypeOK
<1>1. Init => CoreInv
  BY ScanAssumption, CoreInvInit
<1>2. CoreInv /\ [Next]_vars => CoreInv'
  BY ScanAssumption, CoreInvStep
<1>3. CoreInv => TypeOK
  BY DEF CoreInv
<1> QED BY <1>1, <1>2, <1>3, PTL DEF Spec

\* No reachable FdwState is without its memory context, and none is deleted
\* twice.
THEOREM ContextsAreOwned == Spec => []ContextsOwned
<1>1. Init => CoreInv
  BY ScanAssumption, CoreInvInit
<1>2. CoreInv /\ [Next]_vars => CoreInv'
  BY ScanAssumption, CoreInvStep
<1>3. CoreInv => ContextsOwned
  BY DEF CoreInv
<1> QED BY <1>1, <1>2, <1>3, PTL DEF Spec

-----------------------------------------------------------------------------
(* The answer of a pass.                                                    *)
(*                                                                         *)
(* AnswerCorrect is not inductive: why nothing is missing at the end of a   *)
(* pass depends on what the remote scan was asked for, hence on how the     *)
(* values of the quals, their fingerprint and the parameters move together. *)

\* A plan with aggregates has constants only, and belongs to the upper path.
PlanInv ==
  /\ planner # "none" => exec = "idle"
  /\ planner = "agg" \/ planAgg => \A q \in Quals : kind[q] = "const"
  /\ planAgg <=> plan = "upper"
  /\ \A q \in Quals : kind[q] = "const" => cur[q] # NULL

\* The values of the quals follow the parameters, but for NULL and for what an
\* initplan had not computed when the scan began.
ValueInv ==
  state = "set" =>
    /\ fp = Fingerprint(value, evalValue)
    /\ \A q \in Quals : kind[q] = "const" => value[q] = cur[q]
    /\ \A q \in Quals : IsParam(q) /\ evalValue[q] # NULL => value[q] = evalValue[q]
    /\ \A q \in Quals : IsParam(q) /\ ~recheck => evalValue[q] = cur[q]
    /\ \A q \in Quals : kind[q] = "expr" /\ cur[q] # NULL => value[q] = cur[q]

\* The remote scan covers what the quals match, and the query has what the
\* scan returned of it.
PassInv ==
  /\ state = "set" <=> exec # "idle"
  /\ exec # "run" => got = {} /\ ~done
  /\ exec = "run" =>
       /\ mode = ScanMode
       /\ pending \subseteq remote
       /\ Match(value) \subseteq remote
       /\ planAgg => remote = Match(value)
       /\ got = IF planAgg THEN remote \ pending ELSE (remote \ pending) \cap Answer(cur)
       /\ done => pending = {}
       /\ recheck => got = {} /\ ~done

ScanInv == CoreInv /\ PlanInv /\ ValueInv /\ PassInv

-----------------------------------------------------------------------------
(* Values and fingerprints. The wrapper in question rewinds, and every       *)
(* parameter has a type a cell can hold.                                    *)

\* A parameter that is not NULL has its value in the qual.
Synced(v, e) == \A q \in Quals : IsParam(q) /\ e[q] # NULL => v[q] = e[q]

\* The pointwise meaning of the three assignments when no qual is opaque.
LEMMA Assignments ==
  ASSUME Opaque = {}, NEW c \in [Quals -> Values],
         NEW v \in [Quals -> Values \cup {Unset}], NEW e \in [Quals -> Values],
         NEW q \in Quals
  PROVE  /\ AssignedParam(v, c)[q] = IF IsParam(q) /\ c[q] # NULL THEN c[q] ELSE v[q]
         /\ AssignedExpr(v, c)[q] = IF kind[q] = "expr" /\ c[q] # NULL THEN c[q] ELSE v[q]
         /\ AssignedEval(e, c)[q] = IF IsParam(q) THEN c[q] ELSE e[q]
         /\ Fingerprint(v, e)[q] = IF kind[q] = "expr" THEN v[q]
                                   ELSE IF IsParam(q) THEN e[q] ELSE NULL
BY DEF AssignedParam, AssignedExpr, AssignedEval, Fingerprint, ToCell

\* A restart is skipped only when it would ask for the same values: what the
\* fingerprint does not show of a qual cannot have changed.
LEMMA SameFingerprintIterate ==
  ASSUME Opaque = {}, NEW c \in [Quals -> Values],
         NEW v \in [Quals -> Values \cup {Unset}], NEW e \in [Quals -> Values],
         Synced(v, e), ScanAssumption,
         Fingerprint(AssignedParam(v, c), AssignedEval(e, c)) = Fingerprint(v, e)
  PROVE  AssignedParam(v, c) = v
<1> DEFINE w == AssignedParam(v, c)
           d == AssignedEval(e, c)
<1>1. w \in [Quals -> Values \cup {Unset}] /\ d \in [Quals -> Values]
  BY AssignedTypes
<1>2. ASSUME NEW q \in Quals PROVE w[q] = v[q]
  <2>1. /\ w[q] = IF IsParam(q) /\ c[q] # NULL THEN c[q] ELSE v[q]
        /\ d[q] = IF IsParam(q) THEN c[q] ELSE e[q]
        /\ Fingerprint(v, e)[q] = IF kind[q] = "expr" THEN v[q]
                                  ELSE IF IsParam(q) THEN e[q] ELSE NULL
    BY Assignments
  <2>2. Fingerprint(w, d)[q] = IF kind[q] = "expr" THEN w[q]
                               ELSE IF IsParam(q) THEN d[q] ELSE NULL
    BY <1>1, Assignments
  <2>3. IsParam(q) => kind[q] # "expr"
    BY DEF IsParam
  <2>4. IsParam(q) => c[q] = e[q]
    BY <2>1, <2>2, <2>3
  <2> QED BY <2>1, <2>4 DEF Synced
<1> QED BY <1>1, <1>2

LEMMA SameFingerprintReScan ==
  ASSUME Opaque = {}, NEW c \in [Quals -> Values],
         NEW v \in [Quals -> Values \cup {Unset}], NEW e \in [Quals -> Values],
         Synced(v, e), ScanAssumption,
         Fingerprint(AssignedExpr(AssignedParam(v, c), c), AssignedEval(e, c)) = Fingerprint(v, e)
  PROVE  AssignedExpr(AssignedParam(v, c), c) = v
<1> DEFINE u == AssignedParam(v, c)
           w == AssignedExpr(u, c)
           d == AssignedEval(e, c)
<1>0. u \in [Quals -> Values \cup {Unset}] /\ d \in [Quals -> Values]
  BY AssignedTypes
<1>1. w \in [Quals -> Values \cup {Unset}]
  BY <1>0, AssignedTypes
<1>2. ASSUME NEW q \in Quals PROVE w[q] = v[q]
  <2>1. /\ u[q] = IF IsParam(q) /\ c[q] # NULL THEN c[q] ELSE v[q]
        /\ d[q] = IF IsParam(q) THEN c[q] ELSE e[q]
        /\ Fingerprint(v, e)[q] = IF kind[q] = "expr" THEN v[q]
                                  ELSE IF IsParam(q) THEN e[q] ELSE NULL
    BY Assignments
  <2>2. /\ Fingerprint(w, d)[q] = IF kind[q] = "expr" THEN w[q]
                                  ELSE IF IsParam(q) THEN d[q] ELSE NULL
        /\ w[q] = IF kind[q] = "expr" /\ c[q] # NULL THEN c[q] ELSE u[q]
    BY <1>0, <1>1, Assignments
  <2>3. IsParam(q) => kind[q] # "expr"
    BY DEF IsParam
  <2>4. IsParam(q) => c[q] = e[q]
    BY <2>1, <2>2, <2>3
  <2>5. kind[q] = "expr" => w[q] = v[q]
    BY <2>1, <2>2
  <2> QED BY <2>1, <2>2, <2>4, <2>5 DEF Synced
<1> QED BY <1>1, <1>2

\* An answer is within what the quals match, once the parameters that changed
\* have been assigned.
LEMMA AnswerMatches ==
  ASSUME NEW c, NEW v,
         \A q \in Quals : kind[q] # "local" /\ c[q] # NULL => v[q] = c[q]
  PROVE  Answer(c) \subseteq Match(v)
BY DEF Answer, Match

LEMMA AnswerIsMatch ==
  ASSUME NEW c, NEW v,
         \A q \in Quals : kind[q] = "const" /\ c[q] # NULL /\ v[q] = c[q]
  PROVE  Answer(c) = Match(v)
BY DEF Answer, Match

LEMMA RemoteCovers ==
  ASSUME NEW v, NEW isAgg \in BOOLEAN, NEW S \in RemoteSets(isAgg, v)
  PROVE  Match(v) \subseteq S /\ (isAgg => S = Match(v))
BY DEF RemoteSets

\* Fetch moves rows from what is pending to what the query has.
LEMMA FetchPass ==
  ASSUME NEW All, NEW P, P \subseteq All,
         planAgg \in BOOLEAN, mode = ScanMode, Fetch(P),
         got = IF planAgg THEN All \ P ELSE (All \ P) \cap Answer(cur),
         done => P = {}
  PROVE  /\ pending' \subseteq All
         /\ got' = IF planAgg THEN All \ pending' ELSE (All \ pending') \cap Answer(cur)
         /\ done' => pending' = {}
<1>1. mode = "agg" <=> planAgg
  BY DEF ScanMode
<1>2. CASE P = {}
  BY <1>2 DEF Fetch
<1>3. CASE P # {}
  <2>1. PICK T \in Tuples(P) :
          pending' = P \ T /\ got' = got \cup Surviving(T) /\ UNCHANGED done
    BY <1>3 DEF Fetch
  <2>2. T \subseteq P
    BY DEF Tuples
  <2>3. Surviving(T) = IF planAgg THEN T ELSE T \cap Answer(cur)
    BY <1>1 DEF Surviving
  <2>4. ~done'
    BY <1>3, <2>1
  <2> QED BY <2>1, <2>2, <2>3, <2>4
<1> QED BY <1>2, <1>3

LEMMA CreateValues ==
  ASSUME ScanAssumption, Opaque = {}, TypeOK, NEW c \in [Quals -> Values],
         NEW z \in [Quals -> {ZeroVal, NULL}],
         CreateState(c, SeenAtBegin(c, z)), cur' = c, UNCHANGED kind
  PROVE  ValueInv'
<1> DEFINE seen == SeenAtBegin(c, z)
           d == Deserialised(c)
           u == AssignedParam(d, seen)
           n == [q \in Quals |-> NULL]
<1>1. seen \in [Quals -> Values] /\ d \in [Quals -> Values \cup {Unset}] /\ n \in [Quals -> Values]
  BY DEF SeenAtBegin, Deserialised, Values, ScanAssumption
<1>2. u \in [Quals -> Values \cup {Unset}]
  BY <1>1, AssignedTypes
<1>3. /\ value' = AssignedExpr(u, c) /\ evalValue' = AssignedEval(n, seen)
      /\ recheck' = (\E q \in Quals : kind[q] = "exec")
  BY DEF CreateState
<1>4. fp' = Fingerprint(value, evalValue)'
  <2>1. fp' = Fingerprint(value', evalValue')
    BY DEF CreateState
  <2> QED BY <2>1 DEF Fingerprint, IsParam
<1>5. ASSUME NEW q \in Quals
      PROVE  /\ kind'[q] = "const" => value'[q] = cur'[q]
             /\ IsParam(q)' /\ evalValue'[q] # NULL => value'[q] = evalValue'[q]
             /\ IsParam(q)' /\ ~recheck' => evalValue'[q] = cur'[q]
             /\ kind'[q] = "expr" /\ cur'[q] # NULL => value'[q] = cur'[q]
  <2>1. /\ value'[q] = IF kind[q] = "expr" /\ c[q] # NULL THEN c[q] ELSE u[q]
        /\ u[q] = IF IsParam(q) /\ seen[q] # NULL THEN seen[q] ELSE d[q]
        /\ evalValue'[q] = IF IsParam(q) THEN seen[q] ELSE n[q]
    BY <1>1, <1>2, <1>3, Assignments
  <2>2. /\ d[q] = IF kind[q] = "const" THEN c[q] ELSE Unset
        /\ seen[q] = IF kind[q] = "exec" THEN z[q] ELSE c[q]
    BY DEF Deserialised, SeenAtBegin
  <2>3. IsParam(q)' = IsParam(q) /\ (IsParam(q) => kind[q] \in {"extern", "exec"})
    BY DEF IsParam
  <2>4. kind'[q] = kind[q] /\ cur'[q] = c[q]
    OBVIOUS
  <2>5. IsParam(q) /\ ~recheck' => kind[q] # "exec"
    BY <1>3
  <2> QED BY <2>1, <2>2, <2>3, <2>4, <2>5
<1> QED BY <1>4, <1>5 DEF ValueInv

\* The wrapper overrides re_scan and every parameter has a cell.
Faithful == ReScanRewinds /\ Opaque = {}

\* What the assignments of one iteration leave in the fields.
LEMMA IterateValues ==
  ASSUME ScanAssumption, Faithful, TypeOK, ValueInv, state = "set",
         IterateForeignScan
  PROVE  /\ ValueInv'
         /\ ~MustRestart(value', evalValue') => value' = value
<1>1. /\ value' = AssignedParam(value, cur) /\ evalValue' = AssignedEval(evalValue, cur)
      /\ recheck' = FALSE /\ cur' = cur /\ kind' = kind /\ state' = state
  BY DEF IterateForeignScan, Rechecked, planVars
<1>2. /\ cur \in [Quals -> Values] /\ evalValue \in [Quals -> Values]
      /\ value \in [Quals -> Values \cup {Unset}] /\ recheck \in BOOLEAN
  BY DEF TypeOK
<1>3. Synced(value, evalValue)
  BY DEF ValueInv, Synced
<1>4. ASSUME ~MustRestart(value', evalValue') PROVE value' = value /\ fp' = fp
  <2>1. fp' = fp
    BY <1>4 DEF IterateForeignScan, Rechecked
  <2>2. CASE recheck
    <3>1. Fingerprint(value', evalValue') = fp
      BY <1>4, <2>2 DEF MustRestart
    <3>2. fp = Fingerprint(value, evalValue)
      BY DEF ValueInv
    <3> QED BY <1>1, <1>2, <1>3, <2>1, <3>1, <3>2, SameFingerprintIterate DEF Faithful
  <2>3. CASE ~recheck
    <3>1. ASSUME NEW q \in Quals PROVE AssignedParam(value, cur)[q] = value[q]
      <4>1. IsParam(q) => evalValue[q] = cur[q]
        BY <2>3 DEF ValueInv
      <4>2. AssignedParam(value, cur)[q] = IF IsParam(q) /\ cur[q] # NULL THEN cur[q] ELSE value[q]
        BY <1>2, Assignments DEF Faithful
      <4> QED BY <1>3, <4>1, <4>2 DEF Synced
    <3>2. AssignedParam(value, cur) \in [Quals -> Values \cup {Unset}]
      BY <1>2, AssignedTypes
    <3> QED BY <1>1, <1>2, <2>1, <3>1, <3>2
  <2> QED BY <1>2, <2>2, <2>3
<1>5. ASSUME NEW q \in Quals
      PROVE  /\ value'[q] = IF IsParam(q) /\ cur[q] # NULL THEN cur[q] ELSE value[q]
             /\ evalValue'[q] = IF IsParam(q) THEN cur[q] ELSE evalValue[q]
  BY <1>1, <1>2, Assignments DEF Faithful
<1>6. fp' = Fingerprint(value', evalValue')
  <2>1. CASE MustRestart(value', evalValue')
    BY <2>1 DEF IterateForeignScan, Rechecked
  <2>2. CASE ~MustRestart(value', evalValue')
    <3>1. fp' = fp /\ value' = value
      BY <1>4, <2>2
    <3>2. CASE recheck
      BY <2>2, <3>1, <3>2 DEF MustRestart
    <3>3. CASE ~recheck
      <4>1. ASSUME NEW q \in Quals, IsParam(q) PROVE evalValue'[q] = evalValue[q]
        BY <1>5, <3>3, <4>1 DEF ValueInv
      <4>2. Fingerprint(value', evalValue') = Fingerprint(value, evalValue)
        BY <3>1, <4>1 DEF Fingerprint
      <4> QED BY <3>1, <4>2 DEF ValueInv
    <3> QED BY <1>2, <3>2, <3>3
  <2> QED BY <2>1, <2>2
<1>7. fp' = Fingerprint(value, evalValue)'
  BY <1>1, <1>6 DEF Fingerprint, IsParam
<1>8. ASSUME NEW q \in Quals
      PROVE  /\ kind'[q] = "const" => value'[q] = cur'[q]
             /\ IsParam(q)' /\ evalValue'[q] # NULL => value'[q] = evalValue'[q]
             /\ IsParam(q)' /\ ~recheck' => evalValue'[q] = cur'[q]
             /\ kind'[q] = "expr" /\ cur'[q] # NULL => value'[q] = cur'[q]
  <2>1. IsParam(q)' = IsParam(q) /\ (IsParam(q) => kind[q] \in {"extern", "exec"})
    BY <1>1 DEF IsParam
  <2>2. /\ kind[q] = "const" => value[q] = cur[q]
        /\ kind[q] = "expr" /\ cur[q] # NULL => value[q] = cur[q]
    BY DEF ValueInv
  <2> QED BY <1>1, <1>5, <2>1, <2>2
<1> QED BY <1>4, <1>7, <1>8 DEF ValueInv

\* And those of a rescan.
LEMMA ReScanValues ==
  ASSUME ScanAssumption, Faithful, TypeOK, ValueInv, state = "set",
         ReScanForeignScan
  PROVE  /\ ValueInv'
         /\ fp' = fp => value' = value
<1>1. /\ value' = AssignedExpr(AssignedParam(value, cur'), cur')
      /\ evalValue' = AssignedEval(evalValue, cur')
      /\ fp' = Fingerprint(value', evalValue')
      /\ recheck' = recheck /\ kind' = kind /\ state' = state
      /\ cur' \in Rebindings
  BY DEF ReScanForeignScan, planVars
<1>2. /\ cur' \in [Quals -> Values] /\ evalValue \in [Quals -> Values]
      /\ value \in [Quals -> Values \cup {Unset}]
      /\ AssignedParam(value, cur') \in [Quals -> Values \cup {Unset}]
  BY <1>1, AssignedTypes DEF TypeOK, Rebindings
<1>3. Synced(value, evalValue) /\ fp = Fingerprint(value, evalValue)
  BY DEF ValueInv, Synced
<1>4. fp' = fp => value' = value
  BY <1>1, <1>2, <1>3, SameFingerprintReScan DEF Faithful
<1>5. fp' = Fingerprint(value, evalValue)'
  BY <1>1 DEF Fingerprint, IsParam
<1>6. ASSUME NEW q \in Quals
      PROVE  /\ kind'[q] = "const" => value'[q] = cur'[q]
             /\ IsParam(q)' /\ evalValue'[q] # NULL => value'[q] = evalValue'[q]
             /\ IsParam(q)' /\ ~recheck' => evalValue'[q] = cur'[q]
             /\ kind'[q] = "expr" /\ cur'[q] # NULL => value'[q] = cur'[q]
  <2>1. /\ AssignedParam(value, cur')[q]
              = IF IsParam(q) /\ cur'[q] # NULL THEN cur'[q] ELSE value[q]
        /\ value'[q] = IF kind[q] = "expr" /\ cur'[q] # NULL THEN cur'[q]
                       ELSE AssignedParam(value, cur')[q]
        /\ evalValue'[q] = IF IsParam(q) THEN cur'[q] ELSE evalValue[q]
    BY <1>1, <1>2, Assignments DEF Faithful
  <2>2. IsParam(q)' = IsParam(q) /\ (IsParam(q) => kind[q] \in {"extern", "exec"})
    BY <1>1 DEF IsParam
  <2>3. kind[q] = "const" => value[q] = cur[q] /\ cur'[q] = cur[q]
    BY <1>1 DEF ValueInv, Rebindings
  <2> QED BY <1>1, <2>1, <2>2, <2>3
<1> QED BY <1>4, <1>5, <1>6 DEF ValueInv

\* An execution that is over leaves nothing behind.
LEMMA OverInv ==
  ASSUME ScanInv, state' = "null", ExecutionOver
  PROVE  PlanInv' /\ ValueInv' /\ PassInv'
<1>1. /\ kind' = kind /\ planner' = planner /\ plan' = plan /\ planAgg' = planAgg
      /\ cur' = cur /\ exec' = "idle" /\ got' = {} /\ done' = FALSE
  BY DEF ExecutionOver
<1>2. PlanInv'
  BY <1>1 DEF ScanInv, PlanInv
<1> QED BY <1>1, <1>2 DEF ValueInv, PassInv

\* While no execution is under way the invariant is about the plan alone.
LEMMA IdleInv ==
  ASSUME state' = "null", exec' = "idle", got' = {}, done' = FALSE, PlanInv'
  PROVE  PlanInv' /\ ValueInv' /\ PassInv'
BY DEF ValueInv, PassInv

LEMMA ScanInvStep == ScanAssumption /\ Faithful /\ ScanInv /\ [Next]_vars => ScanInv'
<1> SUFFICES ASSUME ScanAssumption, Faithful, ScanInv, [Next]_vars
             PROVE  PlanInv' /\ ValueInv' /\ PassInv'
  BY CoreInvStep DEF ScanInv
<1> USE DEF planVars, fdwVars, passVars
<1>a. /\ CoreInv /\ TypeOK /\ PlanInv /\ ValueInv /\ PassInv
      /\ (exec = "idle" => state = "null" /\ got = {} /\ done = FALSE)
  BY DEF ScanInv, CoreInv, TypeOK, PassInv
<1>1. CASE GetForeignRelSize
  <2>1. PlanInv'
    BY <1>1, <1>a DEF GetForeignRelSize, PlanInv, ScanAssumption, Values
  <2> QED BY <1>1, <1>a, <2>1, IdleInv DEF GetForeignRelSize
<1>2. CASE GetForeignPathsError \/ PlannerGivesUp \/ GetForeignUpperPaths \/ DropPlan
           \/ \E path \in {"base", "upper"} : GetForeignPlan(path)
  <2>1. /\ exec' = exec /\ state' = state /\ got' = got /\ done' = done
        /\ exec = "idle" /\ kind' = kind /\ cur' = cur
    BY <1>2, <1>a DEF GetForeignPathsError, PlannerGivesUp, GetForeignUpperPaths, DropPlan,
                      GetForeignPlan, PlanInv
  <2>2. CASE GetForeignPathsError \/ PlannerGivesUp
    <3>1. planner' = "none" /\ plan' = plan /\ planAgg' = planAgg
      BY <2>2 DEF GetForeignPathsError, PlannerGivesUp
    <3>2. PlanInv'
      BY <1>a, <2>1, <3>1 DEF PlanInv
    <3> QED BY <1>a, <2>1, <3>2, IdleInv
  <2>3. CASE GetForeignUpperPaths
    <3>1. \A q \in Quals : kind[q] = "const"
      BY <1>a, <2>3 DEF GetForeignUpperPaths, IsParam, TypeOK, Kinds
    <3> QED BY <1>a, <2>1, <2>3, <3>1, IdleInv DEF GetForeignUpperPaths, PlanInv
  <2>4. CASE DropPlan
    BY <1>a, <2>1, <2>4, IdleInv DEF DropPlan, PlanInv
  <2>5. ASSUME NEW path \in {"base", "upper"}, GetForeignPlan(path)
        PROVE  PlanInv' /\ ValueInv' /\ PassInv'
    BY <1>a, <2>1, <2>5, IdleInv DEF GetForeignPlan, PlanIsAgg, PlanInv
  <2> QED BY <1>2, <2>2, <2>3, <2>4, <2>5
<1>3. ASSUME NEW explainOnly \in BOOLEAN, BeginForeignScan(explainOnly)
      PROVE  PlanInv' /\ ValueInv' /\ PassInv'
  <2>1. PICK c \in Bindings, z \in [Quals -> {ZeroVal, NULL}] :
          cur' = c /\ CreateState(c, SeenAtBegin(c, z))
    BY <1>3 DEF BeginForeignScan
  <2>2. /\ kind' = kind /\ planner' = planner /\ plan' = plan /\ planAgg' = planAgg
        /\ got' = got /\ done' = done /\ exec = "idle" /\ planner = "none"
        /\ state' = "set" /\ c \in [Quals -> Values]
    BY <1>3, <2>1 DEF BeginForeignScan, CreateState, Bindings
  <2>3. PlanInv'
    BY <1>a, <2>1, <2>2 DEF PlanInv, Bindings
  <2>4. ValueInv'
    BY <1>a, <2>1, <2>2, CreateValues DEF Faithful
  <2>5. CASE explainOnly
    <3>1. exec' = "explain"
      BY <1>3, <2>5 DEF BeginForeignScan
    <3> QED BY <1>a, <2>2, <2>3, <2>4, <3>1 DEF PassInv
  <2>6. CASE ~explainOnly
    <3>1. /\ exec' = "run" /\ mode' = ScanMode /\ pending' = remote'
          /\ remote' \in RemoteSets(planAgg, value')
      BY <1>3, <2>6 DEF BeginForeignScan, BeginRemote
    <3>2. Match(value') \subseteq remote' /\ (planAgg => remote' = Match(value'))
      BY <1>a, <3>1, RemoteCovers DEF TypeOK
    <3>3. ScanMode' = ScanMode /\ Match(value)' = Match(value')
      BY <2>2 DEF ScanMode, Match
    <3> QED BY <1>a, <2>2, <2>3, <2>4, <3>1, <3>2, <3>3 DEF PassInv
  <2> QED BY <2>5, <2>6
<1>4. CASE InstanceCreationError
  <2>1. PlanInv'
    BY <1>4, <1>a DEF InstanceCreationError, PlanInv
  <2> QED BY <1>4, <1>a, <2>1, IdleInv DEF InstanceCreationError
<1>5. CASE IterateForeignScan
  <2>1. /\ kind' = kind /\ planner' = planner /\ plan' = plan /\ planAgg' = planAgg
        /\ cur' = cur /\ exec = "run" /\ exec' = "run" /\ state' = "set"
        /\ recheck' = FALSE
    BY <1>5 DEF IterateForeignScan, Rechecked
  <2>2. PlanInv'
    BY <1>a, <2>1 DEF PlanInv
  <2>3. ValueInv' /\ (~MustRestart(value', evalValue') => value' = value)
    BY <1>5, <1>a, IterateValues DEF IterateForeignScan
  <2>4. mode = ScanMode /\ mode' = ScanMode
    BY <1>5, <1>a, <2>1 DEF IterateForeignScan, PassInv
  <2>5. \E P \in SUBSET remote' :
          /\ Fetch(P)
          /\ got = IF planAgg THEN remote' \ P ELSE (remote' \ P) \cap Answer(cur)
          /\ done => P = {}
          /\ Match(value') \subseteq remote' /\ (planAgg => remote' = Match(value'))
    <3>1. CASE MustRestart(value', evalValue')
      <4>1. recheck /\ remote' \in RemoteSets(planAgg, value') /\ Fetch(remote')
        BY <1>5, <3>1 DEF IterateForeignScan, MustRestart
      <4>2. got = {} /\ ~done
        BY <1>a, <2>1, <4>1 DEF PassInv
      <4>3. Match(value') \subseteq remote' /\ (planAgg => remote' = Match(value'))
        BY <1>a, <4>1, RemoteCovers DEF TypeOK
      <4> QED BY <4>1, <4>2, <4>3
    <3>2. CASE ~MustRestart(value', evalValue')
      <4>1. remote' = remote /\ Fetch(pending) /\ value' = value
        BY <1>5, <2>3, <3>2 DEF IterateForeignScan
      <4> QED BY <1>a, <2>1, <4>1 DEF PassInv
    <3> QED BY <3>1, <3>2
  <2>6. /\ pending' \subseteq remote'
        /\ got' = IF planAgg THEN remote' \ pending' ELSE (remote' \ pending') \cap Answer(cur)
        /\ done' => pending' = {}
    BY <1>a, <2>4, <2>5, FetchPass DEF TypeOK
  <2>7. ScanMode' = ScanMode /\ Match(value)' = Match(value') /\ Answer(cur)' = Answer(cur)
    BY <2>1 DEF ScanMode, Match, Answer
  <2> QED BY <2>1, <2>2, <2>3, <2>4, <2>5, <2>6, <2>7 DEF PassInv
<1>6. CASE IterateError \/ ReScanError \/ EndForeignScan
  BY <1>6, OverInv DEF IterateError, ReScanError, EndForeignScan, DropState
<1>7. CASE IterateColumnMismatch \/ AbortElsewhere
  BY <1>7, OverInv DEF IterateColumnMismatch, AbortElsewhere, LoseState
<1>8. CASE ReScanForeignScan
  <2>1. /\ kind' = kind /\ planner' = planner /\ plan' = plan /\ planAgg' = planAgg
        /\ exec = "run" /\ exec' = "run" /\ state = "set" /\ state' = "set"
        /\ got' = {} /\ done' = FALSE /\ cur' \in Rebindings
    BY <1>8 DEF ReScanForeignScan
  <2>2. PlanInv'
    BY <1>a, <2>1 DEF PlanInv, Rebindings
  <2>3. ValueInv' /\ (fp' = fp => value' = value)
    BY <1>8, <1>a, <2>1, ReScanValues
  <2>4. /\ mode' = ScanMode /\ pending' = remote'
        /\ Match(value') \subseteq remote' /\ (planAgg => remote' = Match(value'))
    <3>1. CASE fp' # fp
      <4>1. BeginRemote(value')
        BY <1>8, <3>1 DEF ReScanForeignScan
      <4> QED BY <1>a, <4>1, RemoteCovers DEF BeginRemote, TypeOK
    <3>2. CASE fp' = fp
      <4>1. mode' = mode /\ remote' = remote /\ pending' = remote /\ value' = value
        BY <1>8, <2>3, <3>2 DEF ReScanForeignScan, Faithful
      <4> QED BY <1>a, <2>1, <4>1 DEF PassInv
    <3> QED BY <3>1, <3>2
  <2>5. ScanMode' = ScanMode /\ Match(value)' = Match(value')
    BY <2>1 DEF ScanMode, Match
  <2> QED BY <2>1, <2>2, <2>3, <2>4, <2>5 DEF PassInv
<1>9. CASE UNCHANGED vars
  BY <1>9, <1>a DEF vars, PlanInv, ValueInv, PassInv, ScanMode, Match, Answer, IsParam, Fingerprint
<1> QED BY <1>1, <1>2, <1>3, <1>4, <1>5, <1>6, <1>7, <1>8, <1>9 DEF Next, PlanStep, ExecStep

LEMMA ScanInvInit == ScanAssumption /\ Init => ScanInv
<1> SUFFICES ASSUME ScanAssumption, Init PROVE ScanInv
  OBVIOUS
<1>1. PlanInv
  BY DEF Init, PlanInv, ScanAssumption
<1> QED BY <1>1, CoreInvInit DEF Init, ScanInv, ValueInv, PassInv

\* The invariant is enough: at the end of a pass the query has all of what the
\* remote scan covers and the clause selects, and the scan covers the answer.
LEMMA AnswerFromInv == ScanAssumption /\ ScanInv => AnswerCorrect
<1> SUFFICES ASSUME ScanAssumption, ScanInv PROVE AnswerCorrect
  OBVIOUS
<1>a. /\ TypeOK /\ PlanInv /\ ValueInv /\ PassInv
      /\ (exec = "run" => state = "set")
  BY DEF ScanInv, CoreInv, PassInv
<1>1. CASE exec # "run"
  BY <1>a, <1>1 DEF PassInv, AnswerCorrect
<1>2. CASE exec = "run" /\ planAgg
  <2>1. \A q \in Quals : kind[q] = "const" /\ cur[q] # NULL /\ value[q] = cur[q]
    BY <1>a, <1>2 DEF PlanInv, ValueInv
  <2>2. Answer(cur) = Match(value)
    BY <2>1, AnswerIsMatch
  <2>3. got = remote \ pending /\ remote = Match(value) /\ (done => pending = {})
    BY <1>a, <1>2 DEF PassInv
  <2> QED BY <2>2, <2>3 DEF AnswerCorrect
<1>3. CASE exec = "run" /\ ~planAgg
  <2>1. /\ got = (remote \ pending) \cap Answer(cur) /\ (done => pending = {})
        /\ Match(value) \subseteq remote
        /\ (done => ~recheck)
    BY <1>a, <1>3 DEF PassInv, TypeOK
  <2>2. ASSUME ~recheck PROVE Answer(cur) \subseteq Match(value)
    <3>1. ASSUME NEW q \in Quals, kind[q] # "local", cur[q] # NULL PROVE value[q] = cur[q]
      <4>1. kind[q] \in {"const", "extern", "expr", "exec", "local"}
        BY <1>a DEF TypeOK, Kinds
      <4>2. IsParam(q) <=> kind[q] \in {"extern", "exec"}
        BY DEF IsParam
      <4> QED BY <1>a, <1>3, <2>2, <3>1, <4>1, <4>2 DEF ValueInv
    <3> QED BY <3>1, AnswerMatches
  <2> QED BY <2>1, <2>2 DEF AnswerCorrect
<1> QED BY <1>1, <1>2, <1>3, <1>a DEF TypeOK

\* With a wrapper that rewinds and parameters a cell can hold, every pass of
\* every execution of a cached plan delivers the answer of its own parameter
\* values and nothing else.
THEOREM AnswersCorrect ==
  ASSUME Faithful PROVE Spec => []AnswerCorrect
<1>1. Init => ScanInv
  BY ScanAssumption, ScanInvInit
<1>2. ScanInv /\ [Next]_vars => ScanInv'
  BY ScanAssumption, Faithful, ScanInvStep
<1>3. ScanInv => AnswerCorrect
  BY ScanAssumption, AnswerFromInv
<1> QED BY <1>1, <1>2, <1>3, PTL DEF Spec

\* The kind of scan the instance runs is that of the path in the plan, whatever
\* the planner stored in the shared state before it chose.
THEOREM DispatchIsPlanned ==
  ASSUME Faithful PROVE Spec => []DispatchFollowsPlan
<1>1. Init => ScanInv
  BY ScanAssumption, ScanInvInit
<1>2. ScanInv /\ [Next]_vars => ScanInv'
  BY ScanAssumption, Faithful, ScanInvStep
<1>3. ScanInv => DispatchFollowsPlan
  BY DEF ScanInv, CoreInv, TypeOK, PlanInv, PassInv, ScanMode, DispatchFollowsPlan
<1> QED BY <1>1, <1>2, <1>3, PTL DEF Spec

LEMMA NoRowTwiceFromInv == ScanInv => NoRowTwice
<1> SUFFICES ASSUME ScanInv PROVE NoRowTwice
  OBVIOUS
<1>1. CASE exec = "run"
  <2>1. got \subseteq remote \ pending
    BY <1>1 DEF ScanInv, CoreInv, TypeOK, PassInv
  <2> QED BY <2>1 DEF NoRowTwice
<1>2. CASE exec # "run"
  BY <1>2 DEF ScanInv, PassInv, NoRowTwice
<1> QED BY <1>1, <1>2

\* No row reaches the query twice in a pass.
THEOREM RowsOnce ==
  ASSUME Faithful PROVE Spec => []NoRowTwice
<1>1. Init => ScanInv
  BY ScanAssumption, ScanInvInit
<1>2. ScanInv /\ [Next]_vars => ScanInv'
  BY ScanAssumption, Faithful, ScanInvStep
<1> QED BY <1>1, <1>2, NoRowTwiceFromInv, PTL DEF Spec

-----------------------------------------------------------------------------
(* Memory contexts.                                                         *)

ExecInv == state = "set" <=> exec # "idle"

LEMMA ExecInvStep == ExecInv /\ [Next]_vars => ExecInv'
<1> SUFFICES ASSUME ExecInv, [Next]_vars PROVE ExecInv'
  OBVIOUS
<1> USE DEF planVars, fdwVars, passVars, ExecInv
<1>1. CASE PlanStep
  BY <1>1 DEF PlanStep, GetForeignRelSize, GetForeignPathsError, PlannerGivesUp,
              GetForeignUpperPaths, GetForeignPlan, DropPlan
<1>2. ASSUME NEW explainOnly \in BOOLEAN, BeginForeignScan(explainOnly) PROVE ExecInv'
  BY <1>2 DEF BeginForeignScan, CreateState
<1>3. CASE InstanceCreationError \/ IterateForeignScan \/ ReScanForeignScan
  BY <1>3 DEF InstanceCreationError, IterateForeignScan, ReScanForeignScan
<1>4. CASE IterateError \/ ReScanError \/ EndForeignScan
  BY <1>4 DEF IterateError, ReScanError, EndForeignScan, DropState, ExecutionOver
<1>5. CASE IterateColumnMismatch \/ AbortElsewhere
  BY <1>5 DEF IterateColumnMismatch, AbortElsewhere, LoseState, ExecutionOver
<1>6. CASE UNCHANGED vars
  BY <1>6 DEF vars
<1> QED BY <1>1, <1>2, <1>3, <1>4, <1>5, <1>6 DEF Next, ExecStep

LEMMA LeakStep ==
  ASSUME TypeOK, ExecInv, Next, Orphans' # Orphans
  PROVE  \/ GetForeignPathsError \/ PlannerGivesUp
         \/ InstanceCreationError \/ IterateColumnMismatch \/ AbortElsewhere
<1> USE DEF planVars, fdwVars, passVars, TypeOK, Orphans
<1>1. ~GetForeignRelSize
  BY DEF GetForeignRelSize
<1>2. ~GetForeignUpperPaths /\ ~DropPlan
  BY DEF GetForeignUpperPaths, DropPlan
<1>3. ASSUME NEW path \in {"base", "upper"} PROVE ~GetForeignPlan(path)
  BY DEF GetForeignPlan
<1>4. ASSUME NEW explainOnly \in BOOLEAN, BeginForeignScan(explainOnly) PROVE FALSE
  <2>1. /\ exec = "idle" /\ planner' = planner
        /\ ctxs' = ctxs + 1 /\ state' = "set"
    BY <1>4 DEF BeginForeignScan, CreateState
  <2>2. state = "null"
    BY <2>1 DEF ExecInv
  <2> QED BY <2>1, <2>2
<1>5. ~IterateForeignScan /\ ~ReScanForeignScan
  BY DEF IterateForeignScan, ReScanForeignScan
<1>6. ~IterateError /\ ~ReScanError /\ ~EndForeignScan
  BY DEF IterateError, ReScanError, EndForeignScan, DropState, ExecutionOver
<1> QED BY <1>1, <1>2, <1>3, <1>4, <1>5, <1>6 DEF Next, PlanStep, ExecStep

\* A memory context is orphaned only by an error raised past its owner.
THEOREM LeaksAreUnwound == Spec => LeaksOnlyWhenUnwound
<1>1. Init => CoreInv /\ ExecInv
  BY ScanAssumption, CoreInvInit DEF Init, ExecInv
<1>2. CoreInv /\ ExecInv /\ [Next]_vars => (CoreInv /\ ExecInv)'
  BY ScanAssumption, CoreInvStep, ExecInvStep
<1>3. CoreInv /\ ExecInv /\ [Next]_vars
        => [Orphans' # Orphans =>
              \/ GetForeignPathsError \/ PlannerGivesUp
              \/ InstanceCreationError \/ IterateColumnMismatch \/ AbortElsewhere]_vars
  BY LeakStep DEF CoreInv
<1> QED BY <1>1, <1>2, <1>3, PTL DEF Spec, LeaksOnlyWhenUnwound

-----------------------------------------------------------------------------
(* The refinement of QueryScan.                                             *)

LEMMA AnswerSame == \A c : Q!Answer(c) = Answer(c)
BY DEF Q!Answer, Answer

\* What the next tuple adds to the query is new and belongs to the answer.
LEMMA FetchDelivers ==
  ASSUME ScanAssumption, ScanInv, ScanInv', IterateForeignScan
  PROVE  Q!Deliver \/ Q!Finish \/ UNCHANGED Q!vars
<1>1. /\ exec = "run" /\ exec' = exec /\ cur' = cur
  BY DEF IterateForeignScan
<1>2. AnswerCorrect /\ AnswerCorrect'
  <2>1. AnswerCorrect
    BY AnswerFromInv
  <2>2. AnswerCorrect'
    BY AnswerFromInv, PTL
  <2> QED BY <2>1, <2>2
<1>3. got' \subseteq Answer(cur)
  BY <1>1, <1>2 DEF AnswerCorrect, Answer
<1>4. PICK P : Fetch(P)
  BY DEF IterateForeignScan
<1>5. CASE done' /\ P = {}
  <2>1. got' = got /\ got' = Answer(cur)
    BY <1>1, <1>2, <1>4, <1>5 DEF Fetch, AnswerCorrect, Answer
  <2> QED BY <1>1, <1>4, <1>5, <2>1, AnswerSame DEF Q!Finish, Fetch
<1>6. CASE P # {}
  <2>1. PICK T \in Tuples(P) : got' = got \cup Surviving(T) /\ done' = done
    BY <1>4, <1>6 DEF Fetch
  <2>2. got' = got \cup (got' \ got)
    BY <2>1
  <2>3. CASE got' = got
    BY <1>1, <2>1, <2>3 DEF Q!vars
  <2>4. CASE got' # got
    <3>1. ~done
      BY <1>2, <1>3, <2>2, <2>4 DEF AnswerCorrect
    <3>2. got' \ got \in SUBSET (Answer(cur) \ got) /\ got' \ got # {}
      BY <1>3, <2>2, <2>4
    <3> QED BY <1>1, <2>1, <2>2, <3>1, <3>2, AnswerSame DEF Q!Deliver
  <2> QED BY <2>3, <2>4
<1>7. CASE P = {} /\ ~done'
  BY <1>4, <1>7 DEF Fetch
<1> QED BY <1>5, <1>6, <1>7

LEMMA QueryScanStep ==
  ScanAssumption /\ ScanInv /\ ScanInv' /\ [Next]_vars => [Q!Next]_(Q!vars)
<1> SUFFICES ASSUME ScanAssumption, ScanInv, ScanInv', [Next]_vars
             PROVE  Q!Next \/ UNCHANGED Q!vars
  OBVIOUS
<1> USE DEF planVars, fdwVars, passVars
<1>a. /\ cur' \in [Quals -> Vals \cup {NULL}]
      /\ (exec = "idle" => got = {} /\ done = FALSE)
  BY DEF ScanInv, CoreInv, TypeOK, PassInv, Values
<1>1. CASE GetForeignRelSize
  BY <1>1, <1>a DEF GetForeignRelSize, Q!Next, Q!StartPass
<1>2. CASE GetForeignPathsError \/ PlannerGivesUp \/ GetForeignUpperPaths \/ DropPlan
           \/ \E path \in {"base", "upper"} : GetForeignPlan(path)
  BY <1>2 DEF GetForeignPathsError, PlannerGivesUp, GetForeignUpperPaths, DropPlan,
              GetForeignPlan, Q!vars
<1>3. ASSUME NEW explainOnly \in BOOLEAN, BeginForeignScan(explainOnly) PROVE Q!Next
  <2>1. got' = {} /\ done' = FALSE
    BY <1>3, <1>a DEF BeginForeignScan
  <2> QED BY <1>a, <2>1 DEF Q!Next, Q!StartPass
<1>4. CASE InstanceCreationError
  BY <1>4 DEF InstanceCreationError, Q!vars
<1>5. CASE IterateForeignScan
  BY <1>5, FetchDelivers DEF Q!Next
<1>6. CASE IterateError \/ ReScanError \/ EndForeignScan \/ IterateColumnMismatch \/ AbortElsewhere
  <2>1. ExecutionOver
    BY <1>6 DEF IterateError, ReScanError, EndForeignScan, IterateColumnMismatch, AbortElsewhere
  <2> QED BY <2>1 DEF ExecutionOver, Q!Next, Q!Stop
<1>7. CASE ReScanForeignScan
  BY <1>7, <1>a DEF ReScanForeignScan, Q!Next, Q!StartPass
<1>8. CASE UNCHANGED vars
  BY <1>8 DEF vars, Q!vars
<1> QED BY <1>1, <1>2, <1>3, <1>4, <1>5, <1>6, <1>7, <1>8 DEF Next, PlanStep, ExecStep

\* The framework keeps the promise of QueryScan over every sequence of plans,
\* executions, rescans and errors.
THEOREM ImplementsQueryScan ==
  ASSUME Faithful PROVE Spec => Implements
<1>1. Init => ScanInv
  BY ScanAssumption, ScanInvInit
<1>2. ScanInv /\ [Next]_vars => ScanInv'
  BY ScanAssumption, Faithful, ScanInvStep
<1>3. Init => Q!Init
  BY ScanAssumption DEF Init, Q!Init, ScanAssumption
<1>4. ScanInv /\ ScanInv' /\ [Next]_vars => [Q!Next]_(Q!vars)
  BY ScanAssumption, QueryScanStep
<1> QED BY <1>1, <1>2, <1>3, <1>4, PTL DEF Spec, Implements, Q!Spec

-----------------------------------------------------------------------------
(* ClickHouseStream, a wrapper whose side of a scan has a thread of its    *)
(* own: streams of any length, channels of any size and any set of rows    *)
(* that cannot be converted.                                               *)

\* The rows that have left the channel since the scan began.
Received ==
  Len(delivered) + (IF taken = NoRow THEN 0 ELSE 1) + (IF current = NoRow THEN 0 ELSE 1)

\* Between the channel and the query there is at most one row, the next one,
\* and it is in one place; the scan is complete only when there is none.
HandOver ==
  /\ \A i \in DOMAIN delivered : delivered[i] = i
  /\ taken # NoRow => pc = "recv" /\ taken = Row(Len(delivered) + 1)
  /\ current # NoRow => pc = "open" /\ current = Row(Len(delivered) + 1)
  /\ pc = "recv" => ~complete
  /\ pc = "open" /\ current = NoRow => complete
  /\ pc = "open" /\ complete => Len(delivered) = N
  /\ ended => pc = "open" /\ complete

\* While the backend expects more, the channel holds the rows after those it
\* has received, in order and without a gap, and what follows them is with the
\* task or is the last message of a task that is over.
InFlight ==
  pc \in {"open", "recv"} /\ ~complete =>
    /\ receiver
    /\ task \in {"connect", "stream", "send", "over"}
    /\ \A i \in DOMAIN chan :
         \/ chan[i] = Row(Received + i)
         \/ task = "over" /\ i = Len(chan) /\ chan[i] \in {Eos, Err}
    /\ task = "connect" => Received = 0 /\ chan = <<>> /\ next = 1
    /\ task = "stream" => next = Received + Len(chan) + 1
    /\ task = "send" => \/ msg = Row(next - 1) /\ next = Received + Len(chan) + 2
                        \/ msg = Eos /\ N = Received + Len(chan)
                        \/ msg = Err
    /\ task = "over" =>
         /\ chan # <<>> /\ chan[Len(chan)] \in {Eos, Err}
         /\ chan[Len(chan)] = Eos => N = Received + Len(chan) - 1

\* A task that sends has a message: without it the types are not inductive.
StreamTypeInv == StreamTypeOK /\ (task = "send" => msg \in Messages)

StreamInv == StreamTypeInv /\ HandOver /\ InFlight

-----------------------------------------------------------------------------
(* Sequences. *)

LEMMA AppendAt ==
  ASSUME NEW S, NEW s \in Seq(S), NEW x \in S
  PROVE  /\ Append(s, x) \in Seq(S)
         /\ Len(Append(s, x)) = Len(s) + 1
         /\ DOMAIN Append(s, x) = DOMAIN s \cup {Len(s) + 1}
         /\ \A i \in DOMAIN s : Append(s, x)[i] = s[i]
         /\ Append(s, x)[Len(s) + 1] = x
OBVIOUS

LEMMA TailAt ==
  ASSUME NEW S, NEW s \in Seq(S), s # <<>>
  PROVE  /\ Head(s) = s[1] /\ Head(s) \in S
         /\ Tail(s) \in Seq(S)
         /\ Len(s) \in Nat \ {0} /\ Len(Tail(s)) = Len(s) - 1
         /\ \A i \in DOMAIN Tail(s) : i + 1 \in DOMAIN s /\ Tail(s)[i] = s[i + 1]
OBVIOUS

LEMMA NothingYet ==
  ASSUME StreamAssumption
  PROVE  /\ \A S : <<>> \in Seq(S)
         /\ Len(<<>>) = 0 /\ Len(<<>>) <= BufferSize
         /\ 1 \in 1..(N + 1)
BY DEF StreamAssumption

-----------------------------------------------------------------------------
(* Kinds of messages. *)

LEMMA MessageKinds ==
  /\ \A r, q : Row(r) = Row(q) => r = q
  /\ \A r : Row(r) # NoRow /\ Row(r) # Eos /\ Row(r) # Err
  /\ Eos # Err /\ Eos # NoRow /\ Err # NoRow
  /\ \A r : Row(r).kind = "row" /\ Row(r).row = r
  /\ Eos.kind = "end" /\ Err.kind = "err" /\ NoRow.kind = "none"
BY DEF Row, NoRow, Eos, Err

\* A message of the kind of rows is a row.
LEMMA RowMessage ==
  ASSUME NEW m \in Messages, m.kind = "row"
  PROVE  m.row \in StreamRows /\ m = Row(m.row)
BY MessageKinds DEF Messages

-----------------------------------------------------------------------------
(* Types. *)

LEMMA StreamTypeInvInit == StreamAssumption /\ StreamInit => StreamTypeInv
BY NothingYet DEF StreamInit, StreamTypeInv, StreamTypeOK

LEMMA SetupTypes ==
  ASSUME StreamAssumption, SetupStreaming PROVE StreamTypeInv'
BY NothingYet DEF SetupStreaming, StreamTypeInv, StreamTypeOK

LEMMA FetchedTypes ==
  ASSUME StreamAssumption, StreamTypeOK,
         NEW c \in {Row(r) : r \in StreamRows} \cup {NoRow}, NEW d \in BOOLEAN, Fetched(c, d)
  PROVE  /\ pc' = "open" /\ inSetup' \in BOOLEAN /\ complete' \in BOOLEAN /\ ended' \in BOOLEAN
         /\ taken' \in {Row(r) : r \in StreamRows} \cup {NoRow}
         /\ current' \in {Row(r) : r \in StreamRows} \cup {NoRow}
         /\ delivered' \in Seq(StreamRows)
<1>1. taken # NoRow => taken.row \in StreamRows
  BY MessageKinds DEF StreamTypeOK
<1>2. delivered' \in Seq(StreamRows)
  BY <1>1, AppendAt DEF Fetched, StreamTypeOK
<1> QED BY <1>2 DEF Fetched, StreamTypeOK

LEMMA StreamTypeInvStep == StreamAssumption /\ StreamTypeInv /\ [StreamNext]_streamVars => StreamTypeInv'
<1> SUFFICES ASSUME StreamAssumption, StreamTypeInv, [StreamNext]_streamVars PROVE StreamTypeInv'
  OBVIOUS
<1> USE DEF backendVars, taskVars, StreamTypeInv
<1>1. CASE BeginScan \/ ReScan
  BY <1>1, SetupTypes DEF BeginScan, ReScan
<1>2. CASE IterScan
  BY <1>2 DEF IterScan, StreamTypeOK
<1>3. CASE RecvRow
  <2>1. /\ Head(chan) \in Messages /\ chan' \in Seq(Messages) /\ Len(chan') <= BufferSize
    BY <1>3, TailAt DEF RecvRow, StreamTypeOK, StreamAssumption
  <2>2. Head(chan) \in {Row(r) : r \in StreamRows}
    BY <1>3, <2>1, RowMessage DEF RecvRow
  <2>3. CASE Head(chan).row \in Bad
    BY <1>3, <2>1, <2>3 DEF RecvRow, FetchFailed, StreamTypeOK
  <2>4. CASE Head(chan).row \notin Bad
    <3>1. Fetched(Head(chan), complete)
      BY <1>3, <2>4 DEF RecvRow
    <3>2. complete \in BOOLEAN
      BY DEF StreamTypeOK
    <3>3. /\ receiver' = receiver /\ task' = task /\ msg' = msg /\ next' = next
      BY <1>3 DEF RecvRow
    <3> QED BY <2>1, <2>2, <3>1, <3>2, <3>3, FetchedTypes DEF StreamTypeOK
  <2> QED BY <2>3, <2>4
<1>4. CASE RecvEnd
  <2>1. Fetched(NoRow, TRUE) /\ receiver' = receiver /\ task' = task /\ msg' = msg /\ next' = next
    BY <1>4 DEF RecvEnd
  <2>2. chan' \in Seq(Messages) /\ Len(chan') <= BufferSize
    BY <1>4, TailAt DEF RecvEnd, StreamTypeOK, StreamAssumption
  <2> QED BY <2>1, <2>2, FetchedTypes DEF StreamTypeOK
<1>5. CASE RecvError
  BY <1>5, NothingYet DEF RecvError, FetchFailed, StreamTypeOK
<1>6. CASE EndScan
  BY <1>6, NothingYet DEF EndScan, StreamTypeOK
<1>7. CASE DropWrapper
  BY <1>7, NothingYet DEF DropWrapper, StreamTypeOK
<1>8. CASE Connect
  BY <1>8 DEF Connect, StreamTypeOK, Messages
<1>9. CASE ReadStream
  BY <1>9 DEF ReadStream, Converted, StreamTypeOK, Messages, StreamRows, StreamAssumption
<1>10. CASE Send
  <2>1. chan' \in Seq(Messages) /\ Len(chan') <= BufferSize
    BY <1>10, AppendAt DEF Send, StreamTypeOK, StreamAssumption
  <2> QED BY <1>10, <2>1 DEF Send, StreamTypeOK
<1>11. CASE SendFails
  BY <1>11 DEF SendFails, StreamTypeOK
<1>12. CASE UNCHANGED streamVars
  BY <1>12 DEF streamVars, StreamTypeOK
<1> QED
  BY <1>1, <1>2, <1>3, <1>4, <1>5, <1>6, <1>7, <1>8, <1>9, <1>10, <1>11, <1>12
  DEF StreamNext, Recv, Task

\* Types: in particular the channel never holds more than stream_buffer_size
\* messages, whatever the task reads and the backend takes.
THEOREM StreamTypes == StreamSpec => []StreamTypeOK
<1>1. StreamInit => StreamTypeInv
  BY StreamAssumption, StreamTypeInvInit
<1>2. StreamTypeInv /\ [StreamNext]_streamVars => StreamTypeInv'
  BY StreamAssumption, StreamTypeInvStep
<1>3. StreamTypeInv => StreamTypeOK
  BY DEF StreamTypeInv
<1> QED BY <1>1, <1>2, <1>3, PTL DEF StreamSpec

-----------------------------------------------------------------------------
(* Rows. *)

LEMMA ReceivedType ==
  ASSUME StreamTypeOK
  PROVE  /\ Received \in Nat
         /\ Len(delivered) \in Nat /\ DOMAIN delivered = 1..Len(delivered)
         /\ Len(chan) \in Nat /\ DOMAIN chan = 1..Len(chan)
<1>1. delivered \in Seq(StreamRows) /\ chan \in Seq(Messages)
  BY DEF StreamTypeOK
<1>2. Len(delivered) \in Nat /\ DOMAIN delivered = 1..Len(delivered)
  BY <1>1
<1>3. Len(chan) \in Nat /\ DOMAIN chan = 1..Len(chan)
  BY <1>1
<1>4. Received \in Nat
  <2>1. Len(delivered) \in Nat
    BY <1>2
  <2>2. (IF taken = NoRow THEN 0 ELSE 1) \in Nat /\ (IF current = NoRow THEN 0 ELSE 1) \in Nat
    OBVIOUS
  <2>3. \A a, b, e \in Nat : a + b + e \in Nat
    OBVIOUS
  <2> QED BY <2>1, <2>2, <2>3 DEF Received
<1> QED BY <1>2, <1>3, <1>4

LEMMA StreamInvInit == StreamAssumption /\ StreamInit => StreamInv
<1>1. StreamInit => HandOver /\ InFlight
  BY DEF StreamInit, HandOver, InFlight
<1> QED BY <1>1, StreamTypeInvInit DEF StreamInv

LEMMA SetupRows ==
  ASSUME StreamAssumption, SetupStreaming PROVE HandOver' /\ InFlight'
<1>1. Received' = 0
  BY MessageKinds DEF SetupStreaming, Received
<1> QED BY <1>1 DEF SetupStreaming, HandOver, InFlight

\* A row that is received, or the end, makes the row before it the query's.
LEMMA FetchedRows ==
  ASSUME StreamAssumption, StreamTypeOK, HandOver, pc = "recv",
         NEW c \in {Row(r) : r \in StreamRows} \cup {NoRow}, NEW d \in BOOLEAN, Fetched(c, d)
  PROVE  /\ Len(delivered') = Received
         /\ \A i \in DOMAIN delivered' : delivered'[i] = i
         /\ Received' = Received + (IF c = NoRow THEN 0 ELSE 1)
         /\ ~complete /\ ~ended'
<1>1. current = NoRow /\ ~complete /\ ~ended
  BY DEF HandOver
<1>2. pc' = "open" /\ current' = c /\ taken' = NoRow /\ ended' = ended
  BY DEF Fetched
<1>3. Received' = Len(delivered') + 0 + (IF c = NoRow THEN 0 ELSE 1)
  BY <1>2 DEF Received
<1>4. CASE taken = NoRow
  <2>1. delivered' = delivered /\ Received = Len(delivered)
    BY <1>1, <1>4, ReceivedType DEF Fetched, Received
  <2>2. Received' = Received + (IF c = NoRow THEN 0 ELSE 1)
    BY <1>3, <2>1, ReceivedType
  <2> QED BY <1>1, <1>2, <2>1, <2>2 DEF HandOver
<1>5. CASE taken # NoRow
  <2>1. taken = Row(Len(delivered) + 1) /\ taken.row = Len(delivered) + 1
    BY <1>5, MessageKinds DEF HandOver
  <2>2. taken.row \in StreamRows
    BY <1>5, <2>1, MessageKinds DEF StreamTypeOK
  <2>3. delivered' = Append(delivered, Len(delivered) + 1) /\ Len(delivered) + 1 \in StreamRows
    BY <1>5, <2>1, <2>2 DEF Fetched
  <2>4. Received = Len(delivered) + 1
    BY <1>1, <1>5, ReceivedType DEF Received
  <2>5. Len(delivered') = Len(delivered) + 1 /\ \A i \in DOMAIN delivered' : delivered'[i] = i
    BY <2>3, AppendAt DEF HandOver, StreamTypeOK
  <2>6. Received' = Received + (IF c = NoRow THEN 0 ELSE 1)
    BY <1>3, <2>4, <2>5, ReceivedType
  <2> QED BY <1>1, <1>2, <2>4, <2>5, <2>6
<1> QED BY <1>4, <1>5

LEMMA RecvRowRows ==
  ASSUME StreamAssumption, StreamInv, RecvRow PROVE HandOver' /\ InFlight'
<1> USE DEF StreamInv, StreamTypeInv
<1>1. /\ pc = "recv" /\ chan # <<>> /\ chan' = Tail(chan) /\ Head(chan).kind = "row"
      /\ receiver' = receiver /\ task' = task /\ msg' = msg /\ next' = next
  BY DEF RecvRow, taskVars
<1>2. ~complete
  BY <1>1 DEF HandOver
<1>3. Head(chan) = chan[1] /\ 1 \in DOMAIN chan /\ chan[1] \in {Row(r) : r \in StreamRows}
  BY <1>1, TailAt, RowMessage DEF StreamTypeOK
<1>4. chan[1] = Row(Received + 1)
  BY <1>1, <1>2, <1>3, MessageKinds DEF InFlight
<1>5. CASE Head(chan).row \in Bad
  BY <1>1, <1>5 DEF RecvRow, FetchFailed, HandOver, InFlight
<1>6. CASE Head(chan).row \notin Bad
  <2>1. Fetched(Head(chan), complete)
    BY <1>6 DEF RecvRow
  <2>2. /\ Len(delivered') = Received /\ Received' = Received + 1
        /\ \A i \in DOMAIN delivered' : delivered'[i] = i
        /\ ~ended'
    BY <1>1, <1>3, <2>1, MessageKinds, FetchedRows DEF StreamTypeOK
  <2>3. /\ pc' = "open" /\ ~complete' /\ taken' = NoRow
        /\ current' = Row(Received + 1) /\ current' # NoRow
    BY <1>2, <1>3, <1>4, <2>1, MessageKinds DEF Fetched
  <2>4. HandOver'
    BY <2>2, <2>3 DEF HandOver
  <2>5. /\ Len(chan) \in Nat \ {0} /\ Len(chan') = Len(chan) - 1
        /\ chan' \in Seq(Messages)
        /\ \A i \in DOMAIN chan' : i + 1 \in DOMAIN chan /\ chan'[i] = chan[i + 1]
    BY <1>1, TailAt DEF StreamTypeOK
  <2>6. Received \in Nat /\ DOMAIN chan' = 1..Len(chan')
    BY <2>5, ReceivedType
  <2>7. receiver' /\ task' \in {"connect", "stream", "send", "over"}
    BY <1>1, <1>2 DEF InFlight
  <2>8. ASSUME NEW i \in DOMAIN chan'
        PROVE  \/ chan'[i] = Row(Received' + i)
               \/ task' = "over" /\ i = Len(chan') /\ chan'[i] \in {Eos, Err}
    <3>1. i + 1 \in DOMAIN chan /\ chan'[i] = chan[i + 1] /\ i \in Nat
      BY <2>5, <2>6
    <3>2. Received + (i + 1) = Received' + i
      BY <2>2, <2>6, <3>1
    <3> QED BY <1>1, <1>2, <2>5, <2>6, <3>1, <3>2 DEF InFlight
  <2>9. task' # "connect"
    BY <1>1, <1>2 DEF InFlight
  <2>10. task' = "stream" => next' = Received' + Len(chan') + 1
    BY <1>1, <1>2, <2>2, <2>5, <2>6 DEF InFlight
  <2>11. task' = "send" => \/ msg' = Row(next' - 1) /\ next' = Received' + Len(chan') + 2
                           \/ msg' = Eos /\ N = Received' + Len(chan')
                           \/ msg' = Err
    BY <1>1, <1>2, <2>2, <2>5, <2>6 DEF InFlight
  <2>12. ASSUME task' = "over"
         PROVE  /\ chan' # <<>> /\ chan'[Len(chan')] \in {Eos, Err}
                /\ chan'[Len(chan')] = Eos => N = Received' + Len(chan') - 1
    <3>1. /\ chan[Len(chan)] \in {Eos, Err}
          /\ chan[Len(chan)] = Eos => N = Received + Len(chan) - 1
      BY <1>1, <1>2, <2>12 DEF InFlight
    <3>2. Len(chan) # 1
      BY <1>4, <3>1, MessageKinds
    <3>3. Len(chan') \in DOMAIN chan' /\ chan'[Len(chan')] = chan[Len(chan)]
      BY <2>5, <2>6, <3>2
    <3>4. chan' # <<>>
      BY <2>5, <3>2
    <3> QED BY <2>2, <2>5, <2>6, <3>1, <3>3, <3>4
  <2> QED BY <2>4, <2>7, <2>8, <2>9, <2>10, <2>11, <2>12 DEF InFlight
<1> QED BY <1>5, <1>6

\* The end of the stream is read off the channel only when every row is there:
\* the marker follows row N, and a channel without a sender is never empty.
LEMMA RecvEndRows ==
  ASSUME StreamAssumption, StreamInv, RecvEnd PROVE HandOver' /\ InFlight' /\ Len(delivered') = N
<1> USE DEF StreamInv, StreamTypeInv
<1>1. pc = "recv" /\ StreamOver /\ Fetched(NoRow, TRUE)
  BY DEF RecvEnd
<1>2. ~complete
  BY <1>1 DEF HandOver
<1>3. chan # <<>>
  BY <1>1, <1>2 DEF InFlight, StreamOver
<1>4. Head(chan) = Eos
  BY <1>1, <1>3 DEF StreamOver
<1>5. chan[1] = Eos /\ 1 \in DOMAIN chan
  BY <1>3, <1>4, TailAt DEF StreamTypeOK
<1>6. task = "over" /\ Len(chan) = 1
  BY <1>1, <1>2, <1>5, MessageKinds DEF InFlight
<1>7. N = Received
  BY <1>1, <1>2, <1>5, <1>6, ReceivedType DEF InFlight
<1>8. Len(delivered') = N /\ (\A i \in DOMAIN delivered' : delivered'[i] = i) /\ ~ended'
  BY <1>1, <1>7, FetchedRows
<1>9. pc' = "open" /\ complete' /\ current' = NoRow /\ taken' = NoRow
  BY <1>1 DEF Fetched
<1> QED BY <1>8, <1>9 DEF HandOver, InFlight

\* What the task sends goes to the end of the rows in flight.
LEMMA SendRows ==
  ASSUME StreamAssumption, StreamInv, Send, pc \in {"open", "recv"}, ~complete
  PROVE  InFlight'
<1> USE DEF StreamInv, StreamTypeInv
<1>1. /\ task = "send" /\ chan' = Append(chan, msg) /\ msg \in Messages
      /\ task' = (IF msg.kind = "row" THEN "stream" ELSE "over")
      /\ next' = next /\ receiver' = receiver /\ Received' = Received
  BY DEF Send, backendVars, Received
<1>2. /\ Len(chan') = Len(chan) + 1 /\ DOMAIN chan' = DOMAIN chan \cup {Len(chan) + 1}
      /\ \A i \in DOMAIN chan : chan'[i] = chan[i]
      /\ chan'[Len(chan) + 1] = msg
  BY <1>1, AppendAt DEF StreamTypeOK
<1>3. receiver /\ \A i \in DOMAIN chan : chan[i] = Row(Received + i)
  BY <1>1 DEF InFlight
<1>4. Received \in Nat /\ Len(chan) \in Nat /\ next \in Nat /\ N \in Nat
  BY ReceivedType DEF StreamTypeOK, StreamAssumption
<1>5. CASE msg = Row(next - 1) /\ next = Received + Len(chan) + 2
  <2>1. task' = "stream" /\ msg = Row(Received + (Len(chan) + 1))
    BY <1>1, <1>4, <1>5, MessageKinds
  <2>2. \A i \in DOMAIN chan' : chan'[i] = Row(Received' + i)
    BY <1>1, <1>2, <1>3, <2>1
  <2>3. next' = Received' + Len(chan') + 1
    BY <1>1, <1>2, <1>4, <1>5
  <2> QED BY <1>1, <1>3, <2>1, <2>2, <2>3 DEF InFlight
<1>6. CASE (msg = Eos /\ N = Received + Len(chan)) \/ msg = Err
  <2>1. task' = "over" /\ msg \in {Eos, Err}
    BY <1>1, <1>6, MessageKinds
  <2>2. \A i \in DOMAIN chan' : \/ chan'[i] = Row(Received' + i)
                                \/ i = Len(chan') /\ chan'[i] \in {Eos, Err}
    BY <1>1, <1>2, <1>3, <2>1
  <2>3. chan' # <<>> /\ chan'[Len(chan')] = msg
    BY <1>2, <1>4
  <2>4. msg = Eos => N = Received' + Len(chan') - 1
    BY <1>1, <1>2, <1>4, <1>6, MessageKinds
  <2> QED BY <1>1, <1>3, <2>1, <2>2, <2>3, <2>4 DEF InFlight
<1> QED BY <1>1, <1>5, <1>6 DEF InFlight

LEMMA ReadStreamRows ==
  ASSUME StreamAssumption, StreamInv, ReadStream, pc \in {"open", "recv"}, ~complete
  PROVE  InFlight'
<1> USE DEF StreamInv, StreamTypeInv
<1>1. /\ task = "stream" /\ task' = "send" /\ receiver' = receiver /\ chan' = chan
      /\ Received' = Received
  BY DEF ReadStream, backendVars, Received
<1>2. /\ receiver /\ next = Received + Len(chan) + 1
      /\ \A i \in DOMAIN chan : chan[i] = Row(Received + i)
  BY <1>1 DEF InFlight
<1>3. Received \in Nat /\ Len(chan) \in Nat /\ next \in 1..(N + 1) /\ N \in Nat
  BY ReceivedType DEF StreamTypeOK, StreamAssumption
<1>4. \/ next <= N /\ msg' \in {Row(next), Err} /\ next' = next + 1
      \/ next > N /\ msg' = Eos
      \/ msg' = Err
  BY DEF ReadStream, Converted
<1>5. \/ msg' = Row(next' - 1) /\ next' = Received + Len(chan) + 2
      \/ msg' = Eos /\ N = Received + Len(chan)
      \/ msg' = Err
  <2>1. CASE next <= N /\ msg' = Row(next) /\ next' = next + 1
    BY <1>2, <1>3, <2>1
  <2>2. CASE next > N /\ msg' = Eos
    BY <1>2, <1>3, <2>2
  <2> QED BY <1>4, <2>1, <2>2
<1> QED BY <1>1, <1>2, <1>5 DEF InFlight

\* Without a scan, and when it is complete, the rows in flight do not matter.
LEMMA NotInFlight ==
  ASSUME pc' \notin {"open", "recv"} \/ complete' PROVE InFlight'
BY DEF InFlight

LEMMA StreamInvStep == StreamAssumption /\ StreamInv /\ [StreamNext]_streamVars => StreamInv'
<1> SUFFICES ASSUME StreamAssumption, StreamInv, [StreamNext]_streamVars PROVE HandOver' /\ InFlight'
  BY StreamTypeInvStep DEF StreamInv
<1> USE DEF backendVars, taskVars
<1>1. CASE BeginScan \/ ReScan
  BY <1>1, SetupRows DEF BeginScan, ReScan
<1>2. CASE IterScan
  <2>1. CASE complete \/ current = NoRow
    <3>1. /\ pc = "open" /\ ended' = TRUE
          /\ UNCHANGED <<pc, taken, current, inSetup, complete, receiver, chan, task, msg, next, delivered>>
      BY <1>2, <2>1 DEF IterScan
    <3>2. complete
      BY <2>1, <3>1 DEF StreamInv, HandOver
    <3> QED BY <3>1, <3>2, NotInFlight DEF StreamInv, HandOver
  <2>2. CASE ~(complete \/ current = NoRow)
    <3>1. /\ pc = "open" /\ pc' = "recv" /\ taken' = current /\ current' = NoRow
          /\ UNCHANGED <<ended, inSetup, complete, receiver, chan, task, msg, next, delivered>>
      BY <1>2, <2>2 DEF IterScan
    <3>2. /\ taken = NoRow /\ current = Row(Len(delivered) + 1) /\ ~ended
      BY <2>2, <3>1 DEF StreamInv, HandOver
    <3>3. HandOver'
      BY <2>2, <3>1, <3>2 DEF StreamInv, HandOver
    <3>4. Received' = Received
      <4>1. Received = Len(delivered) + 0 + 1 /\ Received' = Len(delivered) + 1 + 0
        BY <2>2, <3>1, <3>2 DEF Received
      <4>2. Len(delivered) \in Nat
        BY ReceivedType DEF StreamInv, StreamTypeInv
      <4> QED BY <4>1, <4>2
    <3>5. InFlight'
      BY <2>2, <3>1, <3>4 DEF StreamInv, InFlight
    <3> QED BY <3>3, <3>5
  <2> QED BY <2>1, <2>2
<1>3. CASE RecvRow
  BY <1>3, RecvRowRows
<1>4. CASE RecvEnd
  BY <1>4, RecvEndRows
<1>5. CASE RecvError
  BY <1>5, NotInFlight DEF RecvError, FetchFailed, StreamInv, HandOver
<1>6. CASE EndScan
  BY <1>6, NotInFlight DEF EndScan, StreamInv, HandOver
<1>7. CASE DropWrapper
  BY <1>7, NotInFlight DEF DropWrapper, StreamInv, HandOver
<1>8. CASE Connect
  <2>1. HandOver' /\ Received' = Received
    BY <1>8 DEF Connect, StreamInv, HandOver, Received
  <2>2. CASE pc \in {"open", "recv"} /\ ~complete
    <3>1. Received = 0 /\ chan = <<>> /\ next = 1 /\ receiver
      BY <1>8, <2>2 DEF Connect, StreamInv, InFlight
    <3> QED BY <1>8, <2>1, <3>1 DEF Connect, InFlight
  <2> QED BY <1>8, <2>1, <2>2, NotInFlight DEF Connect
<1>9. CASE ReadStream
  <2>1. HandOver'
    BY <1>9 DEF ReadStream, StreamInv, HandOver
  <2> QED BY <1>9, <2>1, ReadStreamRows, NotInFlight DEF ReadStream
<1>10. CASE Send
  <2>1. HandOver'
    BY <1>10 DEF Send, StreamInv, HandOver
  <2> QED BY <1>10, <2>1, SendRows, NotInFlight DEF Send
<1>11. CASE SendFails
  <2>1. HandOver'
    BY <1>11 DEF SendFails, StreamInv, HandOver
  <2>2. pc \notin {"open", "recv"} \/ complete
    BY <1>11 DEF SendFails, StreamInv, InFlight
  <2> QED BY <1>11, <2>1, <2>2, NotInFlight DEF SendFails
<1>12. CASE UNCHANGED streamVars
  BY <1>12 DEF streamVars, StreamInv, HandOver, InFlight, Received
<1> QED
  BY <1>1, <1>2, <1>3, <1>4, <1>5, <1>6, <1>7, <1>8, <1>9, <1>10, <1>11, <1>12
  DEF StreamNext, Recv, Task

LEMMA NothingLostFromInv == StreamInv => NothingLost
BY DEF StreamInv, HandOver, NothingLost

\* No row is lost, doubled or out of order between the task, the channel, the
\* prefetched row and the query, and the query is not told that there are no
\* more before it has them all.
THEOREM RowsArrive == StreamSpec => []NothingLost
<1>1. StreamInit => StreamInv
  BY StreamAssumption, StreamInvInit
<1>2. StreamInv /\ [StreamNext]_streamVars => StreamInv'
  BY StreamAssumption, StreamInvStep
<1> QED BY <1>1, <1>2, NothingLostFromInv, PTL DEF StreamSpec

-----------------------------------------------------------------------------
(* Refinement. *)

\* The rows of a scan cover the table when there are N of them.
LEMMA AllRows ==
  ASSUME StreamAssumption, StreamTypeOK, \A i \in DOMAIN delivered : delivered[i] = i
  PROVE  /\ Len(delivered) = N => StreamRows \subseteq R!Range(delivered)
         /\ Len(delivered) + 1 \notin R!Range(delivered)
<1>1. DOMAIN delivered = 1..Len(delivered) /\ Len(delivered) \in Nat
  BY ReceivedType
<1>2. ASSUME Len(delivered) = N, NEW r \in StreamRows PROVE r \in R!Range(delivered)
  <2>1. r \in DOMAIN delivered /\ delivered[r] = r
    BY <1>1, <1>2 DEF StreamRows
  <2> QED BY <2>1 DEF R!Range
<1>3. \A i \in DOMAIN delivered : delivered[i] # Len(delivered) + 1
  BY <1>1
<1> QED BY <1>2, <1>3 DEF R!Range

LEMMA RemoteScanStep ==
  StreamAssumption /\ StreamInv /\ StreamInv' /\ [StreamNext]_streamVars => [R!Next]_(R!vars)
<1> SUFFICES ASSUME StreamAssumption, StreamInv, StreamInv', [StreamNext]_streamVars
             PROVE  [R!Next]_(R!vars)
  OBVIOUS
<1> USE DEF backendVars, taskVars
<1>1. ASSUME SetupStreaming PROVE R!Begin
  BY <1>1 DEF SetupStreaming, R!Begin
<1>2. CASE IterScan
  <2>1. CASE ended' = ended
    BY <1>2, <2>1 DEF IterScan, R!vars
  <2>2. CASE ended' # ended
    <3>1. /\ pc = "open" /\ pc' = pc /\ delivered' = delivered /\ ended' = TRUE
          /\ (complete \/ current = NoRow)
      BY <1>2, <2>2 DEF IterScan
    <3>2. Len(delivered) = N
      BY <3>1 DEF StreamInv, HandOver
    <3>3. StreamRows \subseteq R!Range(delivered)
      BY <3>2, AllRows DEF StreamInv, StreamTypeInv, HandOver
    <3> QED BY <3>1, <3>3 DEF R!Next, R!Finish
  <2> QED BY <2>1, <2>2
<1>3. ASSUME NEW c, NEW d, Fetched(c, d), pc = "recv" PROVE R!Give \/ UNCHANGED R!vars
  <2>1. pc' = "open" /\ ended' = ended /\ ~ended
    BY <1>3 DEF Fetched, StreamInv, HandOver
  <2>2. CASE taken = NoRow
    BY <1>3, <2>1, <2>2 DEF Fetched, R!vars
  <2>3. CASE taken # NoRow
    <3>1. taken = Row(Len(delivered) + 1) /\ taken.row = Len(delivered) + 1
      BY <2>3, MessageKinds DEF StreamInv, HandOver
    <3>2. taken.row \in StreamRows
      BY <2>3, <3>1, MessageKinds DEF StreamInv, StreamTypeInv, StreamTypeOK
    <3>3. delivered' = Append(delivered, Len(delivered) + 1)
      BY <1>3, <2>3, <3>1 DEF Fetched
    <3>4. Len(delivered) + 1 \in StreamRows \ R!Range(delivered)
      BY <3>1, <3>2, AllRows DEF StreamInv, StreamTypeInv, HandOver
    <3> QED BY <1>3, <2>1, <3>3, <3>4 DEF R!Give
  <2> QED BY <2>2, <2>3
<1>4. ASSUME pc' \notin {"open", "recv"} PROVE R!Close
  BY <1>4 DEF R!Close
<1>5. CASE BeginScan \/ ReScan
  BY <1>1, <1>5 DEF BeginScan, ReScan, R!Next
<1>6. CASE RecvRow
  <2>1. pc = "recv" /\ (FetchFailed \/ Fetched(Head(chan), complete))
    BY <1>6 DEF RecvRow
  <2>2. CASE FetchFailed
    BY <1>4, <2>2 DEF FetchFailed, R!Next
  <2> QED BY <1>3, <2>1, <2>2 DEF R!Next
<1>7. CASE RecvEnd
  BY <1>3, <1>7 DEF RecvEnd, R!Next
<1>8. CASE RecvError
  BY <1>4, <1>8 DEF RecvError, FetchFailed, R!Next
<1>9. CASE EndScan
  BY <1>4, <1>9 DEF EndScan, R!Next
<1>10. CASE DropWrapper
  BY <1>4, <1>10 DEF DropWrapper, R!Next
<1>11. CASE Task
  BY <1>11 DEF Task, Connect, ReadStream, Send, SendFails, R!vars
<1>12. CASE UNCHANGED streamVars
  BY <1>12 DEF streamVars, R!vars
<1> QED
  BY <1>2, <1>5, <1>6, <1>7, <1>8, <1>9, <1>10, <1>11, <1>12 DEF StreamNext, Recv

\* The wrapper implements what the framework relies on, whatever the stream,
\* the channel and the values that cannot be converted.
THEOREM StreamImplementsRemoteScan == StreamSpec => StreamImplements
<1>1. StreamInit => StreamInv
  BY StreamAssumption, StreamInvInit
<1>2. StreamInv /\ [StreamNext]_streamVars => StreamInv'
  BY StreamAssumption, StreamInvStep
<1>3. StreamInit => R!Init
  BY DEF StreamInit, R!Init
<1>4. StreamInv /\ StreamInv' /\ [StreamNext]_streamVars => [R!Next]_(R!vars)
  BY StreamAssumption, RemoteScanStep
<1> QED BY <1>1, <1>2, <1>3, <1>4, PTL DEF StreamSpec, StreamImplements, R!Spec
=============================================================================
