---------------------------- MODULE ForeignScan ----------------------------
(***************************************************************************)
(* The life of one foreign scan in the wrappers framework                  *)
(* (supabase-wrappers/src/scan.rs and upper.rs): planning, the serialised  *)
(* plan that Postgres may cache and execute again, and the executor        *)
(* callbacks begin, iterate, rescan and end, with the parameter values     *)
(* they push down, the FDW instance and the memory context they own.       *)
(*                                                                         *)
(* Postgres is the environment: it plans, caches and drops plans, starts   *)
(* executions with values for the parameters, asks for tuples, rescans     *)
(* with new values and may abort an execution at any point without calling *)
(* the framework.                                                          *)
(***************************************************************************)
EXTENDS Integers

CONSTANTS
  Rows,          \* rows of the foreign table
  Quals,         \* the conditions of the WHERE clause, each "column = value"
  Vals,          \* non-null values of the columns and the parameters
  NULL,          \* SQL NULL, and the None of Param::eval_value
  Unset,         \* the text "null" a deserialised qual holds before its value is known
  ZeroVal,       \* what a PARAM_EXEC slot reads as before its initplan is linked
  Cell,          \* Cell[r][q]: value of the column of qual q in row r
  Opaque,        \* quals whose parameter has a type Cell cannot hold (varchar, bpchar)
  ReScanRewinds, \* the FDW overrides re_scan (the trait's own does nothing)
  MaxOrphans     \* bound on leaked memory contexts

ASSUME ScanAssumption ==
  /\ ZeroVal \in Vals
  /\ NULL \notin Vals
  /\ Unset \notin Vals
  /\ Unset # NULL
  /\ Cell \in [Rows -> [Quals -> Vals]]
  /\ Opaque \subseteq Quals
  /\ ReScanRewinds \in BOOLEAN
  /\ MaxOrphans \in Nat

Values == Vals \cup {NULL}
Kinds  == {"const", "extern", "expr", "exec", "local"}

VARIABLES
  kind,      \* how each qual gets its value: a constant, a PARAM_EXTERN, a
             \*   pseudo-constant expression or a PARAM_EXEC; "local" if
             \*   extract_quals made nothing of the clause
  planner,   \* FdwState of the planner: "none", "base", or "agg" once
             \*   aggregates were stored in it
  plan,      \* the path Postgres put in the plan: "none", "base", "upper"
  planAgg,   \* FdwScanPrivate holds aggregates
  exec,      \* "idle", "explain" (EXPLAIN without ANALYZE) or "run"
  state,     \* ScanState.fdw_state: "null" or "set"
  ctxs,      \* memory contexts under the Wrappers root
  cur,       \* the value each qual has for Postgres in this pass
  value,     \* Qual::value, what the remote side is asked for
  evalValue, \* Param::eval_value of a parameter qual
  fp,        \* FdwState::param_fingerprint
  recheck,   \* FdwState::recheck_params
  mode,      \* the instance: "none", "new" (not begun), "scan" or "agg"
  remote,    \* rows the open remote scan covers
  pending,   \* those it has not returned yet
  got,       \* rows that reached the query in this pass
  done       \* the instance has reported the end of this pass

planVars == <<kind, planner, plan, planAgg>>
fdwVars  == <<value, evalValue, fp, recheck, mode, remote, pending>>
passVars == <<got, done>>
vars == <<kind, planner, plan, planAgg, exec, state, ctxs, cur, value, evalValue,
          fp, recheck, mode, remote, pending, got, done>>

-----------------------------------------------------------------------------
(* Quals and their values. *)

IsParam(q) == kind[q] \in {"extern", "exec"}

\* Rows whose columns equal the pushed values.
Match(v) == {r \in Rows : \A q \in Quals : kind[q] # "local" => Cell[r][q] = v[q]}

\* Rows that satisfy the WHERE clause as Postgres evaluates it.
Answer(c) == {r \in Rows : \A q \in Quals : c[q] # NULL /\ Cell[r][q] = c[q]}

\* Cell::from_polymorphic_datum gives None for NULL and for a type it does not
\* know.
ToCell(q, x) == IF q \in Opaque THEN NULL ELSE x

\* assign_parameter_value: eval_value always follows the parameter; value
\* keeps what it had when there is no cell.
AssignedEval(e, c) == [q \in Quals |-> IF IsParam(q) THEN ToCell(q, c[q]) ELSE e[q]]
AssignedParam(v, c) ==
  [q \in Quals |-> IF IsParam(q) /\ ToCell(q, c[q]) # NULL THEN c[q] ELSE v[q]]

\* assign_expr_values: likewise, from the value of the expression.
AssignedExpr(v, c) ==
  [q \in Quals |-> IF kind[q] = "expr" /\ ToCell(q, c[q]) # NULL THEN c[q] ELSE v[q]]

\* Faulty: a PARAM_EXEC is left out of the fingerprint.
FingerprintNoExec(v, e) ==
  [q \in Quals |-> IF kind[q] = "expr" THEN v[q]
                   ELSE IF kind[q] = "extern" THEN e[q] ELSE NULL]

\* compute_param_fingerprint: the value of an expression qual, the
\* eval_value of a parameter qual, nothing for a constant.
Fingerprint(v, e) ==
  [q \in Quals |-> IF kind[q] = "expr" THEN v[q]
                   ELSE IF IsParam(q) THEN e[q] ELSE NULL]

\* The remote rows a scan begun with the values v may cover. A plain scan may
\* ignore quals, since Postgres evaluates the clause again; the row set of an
\* aggregate scan must be exact.
RemoteSets(isAgg, v) ==
  IF isAgg THEN {Match(v)} ELSE {S \in SUBSET Rows : Match(v) \subseteq S}

-----------------------------------------------------------------------------
Init ==
  /\ kind = [q \in Quals |-> "const"]
  /\ planner = "none" /\ plan = "none" /\ planAgg = FALSE
  /\ exec = "idle" /\ state = "null" /\ ctxs = 0
  /\ cur = [q \in Quals |-> ZeroVal]
  /\ value = [q \in Quals |-> Unset]
  /\ evalValue = [q \in Quals |-> NULL]
  /\ fp = [q \in Quals |-> NULL]
  /\ recheck = FALSE
  /\ mode = "none" /\ remote = {} /\ pending = {}
  /\ got = {} /\ done = FALSE

Orphans == ctxs - (IF planner = "none" THEN 0 ELSE 1) - (IF state = "null" THEN 0 ELSE 1)

\* Faulty: the context is deleted by the caller and again by Drop.
DropStateTwice ==
  /\ state' = "null"
  /\ ctxs' = ctxs - 2
  /\ mode' = "none"
  /\ value' = [q \in Quals |-> Unset]
  /\ evalValue' = [q \in Quals |-> NULL]
  /\ fp' = [q \in Quals |-> NULL]
  /\ recheck' = FALSE
  /\ remote' = {} /\ pending' = {}

\* The FdwState is dropped: its instance, then its memory context.
DropState ==
  /\ state' = "null"
  /\ ctxs' = ctxs - 1
  /\ mode' = "none"
  /\ value' = [q \in Quals |-> Unset]
  /\ evalValue' = [q \in Quals |-> NULL]
  /\ fp' = [q \in Quals |-> NULL]
  /\ recheck' = FALSE
  /\ remote' = {} /\ pending' = {}

\* The executor is gone and with it the node that pointed to the FdwState.
LoseState ==
  /\ state' = "null"
  /\ UNCHANGED ctxs
  /\ mode' = "none"
  /\ value' = [q \in Quals |-> Unset]
  /\ evalValue' = [q \in Quals |-> NULL]
  /\ fp' = [q \in Quals |-> NULL]
  /\ recheck' = FALSE
  /\ remote' = {} /\ pending' = {}

ExecutionOver ==
  /\ exec' = "idle"
  /\ got' = {} /\ done' = FALSE
  /\ UNCHANGED <<kind, planner, plan, planAgg, cur>>

-----------------------------------------------------------------------------
(* Planning. *)

\* A fresh plan: context and planner state are created and the quals
\* extracted; a constant qual takes its value here, and a constant that is no
\* cell makes no qual. When get_rel_size or the option parsing fails the local
\* state is dropped again and nothing remains.
GetForeignRelSize ==
  /\ exec = "idle" /\ planner = "none"
  /\ kind' \in {k \in [Quals -> Kinds] : \A q \in Opaque : k[q] # "const"}
  /\ cur' \in {c \in [Quals -> Vals] : \A q \in Quals : kind'[q] # "const" => c[q] = ZeroVal}
  /\ planner' = "base"
  /\ plan' = "none" /\ planAgg' = FALSE
  /\ ctxs' = ctxs + 1
  /\ UNCHANGED <<exec, state, fdwVars, passVars>>

\* An invalid startup_cost raises an error while the planner state is reachable
\* only from the RelOptInfo that Postgres throws away.
GetForeignPathsError ==
  /\ planner # "none" /\ Orphans < MaxOrphans
  /\ planner' = "none"
  /\ UNCHANGED <<kind, plan, planAgg, exec, state, ctxs, cur, fdwVars, passVars>>

\* Postgres plans a relation it never asks a plan for (the sub-query it tries
\* for min and max), or fails in a later planning step.
PlannerGivesUp ==
  /\ planner # "none" /\ Orphans < MaxOrphans
  /\ planner' = "none"
  /\ UNCHANGED <<kind, plan, planAgg, exec, state, ctxs, cur, fdwVars, passVars>>

\* Faulty: the restrictions are not counted.
UpperPathsUncounted ==
  /\ planner = "base"
  /\ \A q \in Quals : ~IsParam(q) /\ kind[q] # "expr"
  /\ planner' = "agg"
  /\ UNCHANGED <<kind, plan, planAgg, exec, state, ctxs, cur, fdwVars, passVars>>

\* The aggregates are stored in the FdwState that the base relation shares,
\* unless a clause is no qual (there are more restrictions than quals) or a
\* qual gets its value at run time.
GetForeignUpperPaths ==
  /\ planner = "base"
  /\ \A q \in Quals : kind[q] # "local"
  /\ \A q \in Quals : ~IsParam(q) /\ kind[q] # "expr"
  /\ planner' = "agg"
  /\ UNCHANGED <<kind, plan, planAgg, exec, state, ctxs, cur, fdwVars, passVars>>

\* Faulty: the aggregates of the shared state are serialised for any path.
PlanKeepsAgg(path) == planner = "agg"

\* Postgres asks for the plan of the path it chose; the upper path exists only
\* if GetForeignUpperPaths added it. The aggregates are serialised only for
\* the upper path, and the planner state is dropped.
PlanIsAgg(path) == path = "upper" /\ planner = "agg"

\* Faulty: the planner state is dropped and fdw_private still points to it.
GetForeignPlanDangling(path) ==
  /\ planner # "none"
  /\ path = "upper" => planner = "agg"
  /\ plan' = path
  /\ planAgg' = PlanIsAgg(path)
  /\ ctxs' = ctxs - 1
  /\ UNCHANGED <<kind, planner, exec, state, cur, fdwVars, passVars>>


GetForeignPlan(path) ==
  /\ planner # "none"
  /\ path = "upper" => planner = "agg"
  /\ plan' = path
  /\ planAgg' = PlanIsAgg(path)
  /\ planner' = "none"
  /\ ctxs' = ctxs - 1
  /\ UNCHANGED <<kind, exec, state, cur, fdwVars, passVars>>

\* A cached plan is invalidated or deallocated.
DropPlan ==
  /\ exec = "idle" /\ plan # "none"
  /\ plan' = "none" /\ planAgg' = FALSE
  /\ UNCHANGED <<kind, planner, exec, state, ctxs, cur, fdwVars, passVars>>

-----------------------------------------------------------------------------
(* Execution. *)

\* The values Postgres runs an execution with; the constants are in the plan.
Bindings == {c \in [Quals -> Values] : \A q \in Quals : kind[q] = "const" => c[q] = cur[q]}

\* Initplans are linked only after the scan node was initialised: until then
\* a PARAM_EXEC reads as the zeroed slot, which is NULL for a type passed by
\* reference.
SeenAtBegin(c, z) == [q \in Quals |-> IF kind[q] = "exec" THEN z[q] ELSE c[q]]

\* FdwState as rebuilt from FdwScanPrivate with the values seen so far.
Deserialised(c) == [q \in Quals |-> IF kind[q] = "const" THEN c[q] ELSE Unset]

CreateState(c, seen) ==
  LET v == AssignedExpr(AssignedParam(Deserialised(c), seen), c)
      e == AssignedEval([q \in Quals |-> NULL], seen)
  IN /\ state' = "set"
     /\ ctxs' = ctxs + 1
     /\ value' = v
     /\ evalValue' = e
     /\ fp' = Fingerprint(v, e)
     /\ recheck' = (\E q \in Quals : kind[q] = "exec")

ScanMode == IF planAgg THEN "agg" ELSE "scan"

\* The remote scan starts from the beginning with the values v.
BeginRemote(v) ==
  /\ mode' = ScanMode
  /\ remote' \in RemoteSets(planAgg, v)
  /\ pending' = remote'

\* begin_foreign_scan: EXPLAIN alone creates the instance without starting it.
BeginForeignScan(explainOnly) ==
  /\ plan # "none" /\ exec = "idle" /\ planner = "none"
  /\ \E c \in Bindings, z \in [Quals -> {ZeroVal, NULL}] :
       /\ cur' = c
       /\ CreateState(c, SeenAtBegin(c, z))
  /\ IF explainOnly
       THEN exec' = "explain" /\ mode' = "new" /\ remote' = {} /\ pending' = {}
       ELSE exec' = "run" /\ BeginRemote(value')
  /\ UNCHANGED <<planVars, passVars>>

\* W::new fails after the memory context was created: nothing holds the
\* context yet. (When begin_scan fails the local state is dropped and the
\* execution leaves no trace, so it is no step.)
InstanceCreationError ==
  /\ plan # "none" /\ exec = "idle" /\ planner = "none"
  /\ Orphans < MaxOrphans
  /\ ctxs' = ctxs + 1
  /\ UNCHANGED <<planVars, exec, state, cur, fdwVars, passVars>>

\* The tuples an open scan can return: one row, or the one tuple computed from
\* all of them (aggregate groups are not told apart).
Tuples(P) == IF mode = "agg" THEN {P} ELSE {{r} : r \in P}

\* Postgres filters the tuple with the clause of a plain scan, not with that of
\* an aggregate scan.
Surviving(T) == IF mode = "agg" THEN T ELSE T \cap Answer(cur)

\* iter_scan returns a tuple of P, or None when P is exhausted.
Fetch(P) ==
  \/ \E T \in Tuples(P) :
       /\ P # {}
       /\ pending' = P \ T
       /\ got' = got \cup Surviving(T)
       /\ UNCHANGED done
  \/ /\ P = {}
     /\ pending' = P
     /\ done' = TRUE
     /\ UNCHANGED got

\* Faulty: the values seen at begin are taken for the final ones.
NeverRestart(v, e) == FALSE

\* The first iteration compares the parameters with those the scan was begun
\* with: an initplan has its real value only now.
MustRestart(v, e) == recheck /\ Fingerprint(v, e) # fp

\* Faulty: the flag and the fingerprint stay as they were.
RecheckedEveryRow(v, e) == UNCHANGED <<recheck, fp>>

\* It does so once.
Rechecked(v, e) ==
  /\ recheck' = FALSE
  /\ fp' = IF MustRestart(v, e) THEN Fingerprint(v, e) ELSE fp

IterateForeignScan ==
  /\ exec = "run" /\ state = "set"
  /\ value' = AssignedParam(value, cur)
  /\ evalValue' = AssignedEval(evalValue, cur)
  /\ Rechecked(value', evalValue')
  /\ IF MustRestart(value', evalValue')
       THEN /\ mode' = ScanMode
            /\ remote' \in RemoteSets(planAgg, value')
            /\ Fetch(remote')
       ELSE UNCHANGED <<mode, remote>> /\ Fetch(pending)
  /\ UNCHANGED <<planVars, exec, state, ctxs, cur>>

\* iter_scan, or the restart before it, fails: the state is dropped before the
\* error is raised.
IterateError ==
  /\ exec = "run" /\ state = "set"
  /\ DropState
  /\ ExecutionOver

\* A row of the wrong width: the error is raised with the state still in place.
IterateColumnMismatch ==
  /\ exec = "run" /\ state = "set" /\ pending # {} /\ Orphans < MaxOrphans
  /\ LoseState
  /\ ExecutionOver

\* The values of a new pass: only PARAM_EXEC can change within an execution,
\* and it may occur in a clause that is no qual.
Rebindings ==
  {c \in [Quals -> Values] :
     \A q \in Quals : kind[q] \notin {"exec", "local"} => c[q] = cur[q]}

ReScanForeignScan ==
  /\ exec = "run" /\ state = "set"
  /\ cur' \in Rebindings
  /\ value' = AssignedExpr(AssignedParam(value, cur'), cur')
  /\ evalValue' = AssignedEval(evalValue, cur')
  /\ fp' = Fingerprint(value', evalValue')
  /\ IF fp' # fp
       THEN BeginRemote(value')
       ELSE /\ UNCHANGED <<mode, remote>>
            /\ pending' = IF ReScanRewinds THEN remote ELSE pending
  /\ got' = {} /\ done' = FALSE
  /\ UNCHANGED <<planVars, exec, state, ctxs, recheck>>

ReScanError ==
  /\ exec = "run" /\ state = "set"
  /\ DropState
  /\ ExecutionOver

\* Faulty: an error of end_scan is raised before the state is dropped.
EndWithoutDrop ==
  /\ exec # "idle" /\ state = "set"
  /\ LoseState
  /\ ExecutionOver

\* end_scan is called even on an instance EXPLAIN never started, and the state
\* is dropped whether or not it fails.
EndForeignScan ==
  /\ exec # "idle" /\ state = "set"
  /\ DropState
  /\ ExecutionOver

\* An error raised by another part of the query: Postgres unwinds the executor
\* and never calls end_foreign_scan.
AbortElsewhere ==
  /\ exec # "idle" /\ state = "set" /\ Orphans < MaxOrphans
  /\ LoseState
  /\ ExecutionOver

-----------------------------------------------------------------------------
PlanStep ==
  \/ GetForeignRelSize
  \/ GetForeignPathsError
  \/ PlannerGivesUp
  \/ GetForeignUpperPaths
  \/ \E path \in {"base", "upper"} : GetForeignPlan(path)
  \/ DropPlan

ExecStep ==
  \/ \E explainOnly \in BOOLEAN : BeginForeignScan(explainOnly)
  \/ InstanceCreationError
  \/ IterateForeignScan
  \/ IterateError
  \/ IterateColumnMismatch
  \/ ReScanForeignScan
  \/ ReScanError
  \/ EndForeignScan
  \/ AbortElsewhere

Next == PlanStep \/ ExecStep

Spec == Init /\ [][Next]_vars

-----------------------------------------------------------------------------
(* Properties. *)

\* Every variable has the type of the field it models.
TypeOK ==
  /\ kind \in [Quals -> Kinds]
  /\ planner \in {"none", "base", "agg"}
  /\ plan \in {"none", "base", "upper"}
  /\ planAgg \in BOOLEAN
  /\ exec \in {"idle", "explain", "run"}
  /\ state \in {"null", "set"}
  /\ ctxs \in Nat
  /\ cur \in [Quals -> Values]
  /\ value \in [Quals -> Values \cup {Unset}]
  /\ evalValue \in [Quals -> Values]
  /\ fp \in [Quals -> Values \cup {Unset}]
  /\ recheck \in BOOLEAN
  /\ mode \in {"none", "new", "scan", "agg"}
  /\ remote \in SUBSET Rows /\ pending \in SUBSET Rows
  /\ got \in SUBSET Rows /\ done \in BOOLEAN

\* The answer of a pass is the WHERE clause's under the parameter values of
\* that pass: nothing else ever reaches the query, and nothing is missing when
\* the scan reports its end. Parameter assignment, fingerprint, restart and
\* rescan have to work together for it, over any sequence of executions of a
\* cached plan and of rescans.
AnswerCorrect ==
  /\ got \subseteq Answer(cur)
  /\ done => got = Answer(cur)

\* The remote scan that runs is of the kind of the path Postgres chose: an
\* aggregate scan has a tuple of another shape than a scan of the table, and
\* the aggregates stay in the shared planner state when the path that needs
\* them loses.
DispatchFollowsPlan ==
  exec = "run" /\ state = "set" => (mode = "agg" <=> plan = "upper")

\* No FdwState that can still be reached lost its memory context, and none is
\* deleted twice.
ContextsOwned == Orphans >= 0

\* A memory context is orphaned only when Postgres or the framework raises an
\* error past the state's owner: never by a callback that returns, nor by an
\* error an instance returns after it was created.
LeaksOnlyWhenUnwound ==
  [][Orphans' # Orphans =>
       \/ GetForeignPathsError \/ PlannerGivesUp
       \/ InstanceCreationError \/ IterateColumnMismatch \/ AbortElsewhere]_vars

\* No row the query already has in this pass is still to come: a remote scan
\* may begin anew within a pass (the first iteration does it when an initplan
\* changed a value) only before the pass delivered anything.
NoRowTwice == got \cap pending = {}

\* What a query may assume of the scan (QueryScan), with EXPLAIN and an
\* execution that was never begun as "not running".
Q == INSTANCE QueryScan WITH running <- (exec = "run")
Implements == Q!Spec
=============================================================================
