----------------------------- MODULE Dashboard -----------------------------
(***************************************************************************)
(* What HR sees of the onboardings: the dashboard (api/v1/dashboard.py)    *)
(* and the reports (services/reports/datasets.py). Both compute the same   *)
(* figures in different ways, in SQL here and in Python there.             *)
(*                                                                         *)
(* The records are those of Onboarding, for several employees, with the    *)
(* steps that change a figure; how they come about is modelled there. No   *)
(* figure takes both documents and tasks, so a behaviour has one of them.  *)
(***************************************************************************)
EXTENDS Integers, FiniteSets, FiniteSetsExt, Functions

CONSTANTS
  People,        \* employee rows
  Teams,         \* departments
  Steps,         \* the stages of FUNNEL_STAGES
  Kinds,         \* REQUIRED_DOCUMENT_TYPES
  Papers,        \* document rows, numbered as the table returns them
  Duties,        \* task rows
  DayLength,     \* moments of a day
  EndOfTime,     \* bound: the last moment
  Days,          \* the window of the trends
  Null           \* no row, no department, no date

ASSUME DashboardBounds ==
  /\ EndOfTime \in Nat /\ {DayLength, Days} \subseteq Nat \ {0}
  /\ IsFiniteSet(People) /\ IsFiniteSet(Papers) /\ IsFiniteSet(Duties) /\ IsFiniteSet(Steps)
  /\ Papers \subseteq Nat /\ {"invited", "complete"} \subseteq Steps /\ "rejected" \notin Steps

VARIABLES
  people,   \* employee -> stage, department and created_at, or Null
  papers,   \* document -> owner, type and status, or Null
  duties,   \* task -> owner, status, due date and whether mandatory, or Null
  time      \* the clock

dashVars == <<people, papers, duties, time>>

PersonRows == [stage : Steps \cup {"rejected"}, team : Teams \cup {Null}, created : 0..EndOfTime]
PaperRows == [owner : People, type : Kinds, status : {"extracted", "approved", "rejected"}]
DutyRows ==
  [owner : People, status : {"pending", "completed", "waived"},
   due : (0..(EndOfTime \div DayLength)) \cup {Null}, mandatory : BOOLEAN]

ASSUME NullIsNoRow == Null \notin PersonRows \cup PaperRows \cup DutyRows

Employees == {p \in People : people[p] # Null}
Day(t) == t \div DayLength
Today == Day(time)

DashInit ==
  /\ time = 0
  /\ people = [p \in People |-> Null]
  /\ papers = [d \in Papers |-> Null]
  /\ duties = [t \in Duties |-> Null]

\* create_employee
Hire(p, team) ==
  /\ people[p] = Null
  /\ people' = [people EXCEPT ![p] = [stage |-> "invited", team |-> team, created |-> time]]
  /\ UNCHANGED <<papers, duties, time>>

\* A stage set by the pipeline, by HR, or by a rejection.
SetStage(p, s) ==
  /\ p \in Employees /\ people[p].stage # s
  /\ people' = [people EXCEPT ![p].stage = s]
  /\ UNCHANGED <<papers, duties, time>>

\* A document is uploaded and read, or ruled on, or replaced.
SetPaper(d, row) ==
  /\ \A t \in Duties : duties[t] = Null
  /\ row.owner \in Employees /\ papers[d] # row
  /\ papers[d] # Null => row.owner = papers[d].owner /\ row.type = papers[d].type
  /\ papers' = [papers EXCEPT ![d] = row]
  /\ UNCHANGED <<people, duties, time>>

\* A task is assigned, completed, waived or reopened.
SetDuty(t, row) ==
  /\ \A d \in Papers : papers[d] = Null
  /\ row.owner \in Employees /\ duties[t] # row
  /\ duties[t] # Null => /\ row.owner = duties[t].owner
                         /\ row.due = duties[t].due /\ row.mandatory = duties[t].mandatory
  /\ duties' = [duties EXCEPT ![t] = row]
  /\ UNCHANGED <<people, papers, time>>

Pass ==
  time < EndOfTime /\ time' = time + 1 /\ UNCHANGED <<people, papers, duties>>

-----------------------------------------------------------------------------
(***************************************************************************)
(* The dashboard.                                                          *)
(***************************************************************************)
Count(S) == Cardinality(S)
In(stages) == {p \in Employees : people[p].stage \in stages}

\* summary
InProgress == Count(Employees) - Count(In({"complete"})) - Count(In({"rejected"}))

\* funnel: one count a stage, and the total of all rows, those rejected too.
FunnelTotal == SumFunction([s \in Steps \cup {"rejected"} |-> Count(In({s}))])
FunnelStages == SumFunction([s \in Steps |-> Count(In({s}))])

Team(p) == IF people[p].team = Null THEN "Unassigned" ELSE people[p].team

\* Mutant: the rejected are in progress too.
DepartmentRejected(name) ==
  LET S == {p \in Employees : Team(p) = name}
  IN  [total |-> Count(S), complete |-> Count(S \cap In({"complete"})),
       inProgress |-> Count(S \ In({"complete"}))]

\* departments: a row for every name there is.
Department(name) ==
  LET S == {p \in Employees : Team(p) = name}
  IN  [total |-> Count(S), complete |-> Count(S \cap In({"complete"})),
       inProgress |-> Count(S \ In({"complete", "rejected"}))]

DepartmentNames == {Team(p) : p \in Employees}

Assigned == {t \in Duties : duties[t] # Null}
OpenDuties == {t \in Assigned : duties[t].status = "pending"}

\* summary: what is open, and its due date before today, in SQL.
TasksOverdue == {t \in OpenDuties : duties[t].due # Null /\ duties[t].due < Today}
TasksOpen == Count(Assigned) - Count({t \in Assigned : duties[t].status \in {"completed", "waived"}})

\* trends: from this moment, Days - 1 days ago; the buckets are whole days.
WindowStart == time - (Days - 1) * DayLength

TrendPoint(day) ==
  Count({p \in Employees : /\ people[p].created >= WindowStart
                           /\ Day(people[p].created) = day
                           /\ day \in Day(WindowStart)..(Day(WindowStart) + Days - 1)})

-----------------------------------------------------------------------------
(***************************************************************************)
(* The reports: a row for each employee.                                   *)
(***************************************************************************)
PapersOf(p) == {d \in Papers : papers[d] # Null /\ papers[d].owner = p}
DutiesOf(p) == {t \in Assigned : duties[t].owner = p}

\* onboarding_status: "Missing approvals", "Mandatory tasks open".
MissingApprovals(p) ==
  Kinds \ {papers[d].type : d \in {e \in PapersOf(p) : papers[e].status = "approved"}}

MandatoryOpen(p) ==
  Count({t \in DutiesOf(p) : duties[t].mandatory /\ duties[t].status = "pending"})

\* Mutant: the last one, whatever came before.
ComplianceCellLast(p, type) ==
  LET S == {d \in PapersOf(p) : papers[d].type = type}
  IN  IF S = {} THEN "not uploaded" ELSE papers[Max(S)].status

\* document_compliance: approved beats anything else, else the last one read.
ComplianceCell(p, type) ==
  LET S == {d \in PapersOf(p) : papers[d].type = type}
  IN  IF S = {} THEN "not uploaded"
      ELSE IF \E d \in S : papers[d].status = "approved" THEN "approved"
      ELSE papers[Max(S)].status

\* task_completion: EmployeeTask.is_closed and is_overdue, in Python.
Closed(t) == duties[t].status \in {"completed", "waived"}
IsOverdue(t) == ~ (Closed(t) \/ duties[t].due = Null) /\ duties[t].due < Today

TaskRow(p) ==
  [assigned |-> Count(DutiesOf(p)),
   open |-> Count(DutiesOf(p)) - Count({t \in DutiesOf(p) : Closed(t)}),
   overdue |-> Count({t \in DutiesOf(p) : IsOverdue(t)}),
   mandatoryOpen |-> Count({t \in DutiesOf(p) : duties[t].mandatory /\ ~ Closed(t)})]

-----------------------------------------------------------------------------
DashNext ==
  \/ \E p \in People, team \in Teams \cup {Null} : Hire(p, team)
  \/ \E p \in People, s \in Steps \cup {"rejected"} : SetStage(p, s)
  \/ \E d \in Papers, row \in PaperRows : SetPaper(d, row)
  \/ \E t \in Duties, row \in DutyRows : SetDuty(t, row)
  \/ Pass

DashSpec == DashInit /\ [][DashNext]_dashVars

-----------------------------------------------------------------------------
(***************************************************************************)
(* Properties.                                                             *)
(***************************************************************************)

\* The summary, the funnel and the departments count the same people, those
\* rejected and those without a department among them.
HeadcountsAgree ==
  /\ FunnelTotal = Count(Employees)
  /\ FunnelStages + Count(In({"rejected"})) = FunnelTotal
  /\ SumFunction([n \in DepartmentNames |-> Department(n).total]) = Count(Employees)
  /\ SumFunction([n \in DepartmentNames |-> Department(n).complete]) = Count(In({"complete"}))
  /\ SumFunction([n \in DepartmentNames |-> Department(n).inProgress]) = InProgress

\* The reports' columns add up to the dashboard's figures, and two reports that
\* show the same figure agree on it.
TasksAgree ==
  /\ SumFunction([p \in Employees |-> TaskRow(p).open]) = TasksOpen
  /\ SumFunction([p \in Employees |-> TaskRow(p).overdue]) = Count(TasksOverdue)
  /\ \A p \in Employees : TaskRow(p).mandatoryOpen = MandatoryOpen(p)

\* An employee misses no approval exactly where every cell says approved.
ComplianceAgrees ==
  \A p \in Employees :
    MissingApprovals(p) = {k \in Kinds : ComplianceCell(p, k) # "approved"}

\* A point of the trends is what happened that day, except for the first day of
\* the window, of which only the last part is counted.
TrendsAreDaily ==
  \A day \in 0..Today :
    /\ day > Day(WindowStart) =>
         TrendPoint(day) = Count({p \in Employees : Day(people[p].created) = day})
    /\ day < Day(WindowStart) => TrendPoint(day) = 0

ViewsAgree == HeadcountsAgree /\ TasksAgree /\ ComplianceAgrees /\ TrendsAreDaily
=============================================================================
