----------------------------- MODULE Catalogue -----------------------------
(***************************************************************************)
(* The task catalogue (services/assignment.py, models/task.py,             *)
(* api/v1/tasks.py): templates, the rules that select them, and the tasks  *)
(* they become. An assignment reads the catalogue at one moment and writes *)
(* its tasks at a later one; so does the deletion of a template.           *)
(*                                                                         *)
(* Abstractions. There is one employee of each department, and designation *)
(* is matched as department is. A rule's number is its place in the order  *)
(* of priority. HR's removing of a single task is in Onboarding.           *)
(***************************************************************************)
EXTENDS Integers, FiniteSets

CONSTANTS
  Codes,        \* template codes
  MaxTemplates, \* bound: templates ever made
  MaxRules,     \* bound: rules ever made
  MaxEdits,     \* bound: changes of the catalogue
  Departments,  \* the employees, by department
  DueDays,      \* the due days of a template or an override
  Assigners,    \* the threads assigning tasks
  Vacant        \* no row, no value, any department, no transaction

ASSUME CatalogueBounds ==
  /\ {MaxTemplates, MaxRules, MaxEdits} \subseteq Nat
  /\ DueDays \subseteq Nat /\ Vacant \notin Nat

VARIABLES
  templates,    \* id -> its row, or Vacant
  templatesMade,
  rules,        \* id -> its row, or Vacant
  rulesMade,
  items,        \* rule -> its items: template -> overrides, Vacant to inherit
  given,        \* employee -> template id -> the task made from it
  assigning,    \* thread -> the tasks about to be inserted, or Vacant
  removing,     \* the template HR is about to delete, or Vacant
  metDeletion,  \* an assignment and a deletion of a template have overlapped
  edits

catVars == <<templates, templatesMade, rules, rulesMade, items, given, assigning,
             removing, metDeletion, edits>>

TemplateIds == 1..MaxTemplates
RuleIds == 1..MaxRules
Optional(S) == S \cup {Vacant}

Listed == {i \in TemplateIds : templates[i] # Vacant}
LiveRules == {r \in RuleIds : rules[r] # Vacant}

TemplateRows ==
  [code : Codes, due : Optional(DueDays), mandatory : BOOLEAN, active : BOOLEAN]

RuleRows == [department : Optional(Departments), active : BOOLEAN]

\* What resolve_templates makes of a template: ResolvedItem.
ResolvedItems == [rule : RuleIds, due : Optional(DueDays), mandatory : BOOLEAN]

ASSUME VacantIsNoRow == Vacant \notin TemplateRows \cup RuleRows \cup ResolvedItems

\* One item per template: uq_rule_template, and a template named twice in a
\* payload counts once.
ItemLists == UNION {[S -> [due : Optional(DueDays), mandatory : Optional(BOOLEAN)]] :
                      S \in SUBSET Listed}

CatInit ==
  /\ templates = [i \in TemplateIds |-> Vacant] /\ templatesMade = 0
  /\ rules = [r \in RuleIds |-> Vacant] /\ rulesMade = 0
  /\ items = [r \in RuleIds |-> <<>>]
  /\ given = [e \in Departments |-> <<>>]
  /\ assigning = [t \in Assigners |-> Vacant]
  /\ removing = Vacant /\ metDeletion = FALSE /\ edits = 0

-----------------------------------------------------------------------------
(***************************************************************************)
(* resolve_templates.                                                      *)
(***************************************************************************)

Matches(r, e) == rules[r].department \in {Vacant, e}

\* _active_rules, as far as they match: what preview_assignment shows for e.
Matched(e) == {r \in LiveRules : rules[r].active /\ Matches(r, e)}

\* The rules that select template i for employee e.
Selecting(e, i) == {r \in Matched(e) : i \in DOMAIN items[r] /\ templates[i].active}

Effective(r, i) ==
  [rule |-> r,
   due |-> IF items[r][i].due # Vacant THEN items[r][i].due ELSE templates[i].due,
   mandatory |-> IF items[r][i].mandatory # Vacant THEN items[r][i].mandatory
                 ELSE templates[i].mandatory]

\* Mutant: a rule without a due date takes the due date away.
StricterOrUnset(kept, new) ==
  [kept EXCEPT !.due = IF new.due = Vacant \/ kept.due = Vacant \/ new.due < kept.due
                       THEN new.due ELSE @,
               !.mandatory = @ \/ new.mandatory]

Stricter(kept, new) ==
  [kept EXCEPT !.due = IF new.due # Vacant /\ (kept.due = Vacant \/ new.due < kept.due)
                       THEN new.due ELSE @,
               !.mandatory = @ \/ new.mandatory]

\* What the rules up to the nth, one after the other, make of template i.
Merged(e, i) ==
  LET kept[n \in 0..MaxRules] ==
        IF n = 0 THEN Vacant
        ELSE IF n \notin Selecting(e, i) THEN kept[n - 1]
        ELSE IF kept[n - 1] = Vacant THEN Effective(n, i)
        ELSE Stricter(kept[n - 1], Effective(n, i))
  IN  kept

\* The templates of an employee, with their effective settings.
Resolved(e) ==
  [i \in {j \in Listed : Selecting(e, j) # {}} |-> Merged(e, i)[MaxRules]]

-----------------------------------------------------------------------------
(***************************************************************************)
(* Editing the catalogue.                                                  *)
(***************************************************************************)
Edit == edits < MaxEdits /\ edits' = edits + 1

CreateTemplate(code, due, mandatory) ==
  /\ Edit
  /\ templatesMade < MaxTemplates /\ templatesMade' = templatesMade + 1
  /\ \A i \in Listed : templates[i].code # code
  /\ templates' = [templates EXCEPT ![templatesMade'] =
       [code |-> code, due |-> due, mandatory |-> mandatory, active |-> TRUE]]
  /\ UNCHANGED <<rules, rulesMade, items, given, assigning, removing, metDeletion>>

UpdateTemplate(i, due, mandatory, active) ==
  /\ Edit /\ i \in Listed
  /\ templates' = [templates EXCEPT ![i].due = due, ![i].mandatory = mandatory,
                                    ![i].active = active]
  /\ UNCHANGED <<templatesMade, rules, rulesMade, items, given, assigning, removing,
                 metDeletion>>

\* Mutant: assigned templates are deleted too.
NoTasks(i) == FALSE

\* An assigned template is refused: "Deactivate it instead".
HasTasks(i) == \E e \in Departments : i \in DOMAIN given[e] /\ given[e][i].linked

\* delete_template looks for tasks, ...
ReadDeletion(i) ==
  /\ edits < MaxEdits /\ removing = Vacant /\ i \in Listed /\ ~ HasTasks(i)
  /\ removing' = i
  /\ metDeletion' = (metDeletion \/ \E t \in Assigners : assigning[t] # Vacant)
  /\ UNCHANGED <<templates, templatesMade, rules, rulesMade, items, given, assigning,
                 edits>>

Without(f, S) == [x \in DOMAIN f \ S |-> f[x]]

\* Mutant: ON DELETE CASCADE where it should be SET NULL.
LoseTasks(i) == [e \in Departments |-> Without(given[e], {i})]

\* The rows that point at a template that goes: ON DELETE SET NULL.
UnlinkTasks(i) ==
  [e \in Departments |->
     [j \in DOMAIN given[e] |->
        [given[e][j] EXCEPT !.linked = @ /\ j # i]]]

\* ... and deletes the row and the rule items; the tasks lose their link.
CommitDeletion ==
  /\ Edit /\ removing # Vacant /\ removing' = Vacant
  /\ templates' = [templates EXCEPT ![removing] = Vacant]
  /\ items' = [r \in RuleIds |-> Without(items[r], {removing})]
  /\ given' = UnlinkTasks(removing)
  /\ UNCHANGED <<templatesMade, rules, rulesMade, assigning, metDeletion>>

CreateRule(department, list) ==
  /\ Edit
  /\ rulesMade < MaxRules /\ rulesMade' = rulesMade + 1
  /\ rules' = [rules EXCEPT ![rulesMade'] = [department |-> department, active |-> TRUE]]
  /\ items' = [items EXCEPT ![rulesMade'] = list]
  /\ UNCHANGED <<templates, templatesMade, given, assigning, removing, metDeletion>>

\* _replace_items swaps the list when the payload has one.
UpdateRule(r, department, active, list) ==
  /\ Edit /\ r \in LiveRules
  /\ rules' = [rules EXCEPT ![r] = [department |-> department, active |-> active]]
  /\ items' = [items EXCEPT ![r] = list]
  /\ UNCHANGED <<templates, templatesMade, rulesMade, given, assigning, removing,
                 metDeletion>>

\* Its items go with it (CASCADE), its tasks stay (SET NULL).
DeleteRule(r) ==
  /\ Edit /\ r \in LiveRules
  /\ rules' = [rules EXCEPT ![r] = Vacant]
  /\ items' = [items EXCEPT ![r] = <<>>]
  /\ given' = [e \in Departments |->
                 [i \in DOMAIN given[e] |->
                    [given[e][i] EXCEPT !.rule = IF @ = r THEN Vacant ELSE @]]]
  /\ UNCHANGED <<templates, templatesMade, rulesMade, assigning, removing, metDeletion>>

-----------------------------------------------------------------------------
(***************************************************************************)
(* assign_tasks, with the transaction of its caller.                       *)
(***************************************************************************)

AlreadyAssigned(e) == {i \in DOMAIN given[e] : given[e][i].linked}

ReadAssignment(t, e) ==
  LET new == Without(Resolved(e), AlreadyAssigned(e))
  IN  /\ assigning[t] = Vacant /\ DOMAIN new # {}
      /\ assigning' = [assigning EXCEPT ![t] =
           [employee |-> e,
            tasks |-> [i \in DOMAIN new |->
                         [rule |-> new[i].rule, due |-> new[i].due,
                          mandatory |-> new[i].mandatory, linked |-> TRUE]]]]
      /\ metDeletion' = (metDeletion \/ removing # Vacant)
      /\ UNCHANGED <<templates, templatesMade, rules, rulesMade, items, given, removing,
                     edits>>

\* Mutant: no foreign keys.
TaskIsThere(a) == \E i \in DOMAIN a.tasks : i \in DOMAIN given[a.employee]

\* Foreign keys to rows that are gone, or uq_employee_template.
InsertRefused(a) ==
  \E i \in DOMAIN a.tasks :
    \/ i \notin Listed \/ a.tasks[i].rule \notin LiveRules
    \/ i \in DOMAIN given[a.employee]

Beside(f, g) ==
  [i \in DOMAIN f \cup DOMAIN g |-> IF i \in DOMAIN f THEN f[i] ELSE g[i]]

CommitAssignment(t) ==
  LET a == assigning[t]
  IN  /\ a # Vacant /\ ~ InsertRefused(a)
      /\ given' = [given EXCEPT ![a.employee] = Beside(a.tasks, @)]
      /\ assigning' = [assigning EXCEPT ![t] = Vacant]
      /\ UNCHANGED <<templates, templatesMade, rules, rulesMade, items, removing,
                     metDeletion, edits>>

\* Refused, or a crash.
AbandonAssignment(t) ==
  /\ assigning[t] # Vacant
  /\ assigning' = [assigning EXCEPT ![t] = Vacant]
  /\ UNCHANGED <<templates, templatesMade, rules, rulesMade, items, given, removing,
                 metDeletion, edits>>

-----------------------------------------------------------------------------
CatNext ==
  \/ \E c \in Codes, d \in Optional(DueDays), m \in BOOLEAN : CreateTemplate(c, d, m)
  \/ \E i \in Listed, d \in Optional(DueDays), m, a \in BOOLEAN : UpdateTemplate(i, d, m, a)
  \/ \E i \in Listed : ReadDeletion(i)
  \/ CommitDeletion
  \/ \E d \in Optional(Departments), list \in ItemLists : CreateRule(d, list)
  \/ \E r \in LiveRules, d \in Optional(Departments), a \in BOOLEAN :
       \E list \in ItemLists \cup {items[r]} : UpdateRule(r, d, a, list)
  \/ \E r \in LiveRules : DeleteRule(r)
  \/ \E t \in Assigners, e \in Departments : ReadAssignment(t, e)
  \/ \E t \in Assigners : CommitAssignment(t)
  \/ \E t \in Assigners : AbandonAssignment(t)

CatSpec == CatInit /\ [][CatNext]_catVars

-----------------------------------------------------------------------------
(***************************************************************************)
(* Properties.                                                             *)
(***************************************************************************)

\* Rows, and no link to a row that is gone.
CatTypeOK ==
  /\ \A i \in Listed : templates[i] \in TemplateRows
  /\ \A r \in LiveRules : rules[r] \in RuleRows
  /\ \A i, j \in Listed : templates[i].code = templates[j].code => i = j
  /\ \A r \in RuleIds : DOMAIN items[r] \subseteq Listed
  /\ \A r \in RuleIds \ LiveRules : DOMAIN items[r] = {}
  /\ \A e \in Departments : \A i \in DOMAIN given[e] :
       /\ given[e][i].linked => i \in Listed
       /\ given[e][i].rule \in Optional(LiveRules)

\* resolve_templates folds the rules in order; what it returns depends on no
\* order: the union of the matching rules, the earliest due date, mandatory if
\* one says so ("it does not make rules override one another"). Only the rule
\* that a task is said to come from is the first of them.
StrictestWins ==
  \A e \in Departments, i \in TemplateIds :
    LET says == {Effective(r, i) : r \in Selecting(e, i)}
        dues == {x.due : x \in says} \ {Vacant}
    IN  /\ i \in DOMAIN Resolved(e) <=> says # {}
        /\ says # {} =>
             /\ \A x \in says : Resolved(e)[i].rule <= x.rule
             /\ Resolved(e)[i].mandatory = (\E x \in says : x.mandatory)
             /\ IF dues = {} THEN Resolved(e)[i].due = Vacant
                ELSE Resolved(e)[i].due \in dues /\ \A d \in dues : Resolved(e)[i].due <= d

\* "Snapshot, so later template edits never rewrite assigned history": whatever
\* becomes of the templates and the rules, a task stays as it was assigned.
AssignedIsHistory ==
  [][\A e \in Departments : \A i \in DOMAIN given[e] :
       /\ i \in DOMAIN given'[e]
       /\ given'[e][i].due = given[e][i].due
       /\ given'[e][i].mandatory = given[e][i].mandatory]_catVars

\* A template that has been assigned stays ("Deactivate it instead so existing
\* tasks keep their history", and nobody is given its task a second time under
\* a new template of the same code), unless its deletion and an assignment
\* overlapped: delete_template asks whether there are tasks before it deletes.
TasksKeepTheirTemplate ==
  metDeletion \/ \A e \in Departments : \A i \in DOMAIN given[e] : given[e][i].linked
=============================================================================
