---------------------------- MODULE MCSurveyReports ----------------------------
(***************************************************************************)
(* Two programs of one project: p1 of an earlier year, with a published         *)
(* benchmark snapshot, and p2, whose survey s2 an upload replaces by s3.  Four   *)
(* organizations make groups above and below a threshold of two, and the         *)
(* respondents of acme make demographic cohorts above and below it.             *)
(***************************************************************************)
EXTENDS SurveyReports

CONSTANTS acme, beta, gamma, delta, p1, p2, s1, s2, s3

MCOrgs == {acme, beta, gamma, delta}
MCyear == p1 :> 1 @@ p2 :> 2
MCreplaces == s1 :> [program |-> p1, before |-> NoSurvey]
           @@ s2 :> [program |-> p2, before |-> NoSurvey]
           @@ s3 :> [program |-> p2, before |-> s2]
MCsnapshot == p1 :> [headers |-> {<<"All", "Yes">>, <<"Small", "Yes">>},
                     categories |-> {"Leadership", "Retired section"}]
           @@ p2 :> Nothing

Option(i, c, n) == [id |-> i, caption |-> c, score |-> n]
Question(type, position, category) ==
    [type |-> type, defined |-> FALSE, options |-> <<>>, category |-> category,
     supplementary |-> FALSE, owner |-> NoOrg, group |-> "none", fprefix |-> FALSE,
     excluded |-> FALSE, position |-> position]
q1 == Question("likert", 1, "Leadership")
q2 == Question("likert", 2, "Leadership")
q3 == [Question("likert", 3, "Pay") EXCEPT
         !.defined = TRUE,
         !.options = <<Option("1", "Disagree", 2), Option("2", "Strongly Agree", 5),
                       Option("3", "N/A", 6)>>]
extra == [Question("likert", 4, "none") EXCEPT !.supplementary = TRUE, !.owner = acme]
dept == [Question("demographic", 5, "none") EXCEPT
           !.defined = TRUE, !.group = "Department", !.fprefix = TRUE,
           !.options = <<Option("1", "Sales", 0), Option("2", "Office", 0)>>]
team == [Question("demographic", 7, "none") EXCEPT
           !.defined = TRUE, !.group = "Team",
           !.options = <<Option("1", "Blue", 0), Option("2", "Red", 0)>>]
shift == [Question("demographic", 6, "none") EXCEPT !.group = "Shift", !.fprefix = TRUE]
open == Question("open", 8, "none")

Likert(c) == [value |-> c, score |-> IF number[c] <= 5 THEN number[c] ELSE NoScore, agreement |-> Unset]
Text(c) == [value |-> c, score |-> NoScore, agreement |-> Unset]
Base == "q1" :> q1 @@ "q2" :> q2 @@ "q3" :> q3 @@ "extra" :> extra @@ "dept" :> dept
        @@ "shift" :> shift @@ "team" :> team @@ "open" :> open
Respondent(o, a) == [org |-> o, completed |-> TRUE, answers |-> a]
Answers(x, y, z, d) ==
    "q1" :> Likert(x) @@ "q2" :> y @@ "q3" :> Text(z) @@ "dept" :> Text(d)
others == 6 :> Respondent(beta, "q1" :> Likert("4") @@ "q3" :> Text("2"))
       @@ 7 :> Respondent(gamma, "q1" :> Likert("1"))
       @@ 8 :> Respondent(delta, "q1" :> Likert("5"))

s2rows ==
    others
    @@ 1 :> Respondent(acme, Answers("5", Likert("7"), "2", "1") @@ "shift" :> Text("Agree") @@ "team" :> Text("1") @@ "open" :> Text("Other text"))
    @@ 2 :> Respondent(acme, Answers("2", Likert("4"), "1", "1") @@ "extra" :> Likert("4") @@ "open" :> Text("Other text"))
    @@ 3 :> Respondent(acme, Answers("4", Text("Neither Agree nor Disagree"), "3", "2") @@ "team" :> Text("1") @@ "open" :> Text("Other text"))
    @@ 4 :> Respondent(acme, "q1" :> Likert("99") @@ "q2" :> Text("NA") @@ "q3" :> Text("Other text"))
    @@ 5 :> [Respondent(acme, Answers("1", Likert("1"), "1", "2")) EXCEPT !.completed = FALSE]
MCcontent ==
    s1 :> [questions |-> "q1" :> q1 @@ "q3" :> q3,
           respondents |-> 1 :> Respondent(acme, "q1" :> Likert("1") @@ "q3" :> Text("2"))
                        @@ 2 :> Respondent(acme, "q1" :> Likert("2"))]
 @@ s2 :> [questions |-> Base,
           respondents |-> s2rows]
 @@ s3 :> [questions |-> Base,
           respondents |-> 1 :> Respondent(acme, Answers("1", Likert("2"), "2", "2"))
                        @@ 2 :> Respondent(acme, Answers("3", Likert("5"), "1", "2"))]

Row(winner, category) ==
    [included |-> TRUE, winner |-> winner, category |-> category, mode |-> "client",
     access |-> {}, kiaOrder |-> FALSE, filter |-> NoCaption, sent |-> 0]
Table(row) == acme :> row @@ beta :> Row("Yes", "Large") @@ gamma :> Row("No", "Small")
              @@ delta :> Row("No", "none")
Owner == [Row("Yes", "Small") EXCEPT !.access = Keys \ {"KIA"}, !.kiaOrder = TRUE,
                                     !.filter = "dept", !.sent = 9]
Free == Row("Yes", "Small")
MCEnrollments ==
    {[p \in Programs |-> Table(Owner)],
     [p \in Programs |-> [Table(Free) EXCEPT ![gamma].included = FALSE]],
     [p \in Programs |-> Table([Owner EXCEPT !.mode = "promotional", !.filter = NoCaption])]}

NoAsk == [category |-> "Leadership", question |-> "q1", demographic |-> NoCaption,
          group |-> <<"All", "Yes">>, questions |-> {"q1", "q3"},
          ranges |-> [positive |-> <<80, 100>>, neutral |-> <<50, 79>>, negative |-> <<20, 100>>]]
MCAsks ==
    [op \in Reports |->
       CASE op \in withMeTables -> {NoAsk, [NoAsk EXCEPT !.group = <<"Small", "Yes">>],
                                    [NoAsk EXCEPT !.group = <<"All", "No">>]}
         [] op \in {"questionComparison", "workforceQuestionComparison"} ->
              {NoAsk, [NoAsk EXCEPT !.category = "Retired section"]}
         [] op = "responseDetailQuestionResult" -> {[NoAsk EXCEPT !.demographic = "dept"]}
         [] op = "responseDetailWorkbook" ->
              {NoAsk, [NoAsk EXCEPT !.demographic = "dept"], [NoAsk EXCEPT !.demographic = "shift"]}
         [] op = "openResponseAnswers" -> {[NoAsk EXCEPT !.question = "open"]}
         [] OTHER -> {NoAsk}]
MCFilters ==
    [op \in Reports |->
       IF op \in filteredReports \cup {"openResponsesWorkbook"}
       THEN {{}, {<<"dept", {"Sales"}>>}, {<<"dept", {"Office"}>>}} ELSE {{}}]
=============================================================================
