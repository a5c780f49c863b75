----------------------------- MODULE SurveyReads -----------------------------
(***************************************************************************)
(* What the reports count (compatibility-reports.module and the workbook        *)
(* writers): the rows of the survey that a request found, the cohorts the       *)
(* answers are grouped in, and the share shown for each of them.                *)
(*                                                                          *)
(* A share is <<counted on this side, counted>>; "x" is the empty sequence.      *)
(* The labels a question carries over the years stand for the question.         *)
(***************************************************************************)
EXTENDS SurveyAnswers, FiniteSetsExt, Functions, TLC

CONSTANTS
    Orgs,
    OneCategory,       \* programs that keep to the default benchmark category
    PrivacyThreshold,  \* 5 in the code
    NoOrg

ASSUME ThresholdAssumption == PrivacyThreshold \in Nat \ {0, 1}

VARIABLES
    uploaded,  \* the rows of the surveys written so far: [questions, respondents]
    deleted,   \* the surveys whose rows were deleted again
    request    \* the request that is being served

(***************************************************************************)
(* The rows a request reads.  Its queries name the survey it found; after the *)
(* retired survey is deleted they find nothing.                              *)
(***************************************************************************)
questions == IF request.questionsRead \/ request.survey \notin deleted
             THEN uploaded[request.survey].questions ELSE <<>>
respondents == IF request.survey \notin deleted
               THEN uploaded[request.survey].respondents ELSE <<>>
enrollment == request.enrolled[request.program][request.org]

derived(a) == derivedResponse(respondents[a[1]].answers[a[2]],
                              uploaded[request.survey].questions[a[2]])
Answered(P, Q) ==
    {a \in P \X Q : a[2] \in DOMAIN respondents[a[1]].answers}
captionOf(r, q) == demographicResponseCaption(derived(<<r, q>>).value,
                                              uploaded[request.survey].questions[q])
answers(r) == DOMAIN respondents[r].answers

\* organizationRespondents: the completed respondents of the organization that
\* gave, for every question of the filter, one of its captions.
completed(O) == {r \in DOMAIN respondents :
                   respondents[r].completed /\ respondents[r].org \in O}
matches(r, f) == f[2] = {} \/ (f[1] \in answers(r) /\ captionOf(r, f[1]) \in f[2])
organizationRespondents(filter) ==
    {r \in completed({request.org}) : \A f \in filter : matches(r, f)}

\* benchmarkQuestions: the Likert questions; a supplementary one belongs to one
\* organization and is read only on its behalf.
benchmarkQuestions(O) ==
    {q \in DOMAIN questions :
       /\ questions[q].type = "likert"
       /\ IF questions[q].owner # NoOrg
          THEN questions[q].supplementary /\ questions[q].owner \in O
          ELSE ~questions[q].supplementary}
openQuestions ==
    {q \in DOMAIN questions : /\ questions[q].type = "open"
                              /\ questions[q].owner \in {NoOrg, request.org}}
categoryOf(q) == IF questions[q].supplementary THEN "Supplementary Questions"
                 ELSE questions[q].category
questionsByCategory(Q) ==
    [c \in {categoryOf(q) : q \in Q} |-> {q \in Q : categoryOf(q) = c}]

isDemographicQuestion(q) ==
    LET question == uploaded[request.survey].questions[q]
    IN question.type = "demographic" /\ ~question.excluded
demographicsOf(r) == {q \in answers(r) : isDemographicQuestion(q)}

(***************************************************************************)
(* Shares.                                                                  *)
(***************************************************************************)
Hidden == <<>>                 \* "x"
Listed == <<1, 1>>             \* an entry of a list
Snapshot == <<-1, -1>>         \* a value of the published snapshot

Ratio(A, Side(_), side) ==
    LET counted == {a \in A : Side(a) # "Excluded"}
    IN <<Cardinality({a \in counted : Side(a) = side}), Cardinality(counted)>>

percentage(Q, O) ==
    LET Side(a) == percentageSide(derived(a))
    IN IF O = {} THEN <<0, 0>> ELSE Ratio(Answered(completed(O), Q), Side, "Agree")

trendDistribution(P, Q, side) ==
    LET Side(a) == trendSide(derived(a))
    IN Ratio(Answered(P, Q), Side, side)
sides == {"Agree", "Neutral", "Disagree"}

\* Of a section: the sides of all the answers to its questions.
sectionShares(P, Q) ==
    LET byCategory == questionsByCategory(Q)
    IN [k \in (DOMAIN byCategory) \X sides |-> trendDistribution(P, byCategory[k[1]], k[2])]

positivePercentage(P, q) ==
    LET Side(a) == positiveSide(derived(a))
    IN Ratio(Answered(P, {q}), Side, "Agree")

\* distribution: a row for every caption that occurs.
distribution(P, Q) ==
    LET rowed(a) == distributionRow(derived(a))
        A == {a \in Answered(P, Q) : rowed(a) # NoCaption}
    IN [c \in {rowed(a) : a \in A} |->
          <<Cardinality({a \in A : rowed(a) = c}), Cardinality(A)>>]

detailedDistribution(P, q) ==
    LET rowed(a) == detailedRow(derived(a), questions[q])
        A == {a \in Answered(P, {q}) : rowed(a) # NoCaption}
        options == {o.caption : o \in {p \in detailOptions(questions[q]) :
                                         p.caption # "N/A" /\ p.score # 6}}
        captions == options \cup {rowed(a) : a \in A}
    IN [c \in captions |-> <<Cardinality({a \in A : rowed(a) = c}), Cardinality(A)>>]

(***************************************************************************)
(* Benchmark groups: winners and others, of all sizes and of each size.        *)
(***************************************************************************)
included == {o \in Orgs : request.enrolled[request.program][o].included}
groupOrgs(size, winner) ==
    {o \in included : LET e == request.enrolled[request.program][o]
                      IN e.winner = winner /\ (size = "All" \/ e.category = size)}
sizes == {"All"} \cup
    (IF request.program \in OneCategory THEN {}
     ELSE {request.enrolled[request.program][o].category :
             o \in {p \in included : request.enrolled[request.program][p].winner # "none"}}
          \ {"none"})
groups == sizes \X {"Yes", "No"}
hidden(g) == Cardinality(groupOrgs(g[1], g[2])) < PrivacyThreshold
benchmarkGroupHidden(g) == g \notin groups \/ hidden(g)

visibleGroups == {g \in groups : ~hidden(g)}
benchmark(Q, g) == IF hidden(g) THEN Hidden ELSE percentage(Q, groupOrgs(g[1], g[2]))

\* A table with one row of shares per member of a partition of questions.
BenchmarkRows(part, G) ==
    [c \in {<<r, g[1], g[2]>> : r \in DOMAIN part, g \in G} |->
       benchmark(part[c[1]], <<c[2], c[3]>>)]
each(Q) == [q \in Q |-> {q}]
\* workforceComparison: a row per question, per section and for them all.
workforceTable ==
    LET core == benchmarkQuestions({})
    IN BenchmarkRows(each(core) @@ questionsByCategory(core) @@ ("average" :> core), groups)

(***************************************************************************)
(* Demographic columns.  An option is shown with the number of respondents     *)
(* that chose it; its agreement is grouped by the labels of "f_" questions.     *)
(***************************************************************************)
options(d) == {questions[d].options[i].caption : i \in DOMAIN questions[d].options}
chosen(P, d) == {captionOf(r, d) : r \in {s \in P : d \in answers(s)}}
optionCount(P, d, o) == Cardinality({r \in P : d \in answers(r) /\ captionOf(r, d) = o})

\* surveyDemographicQuestions, and those that somebody answered.
surveyDemographicQuestions == {d \in DOMAIN questions : isDemographicQuestion(d)}
answeredDemographics(P) == UNION {demographicsOf(r) : r \in P}

\* workbookDemographicsFromRespondents: the columns <<group, option>>.
workbookDemographics(P, D) ==
    UNION {{<<uploaded[request.survey].questions[d].group, o>> : o \in options(d) \cup chosen(P, d)} :
             d \in {e \in D : chosen(P, e) # {}}}

\* Mutant: the respondents that answered the question, whichever option they chose.
MutantCount(P, D, column) ==
    LET Q == uploaded[request.survey].questions
        having == {d \in D : Q[d].group = column[1] /\ column[2] \in options(d) \cup chosen(P, d)}
    IN IF having = {} THEN -1
       ELSE Cardinality({r \in P : answers(r) \cap having # {}})
\* demographicCount: the first question of the group that has the option.
demographicCount(P, D, column) ==
    LET Q == uploaded[request.survey].questions
        having == {d \in D : Q[d].group = column[1] /\ column[2] \in options(d) \cup chosen(P, d)}
    IN IF having = {} THEN -1
       ELSE optionCount(P, CHOOSE d \in having : \A e \in having : Q[d].position <= Q[e].position,
                        column[2])

\* Mutant: the column compared with the stored value, not with its caption.
MutantLabelled(P, column) ==
    {r \in P : \E d \in demographicsOf(r) :
                 LET question == uploaded[request.survey].questions[d]
                 IN question.fprefix /\ question.group = column[1]
                    /\ respondents[r].answers[d].value = column[2]}
\* demographicAgreementByQuestion: who is grouped under the column.
labelled(P, column) ==
    {r \in P : \E d \in demographicsOf(r) :
                 LET question == uploaded[request.survey].questions[d]
                 IN question.fprefix /\ question.group = column[1] /\ captionOf(r, d) = column[2]}

demographicValue(P, D, column, base, value) ==
    IF demographicCount(P, D, column) < PrivacyThreshold THEN Hidden
    ELSE IF labelled(P, column) = {} THEN base
    ELSE value

\* weightedAverage: weighted when every question has answers, else the plain mean.
sum(f) == FoldFunction(+, 0, f)
plainMean(share) ==
    LET full(q) == IF share[q][2] = 0 THEN 1 ELSE share[q][2]
        product(T) == FoldSet(LAMBDA q, n : full(q) * n, 1, T)
        over == [q \in DOMAIN share |-> share[q][1] * product(DOMAIN share \ {q})]
    IN <<sum(over), product(DOMAIN share) * Cardinality(DOMAIN share)>>
\* Mutant: the plain mean of the questions.
MutantAverage(share) == IF share = <<>> THEN <<0, 0>> ELSE plainMean(share)
weightedAverage(share) ==
    IF share = <<>> THEN <<0, 0>>
    ELSE IF \A q \in DOMAIN share : share[q][2] > 0
    THEN <<sum([q \in DOMAIN share |-> share[q][1]]), sum([q \in DOMAIN share |-> share[q][2]])>>
    ELSE plainMean(share)

(***************************************************************************)
(* The Workforce Feedback workbook: one row per question, an average row per    *)
(* section and one for the survey; questions without answers are left out with  *)
(* their whole section only.                                                *)
(***************************************************************************)
agreementColumn == <<"overall", "agreement">>
disagreementColumn == <<"overall", "disagreement">>
feedbackCell(P, D, q, column) ==
    LET agreement == trendDistribution(P, {q}, "Agree")
    IN CASE column = agreementColumn -> agreement
         [] column = disagreementColumn -> trendDistribution(P, {q}, "Disagree")
         [] OTHER -> demographicValue(P, D, column, agreement,
                       trendDistribution(labelled(P, column), {q}, "Agree"))

averageOf(P, Q, side) == weightedAverage([q \in Q |-> trendDistribution(P, {q}, side)])
feedbackAverage(P, D, Q, column) ==
    CASE column = agreementColumn -> averageOf(P, Q, "Agree")
      [] column = disagreementColumn -> averageOf(P, Q, "Disagree")
      [] OTHER -> demographicValue(P, D, column, averageOf(P, Q, "Agree"),
                                   averageOf(labelled(P, column), Q, "Agree"))

sectionHasResponses(P, Q) == \E q \in Q : trendDistribution(P, {q}, "Agree")[2] > 0
answeredSections(P, sections) ==
    [c \in {d \in DOMAIN sections : sectionHasResponses(P, sections[d])} |-> sections[c]]

\* buildWorkforceFeedbackRows.  Rows are named <<kind, title>>: a question, the average
\* of a section, of the survey.
averageRows(sections, listed, supplementary) ==
    LET titles == (DOMAIN sections) \cup {"SURVEY"}
                  \cup (IF supplementary = {} THEN {} ELSE {"SUPPLEMENTARY"})
    IN [r \in {<<"average", c>> : c \in titles} |->
          IF r[2] \in DOMAIN sections THEN sections[r[2]]
          ELSE IF r[2] = "SURVEY" THEN listed
          ELSE supplementary]
feedbackRows(P, D, Q, averages, columns) ==
    [k \in ({<<"question", q>> : q \in Q} \cup DOMAIN averages) \X columns |->
       IF k[1] \in DOMAIN averages THEN feedbackAverage(P, D, averages[k[1]], k[2])
       ELSE feedbackCell(P, D, k[1][2], k[2])]
buildWorkforceFeedbackRows(P, D, sections, supplementary) ==
    LET listed == UNION {sections[c] : c \in DOMAIN sections}
    IN feedbackRows(P, D, listed \cup supplementary,
                    averageRows(sections, listed, supplementary),
                    {agreementColumn, disagreementColumn} \cup workbookDemographics(P, D))
feedbackWorkbook(P, D, Q) ==
    buildWorkforceFeedbackRows(P, D,
        answeredSections(P, questionsByCategory({q \in Q : ~questions[q].supplementary})),
        {q \in Q : questions[q].supplementary /\ sectionHasResponses(P, {q})})

\* projectResponsePatternCells, classifyResponsePatternCells: the cells of a workbook by
\* colour.  Ranges are in percent; high agreement is tried first, and disagreement is
\* judged in its own column.  The window of rows 5 to 115 holds every bounded workbook.
within(share, range) ==
    /\ share # Hidden /\ range # <<>>
    /\ range[1] * share[2] <= 100 * share[1] /\ 100 * share[1] <= range[2] * share[2]
    /\ share[2] = 0 => range[1] = 0
classifyResponsePatternCells(workbook, ranges) ==
    LET agreeing == {k \in DOMAIN workbook : k[2] # disagreementColumn}
        classified == (IF ranges.positive # <<>> \/ ranges.neutral # <<>> THEN agreeing ELSE {})
                      \cup {k \in DOMAIN workbook \ agreeing : within(workbook[k], ranges.negative)}
    IN [k \in classified |->
          IF k \notin agreeing THEN "negative"
          ELSE IF within(workbook[k], ranges.positive) THEN "positive"
          ELSE IF within(workbook[k], ranges.neutral) THEN "neutral"
          ELSE "gray"]

(***************************************************************************)
(* Response Detail: a row per caption of a question, a column per cohort.       *)
(***************************************************************************)
detailCaption(r, q) == reportResponseCaption(derived(<<r, q>>).value, questions[q])
detailShare(P, q, caption) ==
    LET counted == {r \in P : q \in answers(r)}
    IN <<Cardinality({r \in counted : detailCaption(r, q) = caption}), Cardinality(counted)>>
detailCaptions(q) == {o.caption : o \in detailOptions(questions[q])}

\* buildResponseDetailTable: the cohorts are those of one question's captions.
buildResponseDetailTable(P, q, f) ==
    LET cohort(o) == {r \in P : f \in answers(r) /\ captionOf(r, f) = o}
        small(o) == Cardinality(cohort(o)) < PrivacyThreshold
        total(R) == LET n == Cardinality({r \in R : q \in answers(r)}) IN <<n, n>>
    IN [k \in (detailCaptions(q) \cup {"Question Total"}) \X chosen(P, f) |->
          IF small(k[2]) THEN Hidden
          ELSE IF k[1] \in detailCaptions(q) THEN detailShare(cohort(k[2]), q, k[1])
          ELSE total(cohort(k[2]))]

\* createResponseDetailWorkbook: everybody's column, and one per demographic option.
detailWorkbook(P, Q) ==
    LET D == answeredDemographics(P)
        everybody == <<"overall", "total">>
        population(column) ==
            {r \in P : \E d \in demographicsOf(r) :
                         questions[d].group = column[1] /\ captionOf(r, d) = column[2]}
        rows == UNION {{<<q, o>> : o \in detailCaptions(q)} : q \in Q}
    IN [k \in rows \X ({everybody} \cup workbookDemographics(P, D)) |->
          IF k[2] = everybody THEN detailShare(P, k[1][1], k[1][2])
          ELSE IF demographicCount(P, D, k[2]) < PrivacyThreshold THEN Hidden
          ELSE detailShare(population(k[2]), k[1][1], k[1][2])]

(***************************************************************************)
(* Verbatims, sorted by a purchased demographic: answers whose category has     *)
(* fewer respondents than the threshold are left out.                          *)
(***************************************************************************)
sortingCategory(r, s) == IF s \in answers(r) THEN captionOf(r, s) ELSE NoCaption
eligibleSortedRespondents(P, s) ==
    {r \in P : Cardinality({p \in P : sortingCategory(p, s) = sortingCategory(r, s)})
                  >= PrivacyThreshold}
verbatims(P, Q, Category(_)) ==
    [k \in {<<a[2], a[1], Category(a[1])>> : a \in Answered(P, Q)} |-> Listed]
=============================================================================
