---------------------------- MODULE SurveyReports ----------------------------
(***************************************************************************)
(* The reports a client reads (CompatibilityReportsService and its controller): *)
(* a request is authorised against the enrollments as they are when it arrives  *)
(* and keeps the survey it found; it counts the answers of that survey in        *)
(* queries that run later, while an EFS upload may publish another survey and    *)
(* delete the retired one, and an administrator may change the enrollments.      *)
(***************************************************************************)
EXTENDS SurveyReads

CONSTANTS
    Programs, Surveys,
    content,           \* the rows of a survey: [questions, respondents]
    year,              \* of a program
    replaces,          \* [program, before] of a survey: what its upload replaces
    snapshot,          \* published workforce benchmark of a program: [headers, categories]
    Enrollments,       \* the enrollment tables that occur
    Clients,           \* organizations whose reports are asked for
    Filters, Asks,     \* [Reports -> what the requests of a report may name]
    NoSurvey, Idle, Nothing

VARIABLES
    active,    \* the survey the selector of a program finds
    enrolled,  \* OrganizationProgram rows: included, winner, category, mode, access, ...
    shown      \* the reply to the last request; "counted": its heading is not written yet

vars == <<active, uploaded, deleted, enrolled, request, shown>>

(***************************************************************************)
(* Who may read what.                                                       *)
(***************************************************************************)
\* The handlers: whether they accept isDummy, whether a promotional session may
\* preview them, and the entitlement they ask for.
Handler(dummy, promo, key) == [dummy |-> dummy, promo |-> promo, key |-> key]
Handlers ==
    [op \in {"employeeComparison", "sectionComparison", "questionComparison",
             "workforceQuestionComparison", "sectionComparisonWithMe",
             "questionComparisonWithMe"} |-> Handler(FALSE, FALSE, "WBC")]
 @@ [op \in {"workforceComparison", "benchmarkWorkbook"} |-> Handler(TRUE, TRUE, "WBC")]
 @@ [op \in {"openResponseQuestions", "openResponseAnswers", "openResponsesWorkbook"} |->
        Handler(TRUE, TRUE, "EV")]
 @@ [op \in {"responseBreakdownBySection", "responseBreakdown", "meanScoreBySection",
             "meanScoreByQuestions", "annualResponseRate", "annualCategories",
             "annualDetails", "annualTrendWorkbook"} |-> Handler(FALSE, FALSE, "WFR")]
 @@ [op \in {"surveyFilters", "surveyResponseRate", "averageAgreement",
             "topBottomStatements"} |-> Handler(TRUE, TRUE, "none")]
 @@ [op \in {"surveyInformation", "winnersList", "unavailableAnnualTrend"} |->
        Handler(FALSE, FALSE, "none")]
 @@ [op \in {"heatMap", "feedbackPreview", "demographicResponseCounts"} |->
        Handler(TRUE, TRUE, "WFR")]
 @@ [op \in {"responseDetailSections", "responseDetailQuestionResult"} |->
        Handler(TRUE, TRUE, "RD")]
 @@ [op \in {"responseDetailWorkbook"} |-> Handler(FALSE, FALSE, "RD")]
 @@ [op \in {"detailedFeedback"} |-> Handler(FALSE, TRUE, "RD")]
 @@ [op \in {"keyImpactAnalysis"} |-> Handler(TRUE, TRUE, "KIA")]
 @@ [op \in {"customReports"} |-> Handler(FALSE, FALSE, "CR")]
Reports == DOMAIN Handlers
annual == {"annualResponseRate", "annualCategories", "annualDetails", "annualTrendWorkbook"}
filteredReports == {"heatMap", "detailedFeedback", "responseBreakdownBySection",
                    "responseBreakdown", "openResponseAnswers"}

\* A survey has finitely many questions and respondents, who answer questions of it
\* (foreign keys); a question has a position and finitely many options, and no label of
\* one is the name the columns of everybody have here.  A handler without filters is asked
\* for everybody.  The workbook of the open responses has a filter in its request and
\* refuses to use it.
ASSUME ReportsAssumption ==
    /\ IsFiniteSet(Orgs)
    /\ \A p \in Programs : year[p] \in Nat
    /\ \A s \in Surveys :
         /\ IsFiniteSet(DOMAIN content[s].respondents)
         /\ \A p \in DOMAIN content[s].respondents :
              DOMAIN content[s].respondents[p].answers \subseteq DOMAIN content[s].questions
         /\ IsFiniteSet(DOMAIN content[s].questions)
         /\ \A q \in DOMAIN content[s].questions :
              /\ content[s].questions[q].position \in Nat
              /\ IsFiniteSet(DOMAIN content[s].questions[q].options)
              /\ content[s].questions[q].group # "overall"
    /\ \A op \in Reports \ (filteredReports \cup {"openResponsesWorkbook"}) : Filters[op] = {{}}

Keys == {"WBC", "EV", "WFR", "RD", "KIA", "CR", "SEV"}

clientDemoAccess == {"EV", "RD", "KIA"}
promotionalPreviewAccess == {"WFR", "EV", "WBC", "BBP", "RD", "KIA"}

\* requiresDemo: whether the entitlement "key" lets this request through.
requiresDemo(role, e, dummy, key) ==
    LET sample == /\ dummy
                  /\ \/ e.mode = "promotional" /\ key \in promotionalPreviewAccess
                     \/ e.mode = "client" /\ key \in clientDemoAccess
    IN \/ role = "admin"
       \/ /\ ~(dummy /\ e.mode = "client" /\ key \notin clientDemoAccess)
          /\ \/ sample
             \/ key = "EV"
             \/ key \in e.access
             \/ key = "KIA" /\ e.kiaOrder

\* Mutant: a promotional session may preview a report without asking for its sample.
MutantContext(h, e, dummy) ==
    /\ e.included
    /\ e.mode = "promotional" => h.promo
\* baseContext: the enrollment is included, and a promotional session asks for
\* a sample of a report that has one.
baseContext(h, e, dummy) ==
    /\ e.included
    /\ e.mode = "promotional" => dummy /\ h.promo

Authorized(h, role, e, dummy) ==
    /\ baseContext(h, e, dummy)
    /\ CASE h.key = "none" -> TRUE
         [] h.key = "CR" -> role = "admin" \/ "CR" \in e.access
         [] OTHER -> requiresDemo(role, e, dummy, h.key)

Init ==
    /\ active \in [Programs -> Surveys \cup {NoSurvey}]
    /\ \A p \in Programs :
         active[p] \in {s \in Surveys : replaces[s] = [program |-> p, before |-> NoSurvey]}
                       \cup {NoSurvey}
    /\ uploaded = [s \in {active[p] : p \in Programs} \ {NoSurvey} |-> content[s]]
    /\ deleted = {}
    /\ enrolled \in Enrollments
    /\ request = Idle
    /\ shown = Nothing

(***************************************************************************)
(* Requests arrive.                                                         *)
(***************************************************************************)
Answer(asked, status, cells) ==
    shown' = [asked |-> asked, status |-> status, cells |-> cells, heading |-> asked.survey]

\* annualContexts: the last earlier program of the project the organization is in.
earlier(program, org) == {p \in Programs : enrolled[p][org].included /\ year[p] < year[program]}
previousProgram(program, org) ==
    CHOOSE p \in earlier(program, org) : \A o \in earlier(program, org) : year[o] <= year[p]

\* The queries of context() are taken together here: the program, the enrollment, the
\* enrollments of the program and the survey, and for annual trends both contexts.
Start(op, role, program, org, dummy, filter, ask) ==
    LET h == Handlers[op]
        compares == op \in annual /\ earlier(program, org) # {}
        before == previousProgram(program, org)
        asked == [op |-> op, role |-> role, program |-> program, org |-> org,
                  dummy |-> dummy, filter |-> filter, ask |-> ask,
                  survey |-> active[program],
                  previous |-> IF compares THEN active[before] ELSE NoSurvey,
                  compares |-> compares, enrolled |-> enrolled, questionsRead |-> FALSE]
    IN /\ request = Idle /\ shown = Nothing
       /\ dummy => h.dummy
       /\ IF \/ ~Authorized(h, role, enrolled[program][org], dummy)
             \/ compares /\ ~baseContext(h, enrolled[before][org], dummy)
          THEN Answer(asked, "denied", <<>>) /\ UNCHANGED request
          ELSE IF /\ op # "customReports"
                  /\ \/ active[program] = NoSurvey
                     \/ compares /\ active[before] = NoSurvey
          THEN Answer(asked, "notFound", <<>>) /\ UNCHANGED request
          ELSE request' = asked /\ UNCHANGED shown
       /\ UNCHANGED <<active, uploaded, deleted, enrolled>>

\* The first query of a request reads its questions; the rest may come later.
ReadQuestions ==
    /\ request # Idle /\ ~request.questionsRead
    /\ {request.survey, request.previous} \cap deleted = {}
    /\ request' = [request EXCEPT !.questionsRead = TRUE]
    /\ UNCHANGED <<active, uploaded, deleted, enrolled, shown>>

Serving(ops) == request # Idle /\ request.op \in ops
Reply(status, cells) ==
    /\ Answer(request, status, cells)
    /\ request' = Idle
    /\ UNCHANGED <<active, uploaded, deleted, enrolled>>

\* The reply is on its way to the client.
Sent ==
    /\ shown # Nothing /\ shown.status # "counted"
    /\ shown' = Nothing
    /\ UNCHANGED <<active, uploaded, deleted, enrolled, request>>

\* A sample has no row of the database in it.
Sample ==
    /\ request # Idle /\ request.dummy /\ request.op # "openResponsesWorkbook"
    /\ Reply("sample", <<>>)
Reads(op) == Serving({op}) /\ ~request.dummy
Data(cells) == Reply("data", cells)

\* Two workbooks are counted before their heading is written, and reportWorkbookMetadata
\* asks a second context() for it: the enrollment and the survey as they are by then.
Figures(cells) == Reply("counted", cells)
reportWorkbookMetadata ==
    LET r == shown.asked
        found == active[r.program]
        let == baseContext(Handler(FALSE, FALSE, "none"), enrolled[r.program][r.org], FALSE)
    IN /\ shown # Nothing /\ shown.status = "counted"
       /\ IF ~let THEN Answer(r, "denied", <<>>)
          ELSE IF found = NoSurvey THEN Answer(r, "notFound", <<>>)
          ELSE shown' = [shown EXCEPT !.status = "data", !.heading = found]
       /\ UNCHANGED <<active, uploaded, deleted, enrolled, request>>

(***************************************************************************)
(* Benchmarks: the agreement of groups of organizations.                     *)
(***************************************************************************)
core == benchmarkQuestions({})
own == benchmarkQuestions({request.org})
ofCategory == {q \in core : categoryOf(q) = request.ask.category}
everything == "average" :> core
me == {request.org}

employeeComparison ==
    /\ Reads("employeeComparison")
    /\ Data(BenchmarkRows(everything, visibleGroups))

\* workforceComparison, and benchmarkWorkbook, which writes the same values.
workforceComparison == Reads("workforceComparison") /\ Data(workforceTable)
benchmarkWorkbook == Reads("benchmarkWorkbook") /\ Figures(workforceTable)

sectionComparison ==
    /\ Reads("sectionComparison")
    /\ Data(BenchmarkRows(questionsByCategory(core), visibleGroups))

questionComparison ==
    /\ Reads("questionComparison")
    /\ IF ofCategory = {} THEN Reply("notFound", <<>>)
       ELSE Data(BenchmarkRows(each(ofCategory), visibleGroups))

workforceQuestionComparison ==
    /\ Reads("workforceQuestionComparison")
    /\ IF ofCategory = {} THEN Reply("notFound", <<>>)
       ELSE Data(BenchmarkRows(each(ofCategory), groups))

\* "WithMe": a column of the organization itself beside one group, which comes from
\* the published snapshot of the program when there is one.
publishedWorkforce == snapshot[request.program]
withMe(part, Other(_)) ==
    [k \in (DOMAIN part) \X {"currentOrg", "otherOrg"} |->
       IF k[2] = "currentOrg" THEN percentage(part[k[1]], me) ELSE Other(k[1])]

sectionComparisonWithMe ==
    LET group == request.ask.group
        byCategory == questionsByCategory(core)
        categories == publishedWorkforce.categories
        chosenQuestions == [c \in categories |->
                              IF c \in DOMAIN byCategory THEN byCategory[c] ELSE {}]
        Published(c) == IF benchmarkGroupHidden(group) THEN Hidden ELSE Snapshot
        Counted(c) == benchmark(byCategory[c], group)
    IN /\ Reads("sectionComparisonWithMe")
       /\ IF publishedWorkforce # Nothing
          THEN IF group \notin publishedWorkforce.headers THEN Reply("invalid", <<>>)
               ELSE Data(withMe(chosenQuestions, Published))
          ELSE IF group \notin groups THEN Reply("invalid", <<>>)
               ELSE Data(withMe(byCategory, Counted))

questionComparisonWithMe ==
    LET group == request.ask.group
        listed == request.ask.category \in publishedWorkforce.categories
        Published(q) == IF benchmarkGroupHidden(group) THEN Hidden ELSE Snapshot
        Counted(q) == benchmark({q}, group)
    IN /\ Reads("questionComparisonWithMe")
       /\ IF publishedWorkforce # Nothing
          THEN IF group \notin publishedWorkforce.headers THEN Reply("invalid", <<>>)
               ELSE IF ~listed \/ ofCategory = {} THEN Reply("notFound", <<>>)
               ELSE Data(withMe(each(ofCategory), Published))
          ELSE IF ofCategory = {} THEN Reply("notFound", <<>>)
               ELSE IF group \notin groups THEN Reply("invalid", <<>>)
               ELSE Data(withMe(each(ofCategory), Counted))

winnersList ==
    /\ Reads("winnersList")
    /\ Data([g \in visibleGroups |-> Listed])

(***************************************************************************)
(* Breakdowns: the answers of the organization's own respondents.             *)
(***************************************************************************)
everybody == organizationRespondents({})
filtered == organizationRespondents(request.filter)
few(P) == Cardinality(P) < PrivacyThreshold
confidential == request.filter # {} /\ few(filtered)

\* resolveQuestions: the questions of the list that the report has.
resolved(Q) == Q \cap request.ask.questions

\* responseBreakdownBySection; meanScoreBySection is the same without a filter.
responseBreakdownBySection ==
    /\ Reads("responseBreakdownBySection")
    /\ IF confidential THEN Reply("confidential", <<>>)
       ELSE Data(sectionShares(filtered, own))
meanScoreBySection ==
    /\ Reads("meanScoreBySection")
    /\ Data(sectionShares(everybody, own))

responseBreakdown ==
    /\ Reads("responseBreakdown")
    /\ IF resolved(own) = {} THEN Reply("notFound", <<>>)
       ELSE IF confidential THEN Reply("confidential", <<>>)
       ELSE LET row(q) == detailedDistribution(filtered, q)
            IN Data([q \in resolved(own) |-> row(q)])

meanScoreByQuestions ==
    LET Q == resolved(core)
        scored(q) == {a \in Answered(everybody, {q}) : derived(a).score # NoScore}
        score(a) == derived(a).score
        mean(q) == <<MapThenSumSet(score, scored(q)), Cardinality(scored(q))>>
    IN /\ Reads("meanScoreByQuestions")
       /\ IF Q = {} THEN Reply("notFound", <<>>)
          ELSE Data([q \in Q |-> distribution(everybody, {q}) @@ ("mean" :> mean(q))])

surveyFilters ==
    LET D == answeredDemographics(everybody)
    IN /\ Reads("surveyFilters")
       /\ Data([d \in D |-> [o \in options(d) \cup chosen(everybody, d) |-> Listed]])

demographicResponseCounts ==
    LET D == answeredDemographics(everybody)
        count(d, o) == optionCount(everybody, d, o)
    IN /\ Reads("demographicResponseCounts")
       /\ Data([d \in D |-> [o \in options(d) \cup chosen(everybody, d) |->
                               <<count(d, o), Cardinality(everybody)>>]])

(***************************************************************************)
(* The dashboard.                                                           *)
(***************************************************************************)
sent == {r \in DOMAIN respondents : respondents[r].org = request.org}

surveyResponseRate ==
    /\ Reads("surveyResponseRate")
    /\ Data("rate" :> <<Cardinality(everybody),
                       IF enrollment.sent # 0 THEN enrollment.sent ELSE Cardinality(sent)>>)

surveyInformation ==
    /\ Reads("surveyInformation")
    /\ Data(distribution(everybody, core) @@ ("rate" :> <<Cardinality(everybody), Cardinality(sent)>>))

averageAgreement ==
    LET negative(a) == negativeSide(derived(a))
    IN /\ Reads("averageAgreement")
       /\ Data(("agreement" :> percentage(core, me))
               @@ ("disagreement" :> Ratio(Answered(everybody, core), negative, "Disagree")))

\* topBottomStatements: three of each, in the order of the survey when they tie.
worth(share) == IF share[2] = 0 THEN <<0, 1>> ELSE share
above(s, t) == worth(s)[1] * worth(t)[2] > worth(t)[1] * worth(s)[2]
below(s, t) == above(t, s)
three(share, better(_, _)) ==
    {q \in DOMAIN share :
       Cardinality({p \in DOMAIN share :
                      \/ better(share[p], share[q])
                      \/ /\ ~better(share[q], share[p])
                         /\ questions[p].position < questions[q].position}) < 3}
statements(share) ==
    [k \in ({"top"} \X three(share, above)) \cup ({"bottom"} \X three(share, below)) |-> share[k[2]]]
topBottomStatements ==
    /\ Reads("topBottomStatements")
    /\ Data(IF few(everybody) THEN <<>>
            ELSE statements([q \in core |-> positivePercentage(everybody, q)]))

unavailableAnnualTrend == Reads("unavailableAnnualTrend") /\ Data(<<>>)

(***************************************************************************)
(* Workbooks of one survey.                                                 *)
(***************************************************************************)
demographicQuestions == surveyDemographicQuestions \cup answeredDemographics(filtered)
feedback ==
    feedbackWorkbook(filtered, demographicQuestions, IF confidential THEN {} ELSE own)
heatMap == Reads("heatMap") /\ Data(feedback)
detailedFeedback == Reads("detailedFeedback") /\ Data(feedback)

\* The preview of the response patterns takes no filter, and the questions of no
\* organization in particular.
feedbackPreview ==
    LET D == surveyDemographicQuestions \cup answeredDemographics(everybody)
    IN /\ Reads("feedbackPreview")
       /\ Data(classifyResponsePatternCells(feedbackWorkbook(everybody, D, core),
                                            request.ask.ranges))

responseDetailSections ==
    /\ Reads("responseDetailSections")
    /\ Data(IF few(everybody) THEN <<>> ELSE [q \in core |-> Listed])

responseDetailQuestionResult ==
    LET q == request.ask.question
        f == request.ask.demographic
    IN /\ Reads("responseDetailQuestionResult")
       /\ IF ~{q, f} \subseteq DOMAIN questions THEN Reply("notFound", <<>>)
          ELSE IF few(everybody) THEN Reply("data", <<>>)
          ELSE Data(buildResponseDetailTable(everybody, q, f))

\* A selected demographic keeps its own columns; the workbook has none for one that
\* nobody answered.
responseDetailWorkbook ==
    LET d == request.ask.demographic
        workbook == detailWorkbook(everybody, core)
        kept == {k \in DOMAIN workbook : k[2][1] \in {"overall", questions[d].group}}
    IN /\ Reads("responseDetailWorkbook")
       /\ IF few(everybody) THEN Reply("confidential", <<>>)
          ELSE IF d = NoCaption THEN Figures(workbook)
          ELSE IF d \notin surveyDemographicQuestions THEN Reply("notFound", <<>>)
          ELSE IF \A k \in DOMAIN workbook : k[2][1] # questions[d].group THEN Reply("error", <<>>)
          ELSE Figures([k \in kept |-> workbook[k]])

(***************************************************************************)
(* Verbatims.  The organization may have bought their sorting by one question.  *)
(***************************************************************************)
sorting == enrollment.filter
sortingOwned == "SEV" \in enrollment.access
mayBeSorted == requiresDemo(request.role, enrollment, request.dummy, "SEV")
bySorting(r) == IF sorting = NoCaption THEN NoCaption ELSE sortingCategory(r, sorting)

openResponseQuestions ==
    /\ Reads("openResponseQuestions")
    /\ Data([q \in openQuestions |-> Listed])

openResponseAnswers ==
    LET q == request.ask.question
        visible == IF sorting = NoCaption THEN filtered
                   ELSE eligibleSortedRespondents(filtered, sorting)
    IN /\ Reads("openResponseAnswers")
       /\ IF sortingOwned /\ sorting = NoCaption THEN Reply("unavailable", <<>>)
          ELSE IF sorting # NoCaption /\ ~mayBeSorted THEN Reply("denied", <<>>)
          ELSE IF q \notin openQuestions THEN Reply("notFound", <<>>)
          ELSE IF sorting # NoCaption /\ sorting \notin DOMAIN questions \ {q}
          THEN Reply("unavailable", <<>>)
          ELSE IF sorting # NoCaption /\ request.filter # {} THEN Reply("unavailable", <<>>)
          ELSE IF few(filtered) THEN Reply("confidential", <<>>)
          ELSE Data(verbatims(visible, {q}, bySorting))

openResponsesWorkbook ==
    LET requested == request.ask.demographic
        visible == IF sorting = NoCaption THEN everybody
                   ELSE eligibleSortedRespondents(everybody, sorting)
    IN /\ Serving({"openResponsesWorkbook"})
       /\ IF ~request.dummy /\ sortingOwned /\ sorting = NoCaption THEN Reply("unavailable", <<>>)
          ELSE IF sorting # NoCaption /\ ~mayBeSorted THEN Reply("denied", <<>>)
          ELSE IF requested # NoCaption /\ sorting = NoCaption THEN Reply("unavailable", <<>>)
          ELSE IF request.filter # {} THEN Reply("unavailable", <<>>)
          ELSE IF request.dummy THEN Reply("sample", <<>>)
          ELSE IF sorting # NoCaption /\ sorting \notin DOMAIN questions
          THEN Reply("unavailable", <<>>)
          ELSE IF requested \notin {NoCaption, sorting} THEN Reply("unavailable", <<>>)
          ELSE Data(verbatims(visible, openQuestions \ {sorting}, bySorting))

(***************************************************************************)
(* Annual trends: the survey of the request beside that of an earlier program.  *)
(***************************************************************************)
\* Mutant: the earlier year read from the survey of the request.
MutantLastYear == request
lastYear == [request EXCEPT !.survey = request.previous]
Last == INSTANCE SurveyReads WITH request <- lastYear
lastCore == Last!benchmarkQuestions({})
lastEverybody == Last!organizationRespondents({})
Trends(op, cells) == Reads(op) /\ Data(IF request.compares THEN cells ELSE <<>>)

annualResponseRate ==
    Trends("annualResponseRate",
           [y \in {"current", "previous"} |->
              IF y = "current" THEN percentage(core, me) ELSE Last!percentage(lastCore, me)])

annualCategories ==
    LET now == questionsByCategory(core)
        then == Last!questionsByCategory(lastCore)
        share(k) == IF k[2] = "current"
                    THEN IF k[1] \in DOMAIN now THEN trendDistribution(everybody, now[k[1]], k[3])
                         ELSE <<0, 0>>
                    ELSE IF k[1] \in DOMAIN then
                         THEN Last!trendDistribution(lastEverybody, then[k[1]], k[3])
                         ELSE <<0, 0>>
    IN Trends("annualCategories",
              [k \in (DOMAIN now \cup DOMAIN then) \X {"current", "previous"} \X sides |-> share(k)])

\* Questions are compared by their data label.
compared(Q, R) ==
    [k \in (Q \X {"current"} \X sides) \cup (R \X {"previous"} \X sides) |->
       IF k[2] = "current" THEN trendDistribution(everybody, {k[1]}, k[3])
       ELSE Last!trendDistribution(lastEverybody, {k[1]}, k[3])]

selectCategoryQuestions(Q) ==
    IF Q \cap request.ask.questions = {} THEN Q ELSE Q \cap request.ask.questions

annualDetails ==
    LET now == selectCategoryQuestions(ofCategory)
        then == selectCategoryQuestions({q \in lastCore : Last!categoryOf(q) = request.ask.category})
    IN Trends("annualDetails", compared(now, now \cap then))

\* A section lists the questions it has now, or those it had; "*" stands for a question
\* that one of the years lacks.
annualTrendWorkbook ==
    LET now == questionsByCategory(core)
        then == IF request.compares THEN Last!questionsByCategory(lastCore) ELSE <<>>
        was(c) == IF c \in DOMAIN then THEN then[c] ELSE {}
        old == UNION {IF c \in DOMAIN now THEN was(c) \cap now[c] ELSE was(c) :
                        c \in DOMAIN now \cup DOMAIN then}
        rows == compared(core, old)
    IN /\ Reads("annualTrendWorkbook")
       /\ Data([k \in {j \in DOMAIN rows : j[3] # "Neutral"} |-> rows[k]])

(***************************************************************************)
(* Reports that were uploaded.                                              *)
(***************************************************************************)
customReports == Reads("customReports") /\ Data(<<>>)
keyImpactAnalysis == Reads("keyImpactAnalysis") /\ Data(<<>>)

(***************************************************************************)
(* What changes under a request.                                            *)
(***************************************************************************)
\* HistoricalImportService.reuploadProgramEfs, as SurveyPublication abstracts it.
Publish(s) ==
    /\ s \notin DOMAIN uploaded
    /\ active[replaces[s].program] = replaces[s].before
    /\ active' = [active EXCEPT ![replaces[s].program] = s]
    /\ uploaded' = [t \in (DOMAIN uploaded) \cup {s} |-> content[t]]
    /\ UNCHANGED <<deleted, enrolled, request, shown>>
\* Mutant: the survey in use is not spared.
MutantDelete(s) ==
    /\ s \in DOMAIN uploaded \ deleted
    /\ deleted' = deleted \cup {s}
    /\ UNCHANGED <<active, uploaded, enrolled, request, shown>>
DeleteRetired(s) ==
    /\ s \in DOMAIN uploaded \ deleted /\ s \notin {active[p] : p \in Programs}
    /\ deleted' = deleted \cup {s}
    /\ UNCHANGED <<active, uploaded, enrolled, request, shown>>
WriteEnrollments ==
    /\ enrolled' \in Enrollments /\ enrolled' # enrolled
    /\ UNCHANGED <<active, uploaded, deleted, request, shown>>

benchmarks ==
    \/ employeeComparison \/ workforceComparison \/ benchmarkWorkbook \/ sectionComparison
    \/ questionComparison \/ workforceQuestionComparison \/ sectionComparisonWithMe
    \/ questionComparisonWithMe \/ winnersList
breakdowns ==
    \/ responseBreakdownBySection \/ meanScoreBySection \/ responseBreakdown
    \/ meanScoreByQuestions \/ surveyFilters \/ demographicResponseCounts
    \/ surveyResponseRate \/ surveyInformation \/ averageAgreement
    \/ topBottomStatements \/ unavailableAnnualTrend
workbooks ==
    \/ heatMap \/ detailedFeedback \/ feedbackPreview \/ responseDetailSections
    \/ responseDetailQuestionResult \/ responseDetailWorkbook \/ openResponseQuestions
    \/ openResponseAnswers \/ openResponsesWorkbook
trends ==
    \/ annualResponseRate \/ annualCategories \/ annualDetails \/ annualTrendWorkbook
    \/ customReports \/ keyImpactAnalysis

Next ==
    \/ \E op \in Reports, role \in {"admin", "client"}, org \in Clients, dummy \in BOOLEAN :
         \E program \in Programs, filter \in Filters[op], ask \in Asks[op] :
           Start(op, role, program, org, dummy, filter, ask)
    \/ ReadQuestions \/ Sent \/ Sample \/ reportWorkbookMetadata
    \/ benchmarks \/ breakdowns \/ workbooks \/ trends
    \/ \E s \in Surveys : Publish(s) \/ DeleteRetired(s)
    \/ WriteEnrollments

Spec == Init /\ [][Next]_vars

(***************************************************************************)
(* Properties.                                                              *)
(***************************************************************************)
TypeOK ==
    /\ DOMAIN uploaded \subseteq Surveys
    /\ \A p \in Programs : active[p] \in (DOMAIN uploaded \ deleted) \cup {NoSurvey}
    /\ enrolled \in Enrollments
    /\ request # Idle => request.op \in Reports /\ shown = Nothing

\* What a request r reads of the rows that were uploaded, whichever were deleted since.
Whole(r) == INSTANCE SurveyReads WITH uploaded <- content, deleted <- {}, request <- r
lastAsked == [shown.asked EXCEPT !.survey = shown.asked.previous]

Shows(ops) == shown # Nothing /\ shown.status = "data" /\ shown.asked.op \in ops
people(r) == Whole(r)!organizationRespondents(r.filter)
demographic(column) == column[1] # "overall"
Members(r, column) ==
    {p \in people(r) : \E d \in Whole(r)!demographicsOf(p) :
                         /\ Whole(r)!questions[d].group = column[1]
                         /\ Whole(r)!captionOf(p, d) = column[2]}
\* The demographic questions under one group heading, and the respondents that a column
\* of a feedback workbook is made of: those grouped under its label by the questions whose
\* data label begins with "f_", or everybody when there is nobody.
Grouped(r, group) ==
    {d \in Whole(r)!surveyDemographicQuestions : Whole(r)!questions[d].group = group}
allPrefixed(r, group) == \A d \in Grouped(r, group) : Whole(r)!questions[d].fprefix
nonePrefixed(r, group) == \A d \in Grouped(r, group) : ~Whole(r)!questions[d].fprefix
Behind(r, column) ==
    IF demographic(column) /\ Whole(r)!labelled(people(r), column) # {}
    THEN Whole(r)!labelled(people(r), column) ELSE people(r)
Choosing(r, q, caption) ==
    {p \in people(r) : q \in Whole(r)!answers(p) /\ Whole(r)!captionOf(p, q) = caption}

benchmarkTables == {"employeeComparison", "workforceComparison", "benchmarkWorkbook",
                    "sectionComparison", "questionComparison", "workforceQuestionComparison"}
withMeTables == {"sectionComparisonWithMe", "questionComparisonWithMe"}
feedbackBooks == {"heatMap", "detailedFeedback"}
verbatimBooks == {"openResponseAnswers", "openResponsesWorkbook"}

Discloses(op, cell) ==
    IF op = "feedbackPreview" THEN cell # "gray"
    ELSE IF op = "responseBreakdown" THEN \E c \in DOMAIN cell : cell[c][1] > 0
    ELSE cell # Hidden /\ cell[2] # 0

\* Every group of organizations or respondents that cell k of the reply to r is about.
Large(cohort) == Cardinality(cohort) >= PrivacyThreshold
CohortsLarge(r, k) ==
    LET group == r.ask.group
        sorted == r.enrolled[r.program][r.org].filter
    IN /\ r.op \in benchmarkTables => Large(Whole(r)!groupOrgs(k[2], k[3]))
       /\ r.op \in withMeTables /\ k[2] = "otherOrg" =>
            Large(Whole(r)!groupOrgs(group[1], group[2]))
       /\ r.op = "winnersList" => Large(Whole(r)!groupOrgs(k[1], k[2]))
       /\ r.op \in feedbackBooks \cup {"feedbackPreview"} /\ demographic(k[2])
            /\ (allPrefixed(r, k[2][1]) \/ nonePrefixed(r, k[2][1])) => Large(Behind(r, k[2]))
       /\ r.op = "responseDetailWorkbook" /\ demographic(k[2]) => Large(Members(r, k[2]))
       /\ r.op = "responseDetailQuestionResult" =>
            Large(Choosing(r, r.ask.demographic, k[2]))
       /\ r.op \in verbatimBooks /\ k[3] # NoCaption => Large(Choosing(r, sorted, k[3]))
       /\ r.op \in filteredReports /\ r.filter # {} => Large(people(r))

\* A reply says nothing of a group of organizations, of the respondents that one of its
\* columns is made of, or of those left by a filter, when they are fewer than the
\* threshold: each report hides them in a place of its own (privacyThreshold and its uses,
\* demographicValue, setResponseDetailDemographics, eligibleSortedRespondents).  Three
\* replies hide nothing and are not meant: the filters, the counts of each demographic
\* option (demographicResponseCounts: exact, however few chose it) and the mean scores,
\* which are of everybody.  Nor are the columns of a feedback workbook whose group has
\* questions with and without "f_": the first question is counted, the others are shown.
SmallCohortsHidden ==
    Shows(Reports \ {"surveyFilters", "demographicResponseCounts", "meanScoreByQuestions"}) =>
        \A k \in DOMAIN shown.cells :
            Discloses(shown.asked.op, shown.cells[k]) => CohortsLarge(shown.asked, k)

\* Counted answers reach only a request that was entitled to them when it arrived: never
\* a promotional session, whatever it asks for, and a client only for a report it owns,
\* the sorting of its verbatims included (baseContext, requiresDemo, the samples).
EntitledOnly ==
    Shows(Reports) =>
        LET e == shown.asked.enrolled[shown.asked.program][shown.asked.org]
            key == Handlers[shown.asked.op].key
            owned == shown.asked.role = "admin" \/ key \in e.access \cup {"none", "EV"}
                     \/ (key = "KIA" /\ e.kiaOrder)
        IN /\ e.included /\ e.mode # "promotional" /\ owned
           /\ \A k \in DOMAIN shown.cells :
                shown.asked.op \in verbatimBooks /\ k[3] # NoCaption =>
                    shown.asked.role = "admin" \/ "SEV" \in e.access

\* A reply is read in several queries, and the survey it found may be retired and deleted
\* between them.  The figures of the sections, of the benchmark, feedback and Response
\* Detail workbooks and of the annual rate are then of nobody: they are never partly of one
\* survey and partly of another, and no year stands in the place of the other.  The heading
\* of a workbook may be of another survey than its figures, but only once that one has
\* been replaced (reportWorkbookMetadata).
CountedIn(whole) ==
    \A k \in DOMAIN shown.cells :
        Discloses(shown.asked.op, shown.cells[k]) =>
            k \in DOMAIN whole /\ shown.cells[k] = whole[k]
OneSurvey ==
    LET P == people(shown.asked)
        Q == Whole(shown.asked)!benchmarkQuestions({shown.asked.org})
        D == Whole(shown.asked)!surveyDemographicQuestions
             \cup Whole(shown.asked)!answeredDemographics(P)
        common == Whole(shown.asked)!benchmarkQuestions({})
        agreement(r) == Whole(r)!percentage(Whole(r)!benchmarkQuestions({}), {r.org})
    IN /\ Shows({"workforceComparison", "benchmarkWorkbook"}) =>
            CountedIn(Whole(shown.asked)!workforceTable)
       /\ Shows({"responseDetailWorkbook"}) =>
            CountedIn(Whole(shown.asked)!detailWorkbook(P, common))
       /\ Shows({"responseBreakdownBySection"}) =>
            CountedIn(Whole(shown.asked)!sectionShares(P, Q))
       /\ Shows(feedbackBooks) => CountedIn(Whole(shown.asked)!feedbackWorkbook(P, D, Q))
       /\ Shows({"annualResponseRate"}) /\ shown.asked.compares =>
            CountedIn([y \in {"current", "previous"} |->
                         agreement(IF y = "current" THEN shown.asked ELSE lastAsked)])
       /\ Shows(Reports) /\ shown.heading # shown.asked.survey =>
            active[shown.asked.program] # shown.asked.survey

\* The agreement of the same answers is the same number in the benchmarks (percentage),
\* in the sections (trendDistribution) and in the statements of the dashboard
\* (positivePercentage), although each of them sorts the answers out by itself: what the
\* last two count beyond the first are answers in one of the irregular spellings.
Beyond(share, other, n) ==
    /\ other[2] - share[2] \in 0..n
    /\ other[1] - share[1] \in 0..(other[2] - share[2])
SameShareEverywhere ==
    Serving(Reports \ {"customReports"}) =>
        \A q \in core :
            LET irregular == {a \in Answered(everybody, {q}) : ~Regular(derived(a))}
                n == Cardinality(irregular)
            IN /\ Beyond(percentage({q}, me), trendDistribution(everybody, {q}, "Agree"), n)
               /\ Beyond(percentage({q}, me), positivePercentage(everybody, q), n)

\* A demographic column of the feedback workbooks shows the agreement of those who chose
\* the option it is headed with, if the questions of its group begin with "f_"; if none
\* does, the agreement of everybody.  The column and the agreement are found by different
\* code (workbookDemographicsFromRespondents, demographicAgreementByQuestion) and meet in
\* a label.
ColumnIsItsCohort ==
    Shows(feedbackBooks) =>
        \A k \in DOMAIN shown.cells :
            LET r == shown.asked
                shows(P) == shown.cells[k] = Whole(r)!trendDistribution(P, {k[1][2]}, "Agree")
            IN /\ k[1][1] = "question" /\ demographic(k[2])
               /\ Discloses(r.op, shown.cells[k])
               => /\ allPrefixed(r, k[2][1]) => shows(Members(r, k[2]))
                  /\ nonePrefixed(r, k[2][1]) => shows(people(r))

\* Figures made by different code add up.  Where every question of a section was answered
\* by the respondents that a column of a feedback workbook is made of, its average row
\* (weightedAverage) is the share of all their answers pooled, as in the breakdown
\* (sectionDistribution); and the rows of a question in a Response Detail column, "N/A"
\* included, lack none of the answers of its members but those that have no row
\* (responseDetailDemographicLabels).
averageIsPooled(k) ==
    LET Q == {q \in Whole(shown.asked)!benchmarkQuestions({}) :
                Whole(shown.asked)!categoryOf(q) = k[1][2]}
        P == Behind(shown.asked, k[2])
        side == IF k[2] = disagreementColumn THEN "Disagree" ELSE "Agree"
        pooled == Whole(shown.asked)!trendDistribution(P, Q, side)
    IN /\ k[1][1] = "average" /\ k[1][2] \notin {"SURVEY", "SUPPLEMENTARY"}
       /\ Discloses(shown.asked.op, shown.cells[k])
       /\ \A q \in Q : Whole(shown.asked)!trendDistribution(P, {q}, side)[2] > 0
       => shown.cells[k][1] * pooled[2] = pooled[1] * shown.cells[k][2]

\* A row for each configured option, or for each of the six standard captions.
expectedRows(question) ==
    IF question.defined THEN {question.options[i].caption : i \in DOMAIN question.options}
    ELSE {responseDetailOptions[i] : i \in 1..6}
rowsAddUp(k) ==
    LET r == shown.asked
        q == k[1][1]
        rows == {j \in DOMAIN shown.cells : j[1][1] = q /\ j[2] = k[2]}
        counted(j) == shown.cells[j][1]
        P == IF demographic(k[2]) THEN Members(r, k[2]) ELSE people(r)
        rowless == {p \in P : /\ q \in Whole(r)!answers(p)
                              /\ Whole(r)!detailCaption(p, q) \notin
                                   expectedRows(Whole(r)!questions[q])}
    IN shown.cells[k] # Hidden =>
         MapThenSumSet(counted, rows) + Cardinality(rowless) = shown.cells[k][2]

TotalsAgree ==
    /\ Shows(feedbackBooks) => \A k \in DOMAIN shown.cells : averageIsPooled(k)
    /\ Shows({"responseDetailWorkbook"}) => \A k \in DOMAIN shown.cells : rowsAddUp(k)
=============================================================================
