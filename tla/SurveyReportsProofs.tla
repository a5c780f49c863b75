-------------------------- MODULE SurveyReportsProofs --------------------------
(***************************************************************************)
(* Proofs about SurveyReports for any organizations, surveys, enrollments and   *)
(* requests.  A reply is made in one step from the request it answers, so the    *)
(* argument is one lemma per report: what the report counts is good for a client *)
(* who may ask for it (Good).  The invariant carries to that step what the        *)
(* request was let in with, and from it the reply that is on its way.             *)
(***************************************************************************)
EXTENDS SurveyReports, FiniteSetTheorems, WellFoundedInduction, TLAPS

(***************************************************************************)
(* The inductive invariant.                                                 *)
(***************************************************************************)
\* The rows of the surveys are those that were uploaded, and only a survey that no
\* program uses any more was deleted.
RowsOK ==
    /\ DOMAIN uploaded \subseteq Surveys
    /\ uploaded = [s \in DOMAIN uploaded |-> content[s]]
    /\ deleted \subseteq DOMAIN uploaded
    /\ active \in [Programs -> (DOMAIN uploaded \ deleted) \cup {NoSurvey}]
    /\ enrolled \in Enrollments

\* A request is what it was when it was let in.
Fields == {"op", "role", "program", "org", "dummy", "filter", "ask", "survey", "previous",
           "compares", "enrolled", "questionsRead"}
rowOf(r) == r.enrolled[r.program][r.org]
LetIn(r) ==
    /\ DOMAIN r = Fields
    /\ r.op \in Reports
    /\ r.program \in Programs
    /\ r.filter \in Filters[r.op]
    /\ Authorized(Handlers[r.op], r.role, rowOf(r), r.dummy)
    /\ r.op # "customReports" => r.survey \in Surveys
RequestOK ==
    request # Idle =>
        /\ shown = Nothing
        /\ LetIn(request)
        /\ request.op # "customReports" => request.survey \in DOMAIN uploaded
        /\ request.compares => request.previous \in DOMAIN uploaded

\* What the cells of a reply to r have to be.
Entitled(r, cells) ==
    /\ ~r.dummy
    /\ \A k \in DOMAIN cells :
         r.op \in verbatimBooks /\ k[3] # NoCaption =>
             requiresDemo(r.role, rowOf(r), r.dummy, "SEV")
Confidential(r, cells) ==
    r.op \notin {"surveyFilters", "demographicResponseCounts", "meanScoreByQuestions"} =>
        \A k \in DOMAIN cells : Discloses(r.op, cells[k]) => CohortsLarge(r, k)
Countable(r, cells, whole) ==
    \A k \in DOMAIN cells :
        Discloses(r.op, cells[k]) => k \in DOMAIN whole /\ cells[k] = whole[k]
wholeOwn(r) == Whole(r)!benchmarkQuestions({r.org})
wholeDemographics(r) ==
    Whole(r)!surveyDemographicQuestions \cup Whole(r)!answeredDemographics(people(r))
wholeAgreement(r) == Whole(r)!percentage(Whole(r)!benchmarkQuestions({}), {r.org})
wholeTrend(r) ==
    [y \in {"current", "previous"} |->
       wholeAgreement(IF y = "current" THEN r ELSE [r EXCEPT !.survey = r.previous])]
wholeDetail(r) == Whole(r)!detailWorkbook(people(r), Whole(r)!benchmarkQuestions({}))
Coherent(r, cells) ==
    /\ r.op \in {"workforceComparison", "benchmarkWorkbook"} =>
         Countable(r, cells, Whole(r)!workforceTable)
    /\ r.op = "responseDetailWorkbook" => Countable(r, cells, wholeDetail(r))
    /\ r.op = "responseBreakdownBySection" =>
         Countable(r, cells, Whole(r)!sectionShares(people(r), wholeOwn(r)))
    /\ r.op \in feedbackBooks =>
         Countable(r, cells, Whole(r)!feedbackWorkbook(people(r), wholeDemographics(r), wholeOwn(r)))
    /\ r.op = "annualResponseRate" /\ r.compares => Countable(r, cells, wholeTrend(r))
Good(r, cells) == Entitled(r, cells) /\ Confidential(r, cells) /\ Coherent(r, cells)

\* A heading is of the survey that was counted, or that one has been replaced.
Headed ==
    /\ DOMAIN shown = {"asked", "status", "cells", "heading"}
    /\ shown.status = "counted" => shown.asked.survey \in DOMAIN uploaded
    /\ shown.heading # shown.asked.survey =>
         /\ shown.asked.survey \in DOMAIN uploaded
         /\ active[shown.asked.program] # shown.asked.survey
ShownOK ==
    (shown # Nothing /\ shown.status \in {"data", "counted"}) =>
        LetIn(shown.asked) /\ Good(shown.asked, shown.cells) /\ Headed

IInv == RowsOK /\ RequestOK /\ ShownOK

(***************************************************************************)
(* From the invariant to the properties.                                     *)
(***************************************************************************)
LEMMA InvariantIsTyped == ASSUME IInv PROVE TypeOK
  BY DEF IInv, RowsOK, RequestOK, LetIn, TypeOK

LEMMA InvariantIsEntitled == ASSUME IInv PROVE EntitledOnly
<1> SUFFICES ASSUME Shows(Reports) PROVE EntitledOnly
  BY DEF EntitledOnly
<1> DEFINE r == shown.asked
           e == rowOf(r)
           h == Handlers[r.op]
<1>1. LetIn(r) /\ Entitled(r, shown.cells)
  BY DEF IInv, ShownOK, Shows, Good
<1>2. e.included /\ e.mode # "promotional" /\ ~r.dummy
  BY <1>1 DEF LetIn, Authorized, baseContext, Entitled
<1>3. r.role = "admin" \/ h.key \in e.access \cup {"none", "EV"} \/ (h.key = "KIA" /\ e.kiaOrder)
  <2>1. CASE h.key = "none"
    BY <2>1
  <2>2. CASE h.key = "CR"
    BY <1>1, <2>2 DEF LetIn, Authorized
  <2>3. CASE h.key \notin {"none", "CR"}
    <3>1. requiresDemo(r.role, e, r.dummy, h.key)
      BY <1>1, <2>3 DEF LetIn, Authorized
    <3> QED
      BY <1>2, <3>1 DEF requiresDemo
  <2> QED
    BY <2>1, <2>2, <2>3
<1>4. \A k \in DOMAIN shown.cells :
        r.op \in verbatimBooks /\ k[3] # NoCaption => r.role = "admin" \/ "SEV" \in e.access
  BY <1>1, <1>2 DEF Entitled, requiresDemo
<1> QED
  BY <1>2, <1>3, <1>4 DEF EntitledOnly, rowOf

LEMMA InvariantIsConfidential == ASSUME IInv PROVE SmallCohortsHidden
  BY DEF IInv, ShownOK, Shows, Good, Confidential, SmallCohortsHidden

LEMMA InvariantIsCoherent == ASSUME IInv PROVE OneSurvey
<1> DEFINE r == shown.asked
           cells == shown.cells
<1>1. ASSUME NEW ops, Shows(ops) PROVE r.op \in ops /\ Coherent(r, cells)
  BY <1>1 DEF IInv, ShownOK, Shows, Good
<1>2. \A whole : Countable(r, cells, whole) => CountedIn(whole)
  BY DEF Countable, CountedIn
<1>3. Shows({"responseBreakdownBySection"}) =>
        CountedIn(Whole(r)!sectionShares(people(r), wholeOwn(r)))
  BY <1>1, <1>2 DEF Coherent
<1>4. Shows(feedbackBooks) =>
        CountedIn(Whole(r)!feedbackWorkbook(people(r), wholeDemographics(r), wholeOwn(r)))
  BY <1>1, <1>2 DEF Coherent
<1>5. Shows({"annualResponseRate"}) /\ r.compares => CountedIn(wholeTrend(r))
  BY <1>1, <1>2 DEF Coherent
<1>6. wholeTrend(r) =
        [y \in {"current", "previous"} |-> wholeAgreement(IF y = "current" THEN r ELSE lastAsked)]
  BY DEF wholeTrend, lastAsked
<1>7. Shows({"workforceComparison", "benchmarkWorkbook"}) =>
        CountedIn(Whole(r)!workforceTable)
  BY <1>1, <1>2 DEF Coherent
<1>8. Shows({"responseDetailWorkbook"}) => CountedIn(wholeDetail(r))
  BY <1>1, <1>2 DEF Coherent
<1>9. Shows(Reports) /\ shown.heading # r.survey => active[r.program] # r.survey
  BY DEF Shows, IInv, ShownOK, Headed
<1> QED
  BY <1>3, <1>4, <1>5, <1>6, <1>7, <1>8, <1>9
     DEF OneSurvey, wholeOwn, wholeDemographics, wholeAgreement, wholeDetail

(***************************************************************************)
(* The steps that answer nothing, and the step of a good reply.               *)
(***************************************************************************)
GoodReply ==
    /\ request # Idle
    /\ \E status, cells :
         /\ Reply(status, cells)
         /\ status \in {"data", "counted"} => Good(request, cells)
         /\ status = "counted" => request.op # "customReports"

LEMMA Initially == ASSUME Init PROVE IInv
<1>1. uploaded = [s \in DOMAIN uploaded |-> content[s]]
  BY DEF Init
<1>2. DOMAIN uploaded = {active[p] : p \in Programs} \ {NoSurvey}
  BY DEF Init
<1>3. RowsOK
  BY <1>1, <1>2 DEF Init, RowsOK
<1>4. RequestOK /\ ShownOK
  BY DEF Init, RequestOK, ShownOK
<1> QED
  BY <1>3, <1>4 DEF IInv

LEMMA Least == ASSUME NEW S \in SUBSET Nat, S # {} PROVE \E m \in S : \A k \in S : m <= k
<1>1. PICK m \in S : \A k \in S : ~(<<k, m>> \in OpToRel(<, Nat))
  BY WFMin, NatLessThanWellFounded
<1>2. \A k \in S : ~(k < m)
  BY <1>1 DEF OpToRel
<1> QED
  BY <1>2

\* The earlier program of an annual trend is the one whose year is the least before.
LEMMA PreviousIsAProgram ==
  ASSUME NEW program \in Programs, NEW org, earlier(program, org) # {}
  PROVE  previousProgram(program, org) \in Programs
<1> DEFINE E == earlier(program, org)
           ages == {year[program] - year[p] : p \in E}
<1>1. \A p \in E : p \in Programs /\ year[p] \in Nat /\ year[p] < year[program]
  BY ReportsAssumption DEF earlier
<1>2. year[program] \in Nat
  BY ReportsAssumption
<1>3. ages \in SUBSET Nat /\ ages # {}
  BY <1>1, <1>2
<1> HIDE DEF E
<1>4. PICK n \in ages : \A m \in ages : n <= m
  <2> HIDE DEF ages
  <2> QED
    BY <1>3, Least
<1>5. PICK p \in E : n = year[program] - year[p]
  BY <1>4
<1>6. ASSUME NEW o \in E PROVE year[o] <= year[p]
  <2>1. year[program] - year[p] <= year[program] - year[o]
    BY <1>4, <1>5
  <2> QED
    BY <1>1, <1>2, <2>1
<1>7. previousProgram(program, org) \in E
  BY <1>6 DEF previousProgram, E
<1> QED
  BY <1>1, <1>7

LEMMA StartKeeps ==
  ASSUME IInv, NEW op \in Reports, NEW role, NEW program \in Programs, NEW org, NEW dummy,
         NEW filter \in Filters[op], NEW ask, Start(op, role, program, org, dummy, filter, ask)
  PROVE  IInv'
<1> DEFINE h == Handlers[op]
           compares == op \in annual /\ earlier(program, org) # {}
           before == previousProgram(program, org)
           asked == [op |-> op, role |-> role, program |-> program, org |-> org,
                     dummy |-> dummy, filter |-> filter, ask |-> ask,
                     survey |-> active[program],
                     previous |-> IF compares THEN active[before] ELSE NoSurvey,
                     compares |-> compares, enrolled |-> enrolled, questionsRead |-> FALSE]
<1>1. /\ request = Idle /\ shown = Nothing
      /\ \/ Answer(asked, "denied", <<>>) /\ UNCHANGED request
         \/ Answer(asked, "notFound", <<>>) /\ UNCHANGED request
         \/ /\ Authorized(h, role, enrolled[program][org], dummy)
            /\ op # "customReports" => active[program] # NoSurvey
            /\ compares => active[before] # NoSurvey
            /\ request' = asked /\ UNCHANGED shown
      /\ UNCHANGED <<active, uploaded, deleted, enrolled>>
  BY DEF Start, annual
<1>2. RowsOK'
  BY <1>1 DEF IInv, RowsOK
<1>3. CASE shown'.status \in {"denied", "notFound"} /\ UNCHANGED request
  BY <1>1, <1>2, <1>3 DEF IInv, RequestOK, ShownOK
<1>4. CASE /\ Authorized(h, role, enrolled[program][org], dummy)
           /\ op # "customReports" => active[program] # NoSurvey
           /\ compares => active[before] # NoSurvey
           /\ request' = asked /\ UNCHANGED shown
  <2>1. op # "customReports" => active[program] \in DOMAIN uploaded \cap Surveys
    BY <1>4 DEF IInv, RowsOK
  <2>2. LetIn(asked)
    <3> HIDE DEF compares, before
    <3> QED
      BY <1>4, <2>1 DEF LetIn, rowOf, Fields
  <2>3. compares => active[before] \in DOMAIN uploaded
    BY <1>4, PreviousIsAProgram DEF IInv, RowsOK
  <2>4. RequestOK'
    <3> HIDE DEF compares, before
    <3> QED
      BY <1>1, <1>4, <2>1, <2>2, <2>3 DEF RequestOK
  <2>5. ShownOK'
    BY <1>1, <1>4 DEF IInv, ShownOK
  <2> QED
    BY <1>2, <2>4, <2>5 DEF IInv
<1> QED
  BY <1>1, <1>3, <1>4 DEF Answer

LEMMA ReadQuestionsKeeps == ASSUME IInv, ReadQuestions PROVE IInv'
<1>1. /\ request # Idle /\ request' = [request EXCEPT !.questionsRead = TRUE]
      /\ UNCHANGED <<active, uploaded, deleted, enrolled, shown>>
  BY DEF ReadQuestions
<1>2. RowsOK' /\ ShownOK'
  BY <1>1 DEF IInv, RowsOK, ShownOK, Headed
<1>3. /\ shown = Nothing /\ LetIn(request)
      /\ request.op # "customReports" => request.survey \in DOMAIN uploaded
      /\ request.compares => request.previous \in DOMAIN uploaded
  BY <1>1 DEF IInv, RequestOK
<1>4. \A f \in Fields \ {"questionsRead"} : request'[f] = request[f]
  BY <1>1, <1>3 DEF LetIn, Fields
<1>5. /\ DOMAIN request' = Fields
      /\ request'.op = request.op /\ request'.filter = request.filter
      /\ request'.role = request.role /\ request'.dummy = request.dummy
      /\ request'.enrolled = request.enrolled /\ request'.program = request.program
      /\ request'.org = request.org /\ request'.survey = request.survey
      /\ request'.previous = request.previous /\ request'.compares = request.compares
  BY <1>1, <1>3, <1>4 DEF LetIn, Fields
<1>6. LetIn(request')
  BY <1>3, <1>5 DEF LetIn, rowOf
<1>7. RequestOK'
  BY <1>1, <1>3, <1>5, <1>6 DEF RequestOK
<1> QED
  BY <1>2, <1>7 DEF IInv

LEMMA SentKeeps == ASSUME IInv, Sent PROVE IInv'
  BY DEF Sent, IInv, RowsOK, RequestOK, ShownOK

LEMMA HeadingKeeps == ASSUME IInv, reportWorkbookMetadata PROVE IInv'
<1> DEFINE r == shown.asked
           found == active[r.program]
<1>1. /\ shown # Nothing /\ shown.status = "counted"
      /\ UNCHANGED <<active, uploaded, deleted, enrolled, request>>
      /\ \/ \E status \in {"denied", "notFound"} : Answer(r, status, <<>>)
         \/ shown' = [shown EXCEPT !.status = "data", !.heading = found]
  BY DEF reportWorkbookMetadata
<1>2. RowsOK' /\ RequestOK'
  BY <1>1 DEF IInv, RowsOK, RequestOK
<1>3. ASSUME NEW status \in {"denied", "notFound"}, Answer(r, status, <<>>) PROVE ShownOK'
  BY <1>3 DEF Answer, ShownOK
<1>4. ASSUME shown' = [shown EXCEPT !.status = "data", !.heading = found] PROVE ShownOK'
  <2>1. LetIn(r) /\ Good(r, shown.cells) /\ Headed
    BY <1>1 DEF IInv, ShownOK
  <2>2. /\ shown'.asked = r /\ shown'.cells = shown.cells
        /\ shown'.status = "data" /\ shown'.heading = found
        /\ DOMAIN shown' = {"asked", "status", "cells", "heading"}
    BY <1>4, <2>1 DEF Headed
  <2>3. Headed'
    BY <1>1, <2>1, <2>2 DEF Headed
  <2> QED
    BY <2>1, <2>2, <2>3 DEF ShownOK
<1> QED
  BY <1>1, <1>2, <1>3, <1>4 DEF IInv

LEMMA ReplyKeeps == ASSUME IInv, GoodReply PROVE IInv'
<1>1. PICK status, cells :
        /\ Reply(status, cells)
        /\ status \in {"data", "counted"} => Good(request, cells)
        /\ status = "counted" => request.op # "customReports"
  BY DEF GoodReply
<1>2. /\ shown' = [asked |-> request, status |-> status, cells |-> cells,
                  heading |-> request.survey]
      /\ request' = Idle /\ UNCHANGED <<active, uploaded, deleted, enrolled>>
  BY <1>1 DEF Reply, Answer
<1>3. RowsOK' /\ RequestOK'
  BY <1>2 DEF IInv, RowsOK, RequestOK
<1>4. /\ LetIn(request)
      /\ request.op # "customReports" => request.survey \in DOMAIN uploaded
  BY DEF GoodReply, IInv, RequestOK
<1>5. status \in {"data", "counted"} => Headed'
  BY <1>1, <1>2, <1>4 DEF Headed
<1>6. ShownOK'
  BY <1>1, <1>2, <1>4, <1>5 DEF ShownOK
<1> QED
  BY <1>3, <1>6 DEF IInv

LEMMA PublishKeeps == ASSUME IInv, NEW s \in Surveys, Publish(s) PROVE IInv'
<1> DEFINE program == replaces[s].program
<1>1. /\ s \notin DOMAIN uploaded
      /\ active' = [active EXCEPT ![program] = s]
      /\ uploaded' = [t \in (DOMAIN uploaded) \cup {s} |-> content[t]]
      /\ UNCHANGED <<deleted, enrolled, request, shown>>
  BY DEF Publish
<1> HIDE DEF program
<1>2. DOMAIN uploaded' = (DOMAIN uploaded) \cup {s}
  BY <1>1
<1>3. uploaded' = [t \in DOMAIN uploaded' |-> content[t]]
  BY <1>1, <1>2
<1>4. active' \in [Programs -> (DOMAIN uploaded' \ deleted') \cup {NoSurvey}]
  BY <1>1, <1>2 DEF IInv, RowsOK
<1>5. RowsOK'
  BY <1>1, <1>2, <1>3, <1>4 DEF IInv, RowsOK
<1>6. RequestOK'
  BY <1>1, <1>2 DEF IInv, RequestOK
<1>7. ShownOK'
  <2> SUFFICES ASSUME shown # Nothing, shown.status \in {"data", "counted"} PROVE Headed'
    BY <1>1 DEF IInv, ShownOK
  <2>1. Headed /\ shown.asked.program \in Programs
    BY DEF IInv, ShownOK, LetIn
  <2>2. /\ active \in [Programs -> (DOMAIN uploaded \ deleted) \cup {NoSurvey}]
        /\ s \notin DOMAIN uploaded
    BY <1>1 DEF IInv, RowsOK
  <2>3. \/ active'[shown.asked.program] = active[shown.asked.program]
        \/ active'[shown.asked.program] = s
    BY <1>1, <2>1, <2>2
  <2> QED
    BY <1>1, <1>2, <2>1, <2>2, <2>3 DEF Headed
<1> QED
  BY <1>5, <1>6, <1>7 DEF IInv

LEMMA DeleteKeeps == ASSUME IInv, NEW s, DeleteRetired(s) PROVE IInv'
<1>1. /\ s \in DOMAIN uploaded \ deleted /\ s \notin {active[p] : p \in Programs}
      /\ deleted' = deleted \cup {s}
      /\ UNCHANGED <<active, uploaded, enrolled, request, shown>>
  BY DEF DeleteRetired
<1>2. active' \in [Programs -> (DOMAIN uploaded' \ deleted') \cup {NoSurvey}]
  BY <1>1 DEF IInv, RowsOK
<1>3. RowsOK' /\ RequestOK' /\ ShownOK'
  BY <1>1, <1>2 DEF IInv, RowsOK, RequestOK, ShownOK, Headed
<1> QED
  BY <1>3 DEF IInv

LEMMA WriteKeeps == ASSUME IInv, WriteEnrollments \/ UNCHANGED vars PROVE IInv'
  BY DEF WriteEnrollments, vars, IInv, RowsOK, RequestOK, ShownOK, Headed

\* A refusal and a sample show no cell.
LEMMA Refusal ==
  ASSUME NEW status, NEW cells, request # Idle, Reply(status, cells),
         status \notin {"data", "counted"}
  PROVE  GoodReply
  BY DEF GoodReply

(***************************************************************************)
(* The reports about all the respondents of the organization, or about nobody:   *)
(* no cell of theirs has a cohort.                                           *)
(***************************************************************************)
ofCohorts == benchmarkTables \cup withMeTables \cup feedbackBooks \cup verbatimBooks
             \cup filteredReports
             \cup {"winnersList", "feedbackPreview", "responseDetailWorkbook",
                   "responseDetailQuestionResult", "annualResponseRate"}

LEMMA PlainReply ==
  ASSUME NEW op, op \notin ofCohorts, Reads(op), NEW cells, Data(cells)
  PROVE  GoodReply
<1>1. request # Idle /\ request.op = op /\ ~request.dummy
  BY DEF Reads, Serving
<1>2. Entitled(request, cells)
  BY <1>1 DEF Entitled, ofCohorts
<1>3. Confidential(request, cells)
  BY <1>1 DEF Confidential, CohortsLarge, ofCohorts, filteredReports
<1>4. Coherent(request, cells)
  BY <1>1 DEF Coherent, ofCohorts, filteredReports, feedbackBooks, benchmarkTables
<1> QED
  BY <1>1, <1>2, <1>3, <1>4 DEF GoodReply, Good, Data

\* A report of no cohort that is refused or answered.
LEMMA PlainOrRefused ==
  ASSUME NEW op, op \notin ofCohorts, Reads(op),
         NEW cells, Data(cells) \/ Reply("notFound", <<>>)
  PROVE  GoodReply
<1>1. request # Idle
  BY DEF Reads, Serving
<1> QED
  BY <1>1, PlainReply, Refusal

LEMMA PlainReports ==
  ASSUME \/ meanScoreBySection \/ meanScoreByQuestions \/ surveyFilters
         \/ demographicResponseCounts \/ surveyResponseRate \/ surveyInformation
         \/ averageAgreement \/ topBottomStatements \/ unavailableAnnualTrend
         \/ responseDetailSections \/ openResponseQuestions \/ annualCategories
         \/ annualDetails \/ annualTrendWorkbook \/ customReports \/ keyImpactAnalysis
  PROVE  GoodReply
<1> DEFINE Plain(op) == Reads(op) /\ \E cells : Data(cells) \/ Reply("notFound", <<>>)
<1> USE DEF ofCohorts, benchmarkTables, withMeTables, feedbackBooks, verbatimBooks, filteredReports
<1>1. ASSUME NEW op, op \notin ofCohorts, Plain(op) PROVE GoodReply
  BY <1>1, PlainOrRefused
<1>2. meanScoreBySection => Plain("meanScoreBySection")
  BY DEF meanScoreBySection
<1>3. meanScoreByQuestions => Plain("meanScoreByQuestions")
  BY DEF meanScoreByQuestions
<1>4. surveyFilters => Plain("surveyFilters")
  BY DEF surveyFilters
<1>5. demographicResponseCounts => Plain("demographicResponseCounts")
  BY DEF demographicResponseCounts
<1>6. surveyResponseRate => Plain("surveyResponseRate")
  BY DEF surveyResponseRate
<1>7. surveyInformation => Plain("surveyInformation")
  BY DEF surveyInformation
<1>8. averageAgreement => Plain("averageAgreement")
  BY DEF averageAgreement
<1>9. topBottomStatements => Plain("topBottomStatements")
  BY DEF topBottomStatements
<1>10. unavailableAnnualTrend => Plain("unavailableAnnualTrend")
  BY DEF unavailableAnnualTrend
<1>11. responseDetailSections => Plain("responseDetailSections")
  BY DEF responseDetailSections
<1>12. openResponseQuestions => Plain("openResponseQuestions")
  BY DEF openResponseQuestions
<1>13. annualCategories => Plain("annualCategories")
  BY DEF annualCategories, Trends
<1>14. annualDetails => Plain("annualDetails")
  BY DEF annualDetails, Trends
<1>15. annualTrendWorkbook => Plain("annualTrendWorkbook")
  BY DEF annualTrendWorkbook
<1>16. customReports => Plain("customReports")
  BY DEF customReports
<1>17. keyImpactAnalysis => Plain("keyImpactAnalysis")
  BY DEF keyImpactAnalysis
<1> HIDE DEF Plain
<1> QED
  BY <1>1, <1>2, <1>3, <1>4, <1>5, <1>6, <1>7, <1>8, <1>9, <1>10, <1>11, <1>12, <1>13, <1>14,
     <1>15, <1>16, <1>17

(***************************************************************************)
(* Benchmarks: a group that shows a value is not smaller than the threshold.    *)
(***************************************************************************)
LEMMA GroupsAreWhole ==
  ASSUME NEW s, NEW w PROVE groupOrgs(s, w) = Whole(request)!groupOrgs(s, w)
  BY DEF groupOrgs, included, Whole!groupOrgs, Whole!included

LEMMA VisibleIsLarge ==
  ASSUME NEW s, NEW w, ~hidden(<<s, w>>) PROVE Large(Whole(request)!groupOrgs(s, w))
<1>1. groupOrgs(s, w) \subseteq Orgs
  BY DEF groupOrgs, included
<1>2. Cardinality(groupOrgs(s, w)) \in Nat
  BY <1>1, ReportsAssumption, FS_Subset, FS_CardinalityType
<1>3. ~(Cardinality(groupOrgs(s, w)) < PrivacyThreshold)
  BY DEF hidden
<1> QED
  BY <1>2, <1>3, GroupsAreWhole, ThresholdAssumption DEF Large

LEMMA TableReply ==
  ASSUME NEW op \in benchmarkTables, Reads(op), NEW part, NEW G, NEW status,
         Reply(status, BenchmarkRows(part, G)),
         op \in {"workforceComparison", "benchmarkWorkbook"} =>
             Countable(request, BenchmarkRows(part, G), Whole(request)!workforceTable)
  PROVE  GoodReply
<1> DEFINE cells == BenchmarkRows(part, G)
<1>1. request # Idle /\ request.op = op /\ ~request.dummy
  BY DEF Reads, Serving
<1>2. Entitled(request, cells)
  BY <1>1 DEF Entitled, benchmarkTables, verbatimBooks
<1>3. ASSUME NEW k \in DOMAIN cells, cells[k] # Hidden
      PROVE  Large(Whole(request)!groupOrgs(k[2], k[3]))
  <2>1. cells[k] = benchmark(part[k[1]], <<k[2], k[3]>>)
    BY DEF BenchmarkRows
  <2>2. ~hidden(<<k[2], k[3]>>)
    BY <1>3, <2>1 DEF benchmark
  <2> QED
    BY <2>2, VisibleIsLarge
<1> HIDE DEF cells
<1>4. Confidential(request, cells)
  BY <1>1, <1>3 DEF Confidential, CohortsLarge, Discloses, benchmarkTables, withMeTables,
     feedbackBooks, verbatimBooks, filteredReports
<1>5. Coherent(request, cells)
  BY <1>1 DEF Coherent, benchmarkTables, feedbackBooks, cells
<1> QED
  BY <1>1, <1>2, <1>4, <1>5 DEF GoodReply, Good, cells, benchmarkTables

LEMMA WithMeReply ==
  ASSUME NEW op \in withMeTables, Reads(op), NEW cells, Data(cells),
         \A k \in DOMAIN cells : k[2] # "currentOrg" /\ cells[k] # Hidden =>
             ~hidden(<<request.ask.group[1], request.ask.group[2]>>)
  PROVE  GoodReply
<1> DEFINE group == request.ask.group
<1>1. request # Idle /\ request.op = op /\ ~request.dummy
  BY DEF Reads, Serving
<1>2. Entitled(request, cells)
  BY <1>1 DEF Entitled, withMeTables, verbatimBooks
<1>3. ASSUME NEW k \in DOMAIN cells, cells[k] # Hidden, k[2] = "otherOrg"
      PROVE  Large(Whole(request)!groupOrgs(group[1], group[2]))
  BY <1>3, VisibleIsLarge
<1>4. Confidential(request, cells)
  BY <1>1, <1>3 DEF Confidential, CohortsLarge, Discloses, benchmarkTables, withMeTables,
     feedbackBooks, verbatimBooks, filteredReports
<1>5. Coherent(request, cells)
  BY <1>1 DEF Coherent, withMeTables, feedbackBooks
<1> QED
  BY <1>1, <1>2, <1>4, <1>5 DEF GoodReply, Good, Data

LEMMA TableReports ==
  ASSUME \/ employeeComparison \/ sectionComparison
         \/ questionComparison \/ workforceQuestionComparison
  PROVE  GoodReply
<1> DEFINE Table(op) == /\ Reads(op)
                        /\ \/ \E part, G : Data(BenchmarkRows(part, G))
                           \/ Reply("notFound", <<>>)
<1>1. ASSUME NEW op \in benchmarkTables \ {"workforceComparison", "benchmarkWorkbook"}, Table(op)
      PROVE  GoodReply
  <2>1. request # Idle
    BY <1>1 DEF Reads, Serving
  <2> QED
    BY <1>1, <2>1, TableReply, Refusal DEF Data
<1>2. employeeComparison => Table("employeeComparison")
  BY DEF employeeComparison
<1>3. sectionComparison => Table("sectionComparison")
  BY DEF sectionComparison
<1>4. questionComparison => Table("questionComparison")
  BY DEF questionComparison
<1>5. workforceQuestionComparison => Table("workforceQuestionComparison")
  BY DEF workforceQuestionComparison
<1> HIDE DEF Table
<1> QED
  BY <1>1, <1>2, <1>3, <1>4, <1>5 DEF benchmarkTables

LEMMA SectionWithMe == ASSUME sectionComparisonWithMe PROVE GoodReply
<1> DEFINE group == request.ask.group
           byCategory == questionsByCategory(core)
           categories == publishedWorkforce.categories
           chosenQuestions == [c \in categories |->
                                 IF c \in DOMAIN byCategory THEN byCategory[c] ELSE {}]
           Published(c) == IF benchmarkGroupHidden(group) THEN Hidden ELSE Snapshot
           Counted(c) == benchmark(byCategory[c], group)
           published == withMe(chosenQuestions, Published)
           counted == withMe(byCategory, Counted)
<1>1. /\ Reads("sectionComparisonWithMe") /\ request # Idle
      /\ \/ Reply("invalid", <<>>) \/ Data(published) \/ Data(counted)
  BY DEF sectionComparisonWithMe, Reads, Serving
<1>2. CASE Reply("invalid", <<>>)
  BY <1>1, <1>2, Refusal
<1>3. ASSUME NEW k \in DOMAIN published, k[2] # "currentOrg", published[k] # Hidden
      PROVE  ~hidden(<<group[1], group[2]>>)
  <2>1. published[k] = Published(k[1])
    BY <1>3 DEF withMe
  <2> QED
    BY <1>3, <2>1 DEF benchmarkGroupHidden, hidden
<1>4. ASSUME NEW k \in DOMAIN counted, k[2] # "currentOrg", counted[k] # Hidden
      PROVE  ~hidden(<<group[1], group[2]>>)
  <2>1. counted[k] = Counted(k[1])
    BY <1>4 DEF withMe
  <2> QED
    BY <1>4, <2>1 DEF benchmark, hidden
<1> HIDE DEF published, counted, group
<1>5. "sectionComparisonWithMe" \in withMeTables
  BY DEF withMeTables
<1> QED
  BY <1>1, <1>2, <1>3, <1>4, <1>5, WithMeReply DEF group

LEMMA QuestionWithMe == ASSUME questionComparisonWithMe PROVE GoodReply
<1> DEFINE group == request.ask.group
           Published(q) == IF benchmarkGroupHidden(group) THEN Hidden ELSE Snapshot
           Counted(q) == benchmark({q}, group)
           published == withMe(each(ofCategory), Published)
           counted == withMe(each(ofCategory), Counted)
<1>1. /\ Reads("questionComparisonWithMe") /\ request # Idle
      /\ \/ Reply("invalid", <<>>) \/ Reply("notFound", <<>>)
         \/ Data(published) \/ Data(counted)
  BY DEF questionComparisonWithMe, Reads, Serving
<1>2. CASE Reply("invalid", <<>>) \/ Reply("notFound", <<>>)
  BY <1>1, <1>2, Refusal
<1>3. ASSUME NEW k \in DOMAIN published, k[2] # "currentOrg", published[k] # Hidden
      PROVE  ~hidden(<<group[1], group[2]>>)
  <2>1. published[k] = Published(k[1])
    BY <1>3 DEF withMe
  <2> QED
    BY <1>3, <2>1 DEF benchmarkGroupHidden, hidden
<1>4. ASSUME NEW k \in DOMAIN counted, k[2] # "currentOrg", counted[k] # Hidden
      PROVE  ~hidden(<<group[1], group[2]>>)
  <2>1. counted[k] = Counted(k[1])
    BY <1>4 DEF withMe
  <2> QED
    BY <1>4, <2>1 DEF benchmark, hidden
<1> HIDE DEF published, counted, group
<1>5. "questionComparisonWithMe" \in withMeTables
  BY DEF withMeTables
<1> QED
  BY <1>1, <1>2, <1>3, <1>4, <1>5, WithMeReply DEF group

LEMMA Winners == ASSUME winnersList PROVE GoodReply
<1> DEFINE cells == [g \in visibleGroups |-> Listed]
<1>1. request # Idle /\ request.op = "winnersList" /\ ~request.dummy /\ Data(cells)
  BY DEF winnersList, Reads, Serving
<1>2. ASSUME NEW k \in DOMAIN cells PROVE Large(Whole(request)!groupOrgs(k[1], k[2]))
  <2>1. ~hidden(<<k[1], k[2]>>)
    BY DEF visibleGroups, hidden
  <2> QED
    BY <2>1, VisibleIsLarge
<1> HIDE DEF cells
<1>3. Confidential(request, cells)
  BY <1>1, <1>2 DEF Confidential, CohortsLarge, benchmarkTables, withMeTables,
     feedbackBooks, verbatimBooks, filteredReports
<1>4. Entitled(request, cells) /\ Coherent(request, cells)
  BY <1>1 DEF Entitled, Coherent, verbatimBooks, feedbackBooks
<1> QED
  BY <1>1, <1>3, <1>4 DEF GoodReply, Good, Data

(***************************************************************************)
(* Whole: as long as its survey is there, a request counts what it would count   *)
(* if nothing were ever deleted, operator by operator.                       *)
(***************************************************************************)
Kept == request.survey \notin deleted /\ uploaded[request.survey] = content[request.survey]

\* The classifiers of answers know nothing of the rows.
LEMMA SameClassifiers ==
  /\ \A v, q : demographicResponseCaption(v, q) = Whole(request)!demographicResponseCaption(v, q)
  /\ \A a, q : derivedResponse(a, q) = Whole(request)!derivedResponse(a, q)
  /\ \A a : trendSide(a) = Whole(request)!trendSide(a)
  /\ \A a : percentageSide(a) = Whole(request)!percentageSide(a)
<1> USE DEF NoScore, Whole!NoScore, Codes, Whole!Codes, number, Whole!number, Unset, Whole!Unset
<1>0. \A s, I : FirstWhere(s, I) = Whole(request)!FirstWhere(s, I)
  BY DEF FirstWhere, Whole!FirstWhere
<1>1. ASSUME NEW v, NEW q PROVE definitionAnswer(v, q) = Whole(request)!definitionAnswer(v, q)
  BY <1>0 DEF definitionAnswer, Whole!definitionAnswer
<1>2. ASSUME NEW v, NEW q
      PROVE  demographicResponseCaption(v, q) = Whole(request)!demographicResponseCaption(v, q)
  BY <1>0, <1>1 DEF demographicResponseCaption, Whole!demographicResponseCaption
<1>3. ASSUME NEW a, NEW q PROVE derivedResponse(a, q) = Whole(request)!derivedResponse(a, q)
  <2>1. \A o : optionScore(o) = Whole(request)!optionScore(o)
    BY DEF optionScore, Whole!optionScore
  <2>2. \A v, o : applicable(v, o) = Whole(request)!applicable(v, o)
    BY <2>1 DEF applicable, Whole!applicable
  <2>3. \A c, s : likertAnswer(c, s) = Whole(request)!likertAnswer(c, s)
    BY DEF likertAnswer, Whole!likertAnswer
  <2>4. \A o : configuredAnswer(a, q, o) = Whole(request)!configuredAnswer(a, q, o)
    BY <2>1, <2>2, <2>3 DEF configuredAnswer, Whole!configuredAnswer
  <2> QED
    BY <1>1, <2>4 DEF derivedResponse, Whole!derivedResponse
<1>4. \A a : /\ Caption(a) = Whole(request)!Caption(a)
             /\ Scored(a) = Whole(request)!Scored(a)
             /\ Positive(a) = Whole(request)!Positive(a)
  BY DEF Caption, Whole!Caption, Scored, Whole!Scored, Positive, Whole!Positive
<1>5. ASSUME NEW a PROVE trendSide(a) = Whole(request)!trendSide(a)
  BY <1>4 DEF trendSide, Whole!trendSide, notApplicable, Whole!notApplicable
<1>6. ASSUME NEW a PROVE percentageSide(a) = Whole(request)!percentageSide(a)
  BY <1>4 DEF percentageSide, Whole!percentageSide, notApplicable, Whole!notApplicable
<1> QED
  BY <1>2, <1>3, <1>5, <1>6

LEMMA SameCardinality == \A S : Cardinality(S) = Whole(request)!Cardinality(S)
  BY DEF Cardinality, Whole!Cardinality

LEMMA SameRows ==
  ASSUME Kept
  PROVE  /\ questions = Whole(request)!questions
         /\ respondents = Whole(request)!respondents
         /\ \A a : derived(a) = Whole(request)!derived(a)
         /\ \A P, Q : Answered(P, Q) = Whole(request)!Answered(P, Q)
         /\ \A p, q : captionOf(p, q) = Whole(request)!captionOf(p, q)
         /\ \A p : answers(p) = Whole(request)!answers(p)
<1>1. questions = Whole(request)!questions
  BY DEF Kept, questions, Whole!questions
<1>2. respondents = Whole(request)!respondents
  BY DEF Kept, respondents, Whole!respondents
<1>3. ASSUME NEW a PROVE derived(a) = Whole(request)!derived(a)
  BY <1>2, SameClassifiers DEF Kept, derived, Whole!derived
<1>4. ASSUME NEW P, NEW Q PROVE Answered(P, Q) = Whole(request)!Answered(P, Q)
  BY <1>2 DEF Answered, Whole!Answered
<1>5. ASSUME NEW p, NEW q PROVE captionOf(p, q) = Whole(request)!captionOf(p, q)
  BY <1>3, SameClassifiers DEF Kept, captionOf, Whole!captionOf
<1>6. ASSUME NEW p PROVE answers(p) = Whole(request)!answers(p)
  BY <1>2 DEF answers, Whole!answers
<1> QED
  BY <1>1, <1>2, <1>3, <1>4, <1>5, <1>6

LEMMA SamePeople ==
  ASSUME Kept
  PROVE  /\ \A O : completed(O) = Whole(request)!completed(O)
         /\ \A F : organizationRespondents(F) = Whole(request)!organizationRespondents(F)
<1>1. ASSUME NEW O PROVE completed(O) = Whole(request)!completed(O)
  BY SameRows DEF completed, Whole!completed
<1>2. \A p, f : matches(p, f) = Whole(request)!matches(p, f)
  BY SameRows DEF matches, Whole!matches
<1>3. ASSUME NEW F
      PROVE  organizationRespondents(F) = Whole(request)!organizationRespondents(F)
  BY <1>1, <1>2 DEF organizationRespondents, Whole!organizationRespondents
<1> QED
  BY <1>1, <1>3

LEMMA SameQuestions ==
  ASSUME Kept
  PROVE  /\ \A O : benchmarkQuestions(O) = Whole(request)!benchmarkQuestions(O)
         /\ \A Q : questionsByCategory(Q) = Whole(request)!questionsByCategory(Q)
         /\ \A p : demographicsOf(p) = Whole(request)!demographicsOf(p)
         /\ surveyDemographicQuestions = Whole(request)!surveyDemographicQuestions
         /\ \A P : answeredDemographics(P) = Whole(request)!answeredDemographics(P)
<1>1. ASSUME NEW O PROVE benchmarkQuestions(O) = Whole(request)!benchmarkQuestions(O)
  BY SameRows DEF benchmarkQuestions, Whole!benchmarkQuestions
<1>2. \A q : categoryOf(q) = Whole(request)!categoryOf(q)
  BY SameRows DEF categoryOf, Whole!categoryOf
<1>3. ASSUME NEW Q PROVE questionsByCategory(Q) = Whole(request)!questionsByCategory(Q)
  BY <1>2 DEF questionsByCategory, Whole!questionsByCategory
<1>4. \A q : isDemographicQuestion(q) = Whole(request)!isDemographicQuestion(q)
  BY DEF Kept, isDemographicQuestion, Whole!isDemographicQuestion
<1>5. ASSUME NEW p PROVE demographicsOf(p) = Whole(request)!demographicsOf(p)
  BY <1>4, SameRows DEF demographicsOf, Whole!demographicsOf
<1>6. surveyDemographicQuestions = Whole(request)!surveyDemographicQuestions
  BY <1>4, SameRows DEF surveyDemographicQuestions, Whole!surveyDemographicQuestions
<1>7. ASSUME NEW P PROVE answeredDemographics(P) = Whole(request)!answeredDemographics(P)
  BY <1>5 DEF answeredDemographics, Whole!answeredDemographics
<1> QED
  BY <1>1, <1>3, <1>5, <1>6, <1>7

LEMMA SameShares ==
  ASSUME Kept
  PROVE  /\ \A Q, O : percentage(Q, O) = Whole(request)!percentage(Q, O)
         /\ \A P, Q, side :
              trendDistribution(P, Q, side) = Whole(request)!trendDistribution(P, Q, side)
         /\ \A P, Q : sectionShares(P, Q) = Whole(request)!sectionShares(P, Q)
<1>1. ASSUME NEW Q, NEW O PROVE percentage(Q, O) = Whole(request)!percentage(Q, O)
  <2> DEFINE A == Answered(completed(O), Q)
             counted == {a \in A : percentageSide(derived(a)) # "Excluded"}
             agreeing == {a \in counted : percentageSide(derived(a)) = "Agree"}
  <2>1. /\ counted = {a \in A : Whole(request)!percentageSide(Whole(request)!derived(a)) # "Excluded"}
        /\ agreeing = {a \in counted : Whole(request)!percentageSide(Whole(request)!derived(a)) = "Agree"}
        /\ A = Whole(request)!Answered(Whole(request)!completed(O), Q)
    BY SameRows, SamePeople, SameClassifiers
  <2>2. percentage(Q, O) =
          IF O = {} THEN <<0, 0>> ELSE <<Cardinality(agreeing), Cardinality(counted)>>
    BY DEF percentage, Ratio
  <2>3. Whole(request)!percentage(Q, O) =
          IF O = {} THEN <<0, 0>>
          ELSE <<Whole(request)!Cardinality(agreeing), Whole(request)!Cardinality(counted)>>
    <3> HIDE DEF A
    <3> QED
      BY <2>1 DEF Whole!percentage, Whole!Ratio
  <2> HIDE DEF agreeing, counted
  <2> QED
    BY <2>2, <2>3, SameCardinality
<1>2. ASSUME NEW P, NEW Q, NEW side
      PROVE  trendDistribution(P, Q, side) = Whole(request)!trendDistribution(P, Q, side)
  <2> DEFINE A == Answered(P, Q)
             counted == {a \in A : trendSide(derived(a)) # "Excluded"}
             chosenSide == {a \in counted : trendSide(derived(a)) = side}
  <2>1. /\ counted = {a \in A : Whole(request)!trendSide(Whole(request)!derived(a)) # "Excluded"}
        /\ chosenSide = {a \in counted : Whole(request)!trendSide(Whole(request)!derived(a)) = side}
        /\ A = Whole(request)!Answered(P, Q)
    BY SameRows, SameClassifiers
  <2>2. trendDistribution(P, Q, side) = <<Cardinality(chosenSide), Cardinality(counted)>>
    BY DEF trendDistribution, Ratio
  <2>3. Whole(request)!trendDistribution(P, Q, side) =
          <<Whole(request)!Cardinality(chosenSide), Whole(request)!Cardinality(counted)>>
    <3> HIDE DEF A
    <3> QED
      BY <2>1 DEF Whole!trendDistribution, Whole!Ratio
  <2> HIDE DEF chosenSide, counted
  <2> QED
    BY <2>2, <2>3, SameCardinality
<1>3. ASSUME NEW P, NEW Q PROVE sectionShares(P, Q) = Whole(request)!sectionShares(P, Q)
  BY <1>2, SameQuestions DEF sectionShares, Whole!sectionShares, sides, Whole!sides
<1> QED
  BY <1>1, <1>2, <1>3

LEMMA SameColumns ==
  ASSUME Kept
  PROVE  /\ \A P, d : chosen(P, d) = Whole(request)!chosen(P, d)
         /\ \A P, D : workbookDemographics(P, D) = Whole(request)!workbookDemographics(P, D)
         /\ \A P, D, column :
              demographicCount(P, D, column) = Whole(request)!demographicCount(P, D, column)
         /\ \A P, column : labelled(P, column) = Whole(request)!labelled(P, column)
         /\ \A P, D, column, base, value :
              demographicValue(P, D, column, base, value)
                = Whole(request)!demographicValue(P, D, column, base, value)
<1>1. \A d : options(d) = Whole(request)!options(d)
  BY SameRows DEF options, Whole!options
<1>2. ASSUME NEW P, NEW d PROVE chosen(P, d) = Whole(request)!chosen(P, d)
  BY SameRows DEF chosen, Whole!chosen
<1>3. ASSUME NEW P, NEW d, NEW o PROVE optionCount(P, d, o) = Whole(request)!optionCount(P, d, o)
  BY SameRows, SameCardinality DEF optionCount, Whole!optionCount
<1>4. ASSUME NEW P, NEW D
      PROVE  workbookDemographics(P, D) = Whole(request)!workbookDemographics(P, D)
  BY <1>1, <1>2 DEF workbookDemographics, Whole!workbookDemographics, Kept
<1>5. ASSUME NEW P, NEW D, NEW column
      PROVE  demographicCount(P, D, column) = Whole(request)!demographicCount(P, D, column)
  <2> DEFINE Q == content[request.survey].questions
             having == {d \in D : /\ Q[d].group = column[1]
                                  /\ column[2] \in options(d) \cup chosen(P, d)}
             first == CHOOSE d \in having : \A e \in having : Q[d].position <= Q[e].position
  <2>1. having = {d \in D :
                    /\ Q[d].group = column[1]
                    /\ column[2] \in Whole(request)!options(d) \cup Whole(request)!chosen(P, d)}
    BY <1>1, <1>2
  <2>2. demographicCount(P, D, column) =
          IF having = {} THEN -1 ELSE optionCount(P, first, column[2])
    BY DEF demographicCount, Kept
  <2>3. Whole(request)!demographicCount(P, D, column) =
          IF having = {} THEN -1 ELSE Whole(request)!optionCount(P, first, column[2])
    <3> HIDE DEF having
    <3> QED
      BY <2>1 DEF Whole!demographicCount
  <2> HIDE DEF having, first
  <2> QED
    BY <1>3, <2>2, <2>3
<1>6. ASSUME NEW P, NEW column PROVE labelled(P, column) = Whole(request)!labelled(P, column)
  BY SameRows, SameQuestions DEF labelled, Whole!labelled, Kept
<1>7. ASSUME NEW P, NEW D, NEW column, NEW base, NEW value
      PROVE  demographicValue(P, D, column, base, value)
               = Whole(request)!demographicValue(P, D, column, base, value)
  BY <1>5, <1>6 DEF demographicValue, Whole!demographicValue, Hidden, Whole!Hidden
<1> QED
  BY <1>2, <1>4, <1>5, <1>6, <1>7

LEMMA SameAverage == \A share : weightedAverage(share) = Whole(request)!weightedAverage(share)
<1>1. \A f : sum(f) = Whole(request)!sum(f)
  BY DEF sum, Whole!sum, FoldFunction, Whole!FoldFunction, FoldFunctionOnSet,
     Whole!FoldFunctionOnSet, MapThenFoldSet, Whole!MapThenFoldSet
<1>2. \A share : plainMean(share) = Whole(request)!plainMean(share)
  BY <1>1, SameCardinality DEF plainMean, Whole!plainMean, FoldSet, Whole!FoldSet, MapThenFoldSet,
     Whole!MapThenFoldSet
<1> QED
  BY <1>1, <1>2 DEF weightedAverage, Whole!weightedAverage

LEMMA SameFeedback ==
  ASSUME Kept, NEW P, NEW D, NEW Q
  PROVE  feedbackWorkbook(P, D, Q) = Whole(request)!feedbackWorkbook(P, D, Q)
<1> USE DEF agreementColumn, disagreementColumn, Whole!agreementColumn, Whole!disagreementColumn
<1>1. ASSUME NEW R, NEW side PROVE averageOf(P, R, side) = Whole(request)!averageOf(P, R, side)
  BY SameShares, SameAverage DEF averageOf, Whole!averageOf
<1>2. ASSUME NEW q, NEW column
      PROVE  feedbackCell(P, D, q, column) = Whole(request)!feedbackCell(P, D, q, column)
  BY SameShares, SameColumns DEF feedbackCell, Whole!feedbackCell
<1>3. ASSUME NEW R, NEW column
      PROVE  feedbackAverage(P, D, R, column) = Whole(request)!feedbackAverage(P, D, R, column)
  <2>1. averageOf(labelled(P, column), R, "Agree")
          = Whole(request)!averageOf(Whole(request)!labelled(P, column), R, "Agree")
    BY SameShares, SameAverage, SameColumns DEF averageOf, Whole!averageOf
  <2> QED
    BY <1>1, <2>1, SameColumns DEF feedbackAverage, Whole!feedbackAverage
<1>4. \A R : sectionHasResponses(P, R) = Whole(request)!sectionHasResponses(P, R)
  BY SameShares DEF sectionHasResponses, Whole!sectionHasResponses
<1>5. ASSUME NEW sections
      PROVE  answeredSections(P, sections) = Whole(request)!answeredSections(P, sections)
  BY <1>4 DEF answeredSections, Whole!answeredSections
<1>6. ASSUME NEW sections, NEW listed, NEW supplementary
      PROVE  averageRows(sections, listed, supplementary)
               = Whole(request)!averageRows(sections, listed, supplementary)
  BY DEF averageRows, Whole!averageRows
<1>7. ASSUME NEW R, NEW averages, NEW columns
      PROVE  feedbackRows(P, D, R, averages, columns)
               = Whole(request)!feedbackRows(P, D, R, averages, columns)
  BY <1>2, <1>3 DEF feedbackRows, Whole!feedbackRows
<1>8. ASSUME NEW sections, NEW supplementary
      PROVE  buildWorkforceFeedbackRows(P, D, sections, supplementary)
               = Whole(request)!buildWorkforceFeedbackRows(P, D, sections, supplementary)
  BY <1>6, <1>7, SameColumns DEF buildWorkforceFeedbackRows, Whole!buildWorkforceFeedbackRows
<1>9. {q \in Q : ~questions[q].supplementary}
        = {q \in Q : ~Whole(request)!questions[q].supplementary}
  BY SameRows
<1>10. {q \in Q : questions[q].supplementary /\ sectionHasResponses(P, {q})}
         = {q \in Q : /\ Whole(request)!questions[q].supplementary
                      /\ Whole(request)!sectionHasResponses(P, {q})}
  BY <1>4, SameRows
<1> QED
  BY <1>5, <1>8, <1>9, <1>10, SameQuestions DEF feedbackWorkbook, Whole!feedbackWorkbook

LEMMA SameTable ==
  ASSUME Kept PROVE workforceTable = Whole(request)!workforceTable
<1>1. sizes = Whole(request)!sizes /\ groups = Whole(request)!groups
  BY DEF sizes, Whole!sizes, groups, Whole!groups, included, Whole!included
<1>2. \A g : hidden(g) <=> Whole(request)!hidden(g)
  BY GroupsAreWhole, SameCardinality DEF hidden, Whole!hidden
<1>3. \A Q, g : benchmark(Q, g) = Whole(request)!benchmark(Q, g)
  BY <1>2, GroupsAreWhole, SameShares DEF benchmark, Whole!benchmark, Hidden, Whole!Hidden
<1>4. ASSUME NEW part, NEW G
      PROVE  BenchmarkRows(part, G) = Whole(request)!BenchmarkRows(part, G)
  BY <1>3 DEF BenchmarkRows, Whole!BenchmarkRows
<1>5. \A Q : each(Q) = Whole(request)!each(Q)
  BY DEF each, Whole!each
<1> QED
  BY <1>1, <1>4, <1>5, SameQuestions DEF workforceTable, Whole!workforceTable

LEMMA SameCaptions ==
  ASSUME Kept
  PROVE  /\ \A p, q : detailCaption(p, q) = Whole(request)!detailCaption(p, q)
         /\ \A q : detailCaptions(q) = Whole(request)!detailCaptions(q)
<1>1. responseDetailOptions = Whole(request)!responseDetailOptions
  BY DEF responseDetailOptions, Whole!responseDetailOptions
<1>2. ASSUME NEW v, NEW q
      PROVE  reportResponseCaption(v, q) = Whole(request)!reportResponseCaption(v, q)
  BY <1>1, SameClassifiers DEF reportResponseCaption, Whole!reportResponseCaption, Codes,
     Whole!Codes, number, Whole!number
<1>3. \A o : optionScore(o) = Whole(request)!optionScore(o)
  BY DEF optionScore, Whole!optionScore, NoScore, Whole!NoScore, Codes, Whole!Codes, number,
     Whole!number
<1>4. \A q : detailOptions(q) = Whole(request)!detailOptions(q)
  BY <1>1, <1>3 DEF detailOptions, Whole!detailOptions
<1>5. \A p, q : detailCaption(p, q) = Whole(request)!detailCaption(p, q)
  BY <1>2, SameRows DEF detailCaption, Whole!detailCaption
<1>6. \A q : detailCaptions(q) = Whole(request)!detailCaptions(q)
  BY <1>4, SameRows DEF detailCaptions, Whole!detailCaptions
<1> QED
  BY <1>5, <1>6

LEMMA SameDetail ==
  ASSUME Kept, NEW P, NEW Q
  PROVE  detailWorkbook(P, Q) = Whole(request)!detailWorkbook(P, Q)
<1>1. ASSUME NEW R, NEW q, NEW caption
      PROVE  detailShare(R, q, caption) = Whole(request)!detailShare(R, q, caption)
  BY SameCaptions, SameRows, SameCardinality DEF detailShare, Whole!detailShare
<1> DEFINE D == answeredDemographics(P)
           all == <<"overall", "total">>
           population(column) ==
             {p \in P : \E d \in demographicsOf(p) :
                          questions[d].group = column[1] /\ captionOf(p, d) = column[2]}
           wholePopulation(column) ==
             {p \in P : \E d \in Whole(request)!demographicsOf(p) :
                          /\ Whole(request)!questions[d].group = column[1]
                          /\ Whole(request)!captionOf(p, d) = column[2]}
           rows == UNION {{<<q, o>> : o \in detailCaptions(q)} : q \in Q}
           wholeRows == UNION {{<<q, o>> : o \in Whole(request)!detailCaptions(q)} : q \in Q}
           value(k) == IF k[2] = all THEN detailShare(P, k[1][1], k[1][2])
                       ELSE IF demographicCount(P, D, k[2]) < PrivacyThreshold THEN Hidden
                       ELSE detailShare(population(k[2]), k[1][1], k[1][2])
<1>2. rows = wholeRows
  BY SameCaptions
<1>3. \A column : population(column) = wholePopulation(column)
  BY SameQuestions, SameRows
<1>4. D = Whole(request)!answeredDemographics(P)
  BY SameQuestions
<1>5. detailWorkbook(P, Q) = [k \in rows \X ({all} \cup workbookDemographics(P, D)) |-> value(k)]
  BY DEF detailWorkbook
<1>6. Whole(request)!detailWorkbook(P, Q) =
         [k \in wholeRows \X ({all} \cup Whole(request)!workbookDemographics(P, D)) |->
            IF k[2] = all THEN Whole(request)!detailShare(P, k[1][1], k[1][2])
            ELSE IF Whole(request)!demographicCount(P, D, k[2]) < PrivacyThreshold
            THEN Whole(request)!Hidden
            ELSE Whole(request)!detailShare(wholePopulation(k[2]), k[1][1], k[1][2])]
  <2> HIDE DEF D
  <2> QED
    BY <1>4 DEF Whole!detailWorkbook
<1> HIDE DEF rows, wholeRows, population, wholePopulation, D, all
<1>7. Hidden = Whole(request)!Hidden
  BY DEF Hidden, Whole!Hidden
<1> QED
  BY <1>1, <1>2, <1>3, <1>5, <1>6, <1>7, SameColumns

(***************************************************************************)
(* Cohorts of respondents.                                                  *)
(***************************************************************************)
\* A request that reads a survey finds its rows as they were uploaded, or finds nobody.
LEMMA KeptOrNobody ==
  ASSUME IInv, request # Idle, request.op # "customReports"
  PROVE  /\ request.survey \in Surveys
         /\ Kept \/ \A F : organizationRespondents(F) = {}
         /\ Kept \/ request.survey \in deleted
         /\ request.survey \in deleted => \A O : completed(O) = {}
<1>1. request.survey \in DOMAIN uploaded /\ DOMAIN uploaded \subseteq Surveys
  BY DEF IInv, RowsOK, RequestOK
<1>2. uploaded[request.survey] = content[request.survey]
  BY <1>1 DEF IInv, RowsOK
<1>3. ASSUME request.survey \in deleted, NEW O PROVE completed(O) = {}
  <2>1. DOMAIN respondents = {}
    BY <1>3 DEF respondents
  <2> QED
    BY <2>1 DEF completed
<1>4. ASSUME request.survey \in deleted PROVE \A F : organizationRespondents(F) = {}
  BY <1>3, <1>4 DEF organizationRespondents
<1> QED
  BY <1>1, <1>2, <1>3, <1>4 DEF Kept

LEMMA PeopleAreFinite ==
  ASSUME request.survey \in Surveys, NEW F
  PROVE  IsFiniteSet(Whole(request)!organizationRespondents(F))
<1>1. Whole(request)!respondents = content[request.survey].respondents
  BY DEF Whole!respondents
<1>2. IsFiniteSet(DOMAIN content[request.survey].respondents)
  BY ReportsAssumption
<1>3. Whole(request)!organizationRespondents(F) \subseteq DOMAIN content[request.survey].respondents
  BY <1>1 DEF Whole!organizationRespondents, Whole!completed
<1> QED
  BY <1>2, <1>3, FS_Subset

\* A cohort is not smaller than a part of it that is large enough to be shown.
LEMMA LargeEnough ==
  ASSUME NEW S, NEW T, S \subseteq T, IsFiniteSet(T), ~(Cardinality(S) < PrivacyThreshold)
  PROVE  Large(T)
<1>1. Cardinality(S) <= Cardinality(T) /\ Cardinality(S) \in Nat /\ Cardinality(T) \in Nat
  BY FS_Subset, FS_CardinalityType
<1> QED
  BY <1>1, ThresholdAssumption DEF Large

LEMMA SmallNobody == Cardinality({}) = 0 /\ Cardinality({}) < PrivacyThreshold
  BY FS_EmptySet, ThresholdAssumption

LEMMA FilteredLarge ==
  ASSUME IInv, request # Idle, request.op # "customReports", ~few(filtered)
  PROVE  Large(people(request))
<1>1. filtered \subseteq people(request)
  <2>1. CASE Kept
    BY <2>1, SamePeople DEF filtered, people
  <2>2. CASE ~Kept
    BY <2>2, KeptOrNobody DEF filtered
  <2> QED
    BY <2>1, <2>2
<1>2. IsFiniteSet(people(request))
  BY KeptOrNobody, PeopleAreFinite DEF people
<1> QED
  BY <1>1, <1>2, LargeEnough DEF few

(***************************************************************************)
(* Shares of nobody's answers.                                               *)
(***************************************************************************)
LEMMA NobodysShare == \A Q, side : trendDistribution({}, Q, side) = <<0, 0>>
<1>1. \A Q : Answered({}, Q) = {}
  BY DEF Answered
<1> QED
  BY <1>1, SmallNobody DEF trendDistribution, Ratio

LEMMA NobodysAgreement ==
  ASSUME NEW Q, NEW O, completed(O) = {} PROVE percentage(Q, O) = <<0, 0>>
<1>1. Answered({}, Q) = {}
  BY DEF Answered
<1> QED
  BY <1>1, SmallNobody DEF percentage, Ratio

(***************************************************************************)
(* The benchmark table and its workbook: of the survey that was found, or of     *)
(* nobody.                                                                  *)
(***************************************************************************)
LEMMA WorkforceReports == ASSUME IInv, workforceComparison \/ benchmarkWorkbook PROVE GoodReply
<1>1. PICK op \in {"workforceComparison", "benchmarkWorkbook"}, status \in {"data", "counted"} :
        Reads(op) /\ Reply(status, workforceTable)
  BY DEF workforceComparison, benchmarkWorkbook, Data, Figures
<1>2. request # Idle /\ request.op = op
  BY <1>1 DEF Reads, Serving
<1>3. PICK part, G : workforceTable = BenchmarkRows(part, G)
  BY DEF workforceTable
<1>4. Countable(request, workforceTable, Whole(request)!workforceTable)
  <2>1. CASE Kept
    BY <2>1, SameTable DEF Countable
  <2>2. CASE ~Kept
    <3>1. \A O : completed(O) = {}
      BY <1>2, <2>2, KeptOrNobody
    <3>2. ASSUME NEW k \in DOMAIN workforceTable PROVE workforceTable[k] \in {Hidden, <<0, 0>>}
      <4>1. workforceTable[k] = benchmark(part[k[1]], <<k[2], k[3]>>)
        BY <1>3 DEF BenchmarkRows
      <4> QED
        BY <3>1, <4>1, NobodysAgreement DEF benchmark
    <3> QED
      BY <1>2, <3>2 DEF Countable, Discloses
  <2> QED
    BY <2>1, <2>2
<1> QED
  BY <1>1, <1>3, <1>4, TableReply DEF benchmarkTables

(***************************************************************************)
(* Breakdowns.                                                              *)
(***************************************************************************)
LEMMA FilteredReply ==
  ASSUME IInv, request # Idle,
         request.op \in {"responseBreakdownBySection", "responseBreakdown"}, ~confidential,
         NEW cells
  PROVE  Confidential(request, cells)
<1>1. request.filter # {} => Large(people(request))
  BY FilteredLarge DEF confidential
<1> QED
  BY <1>1 DEF Confidential, CohortsLarge, benchmarkTables, withMeTables, feedbackBooks,
     verbatimBooks

LEMMA BreakdownBySection == ASSUME IInv, responseBreakdownBySection PROVE GoodReply
<1> DEFINE cells == sectionShares(filtered, own)
<1>1. request # Idle /\ request.op = "responseBreakdownBySection" /\ ~request.dummy
  BY DEF responseBreakdownBySection, Reads, Serving
<1>2. CASE confidential
  BY <1>1, <1>2, Refusal DEF responseBreakdownBySection
<1>3. CASE ~confidential
  <2>1. Data(cells)
    BY <1>3 DEF responseBreakdownBySection
  <2>2. Confidential(request, cells)
    BY <1>1, <1>3, FilteredReply
  <2>3. Countable(request, cells, Whole(request)!sectionShares(people(request), wholeOwn(request)))
    <3>1. CASE Kept
      BY <3>1, SameShares, SamePeople, SameQuestions DEF Countable, filtered, own, people, wholeOwn
    <3>2. CASE ~Kept
      <4>1. filtered = {}
        BY <1>1, <3>2, KeptOrNobody DEF filtered
      <4>2. ASSUME NEW k \in DOMAIN cells PROVE cells[k] = <<0, 0>>
        BY <4>1, NobodysShare DEF sectionShares
      <4> HIDE DEF cells
      <4> QED
        BY <1>1, <4>2 DEF Countable, Discloses
    <3> QED
      BY <3>1, <3>2
  <2>4. Entitled(request, cells) /\ Coherent(request, cells)
    BY <1>1, <2>3 DEF Entitled, Coherent, verbatimBooks, feedbackBooks
  <2> QED
    BY <1>1, <2>1, <2>2, <2>4 DEF GoodReply, Good, Data
<1> QED
  BY <1>2, <1>3

LEMMA Breakdown == ASSUME IInv, responseBreakdown PROVE GoodReply
<1> DEFINE cells == [q \in resolved(own) |-> detailedDistribution(filtered, q)]
<1>1. /\ request # Idle /\ request.op = "responseBreakdown" /\ ~request.dummy
      /\ \/ Reply("notFound", <<>>) \/ Reply("confidential", <<>>)
         \/ ~confidential /\ Data(cells)
  BY DEF responseBreakdown, Reads, Serving
<1> HIDE DEF cells
<1>2. CASE Reply("notFound", <<>>) \/ Reply("confidential", <<>>)
  BY <1>1, <1>2, Refusal
<1>3. CASE ~confidential /\ Data(cells)
  <2>1. Confidential(request, cells)
    BY <1>1, <1>3, FilteredReply
  <2>2. Entitled(request, cells) /\ Coherent(request, cells)
    BY <1>1 DEF Entitled, Coherent, verbatimBooks, feedbackBooks
  <2> QED
    BY <1>1, <1>3, <2>1, <2>2 DEF GoodReply, Good, Data
<1> QED
  BY <1>1, <1>2, <1>3

(***************************************************************************)
(* Who a column is made of.                                                  *)
(***************************************************************************)
\* In what follows r is a request that reads the survey it found, with nothing deleted.
LEMMA WholeSurvey ==
  ASSUME NEW r, r.survey \in Surveys
  PROVE  /\ Whole(r)!questions = content[r.survey].questions
         /\ Whole(r)!respondents = content[r.survey].respondents
         /\ people(r) \subseteq DOMAIN content[r.survey].respondents
         /\ wholeDemographics(r) \subseteq DOMAIN content[r.survey].questions
         /\ \A d \in wholeDemographics(r) : Whole(r)!isDemographicQuestion(d)
<1>1. Whole(r)!questions = content[r.survey].questions
  BY DEF Whole!questions
<1>2. Whole(r)!respondents = content[r.survey].respondents
  BY DEF Whole!respondents
<1>3. people(r) \subseteq DOMAIN content[r.survey].respondents
  BY <1>2 DEF people, Whole!organizationRespondents, Whole!completed
<1>4. ASSUME NEW d \in Whole(r)!answeredDemographics(people(r))
      PROVE  d \in DOMAIN content[r.survey].questions /\ Whole(r)!isDemographicQuestion(d)
  <2>1. PICK p \in people(r) : d \in Whole(r)!answers(p) /\ Whole(r)!isDemographicQuestion(d)
    BY DEF Whole!answeredDemographics, Whole!demographicsOf
  <2> QED
    BY <1>2, <1>3, <2>1, ReportsAssumption DEF Whole!answers
<1>5. ASSUME NEW d \in Whole(r)!surveyDemographicQuestions
      PROVE  d \in DOMAIN content[r.survey].questions /\ Whole(r)!isDemographicQuestion(d)
  BY <1>1 DEF Whole!surveyDemographicQuestions
<1> QED
  BY <1>1, <1>2, <1>3, <1>4, <1>5 DEF wholeDemographics

LEMMA LabelledAreMembers ==
  ASSUME NEW r, r.survey \in Surveys, NEW column
  PROVE  /\ allPrefixed(r, column[1]) => Whole(r)!labelled(people(r), column) = Members(r, column)
         /\ nonePrefixed(r, column[1]) => Whole(r)!labelled(people(r), column) = {}
<1> DEFINE Q == content[r.survey].questions
<1>1. ASSUME NEW p \in people(r), NEW d \in Whole(r)!demographicsOf(p), Q[d].group = column[1]
      PROVE  d \in Grouped(r, column[1])
  <2>1. d \in DOMAIN content[r.survey].respondents[p].answers /\ Whole(r)!isDemographicQuestion(d)
    BY WholeSurvey DEF Whole!demographicsOf, Whole!answers
  <2>2. d \in DOMAIN Q
    BY <2>1, WholeSurvey, ReportsAssumption
  <2>3. d \in Whole(r)!surveyDemographicQuestions
    BY <2>1, <2>2, WholeSurvey DEF Whole!surveyDemographicQuestions
  <2> QED
    BY <1>1, <2>3, WholeSurvey DEF Grouped
<1>2. Whole(r)!labelled(people(r), column) =
        {p \in people(r) : \E d \in Whole(r)!demographicsOf(p) :
           Q[d].fprefix /\ Q[d].group = column[1] /\ Whole(r)!captionOf(p, d) = column[2]}
  BY DEF Whole!labelled
<1>3. Members(r, column) =
        {p \in people(r) : \E d \in Whole(r)!demographicsOf(p) :
           Q[d].group = column[1] /\ Whole(r)!captionOf(p, d) = column[2]}
  BY WholeSurvey DEF Members
<1>4. /\ allPrefixed(r, column[1]) => \A d \in Grouped(r, column[1]) : Q[d].fprefix
      /\ nonePrefixed(r, column[1]) => \A d \in Grouped(r, column[1]) : ~Q[d].fprefix
  BY WholeSurvey DEF allPrefixed, nonePrefixed
<1> HIDE DEF Q
<1> QED
  BY <1>1, <1>2, <1>3, <1>4

\* Whoever chose the option of a column is among those that the column is made of.
LEMMA BehindLarge ==
  ASSUME NEW r, r.survey \in Surveys, NEW column, Large(Members(r, column)),
         allPrefixed(r, column[1]) \/ nonePrefixed(r, column[1])
  PROVE  Large(Behind(r, column))
<1>1. Members(r, column) \subseteq people(r)
  BY DEF Members
<1>2. Whole(r)!labelled(people(r), column) \subseteq people(r)
  BY DEF Whole!labelled
<1>3. Members(r, column) \subseteq Behind(r, column) /\ Behind(r, column) \subseteq people(r)
  BY <1>1, <1>2, LabelledAreMembers DEF Behind
<1>4. IsFiniteSet(people(r))
  BY WholeSurvey, ReportsAssumption, FS_Subset
<1>5. /\ IsFiniteSet(Behind(r, column))
      /\ Cardinality(Members(r, column)) <= Cardinality(Behind(r, column))
      /\ Cardinality(Members(r, column)) \in Nat /\ Cardinality(Behind(r, column)) \in Nat
  BY <1>3, <1>4, FS_Subset, FS_CardinalityType
<1> QED
  BY <1>5, ThresholdAssumption DEF Large

(***************************************************************************)
(* Feedback workbooks.                                                      *)
(***************************************************************************)
\* Every cell of the workbook is that of a question or an average in its column.
LEMMA FeedbackCells ==
  ASSUME NEW P, NEW D, NEW Q, NEW k \in DOMAIN feedbackWorkbook(P, D, Q)
  PROVE  \/ \E q : feedbackWorkbook(P, D, Q)[k] = feedbackCell(P, D, q, k[2])
         \/ \E R : feedbackWorkbook(P, D, Q)[k] = feedbackAverage(P, D, R, k[2])
<1>1. PICK R, averages, columns : feedbackWorkbook(P, D, Q) = feedbackRows(P, D, R, averages, columns)
  BY DEF feedbackWorkbook, buildWorkforceFeedbackRows
<1> QED
  BY <1>1 DEF feedbackRows

LEMMA DemographicCell ==
  ASSUME NEW P, NEW D, NEW Q, NEW k \in DOMAIN feedbackWorkbook(P, D, Q), demographic(k[2]),
         feedbackWorkbook(P, D, Q)[k] # Hidden
  PROVE  ~(demographicCount(P, D, k[2]) < PrivacyThreshold)
<1> DEFINE cell == feedbackWorkbook(P, D, Q)[k]
<1>1. k[2] # agreementColumn /\ k[2] # disagreementColumn
  BY DEF demographic, agreementColumn, disagreementColumn
<1>2. CASE \E q : cell = feedbackCell(P, D, q, k[2])
  BY <1>1, <1>2 DEF feedbackCell, demographicValue
<1>3. CASE \E R : cell = feedbackAverage(P, D, R, k[2])
  BY <1>1, <1>3 DEF feedbackAverage, demographicValue
<1> QED
  BY <1>2, <1>3, FeedbackCells

\* Without questions, or without respondents, a workbook discloses nothing.
LEMMA AverageOfNone == \A P, side : averageOf(P, {}, side) = <<0, 0>>
<1>1. ASSUME NEW P, NEW side PROVE [q \in {} |-> trendDistribution(P, {q}, side)] = <<>>
  OBVIOUS
<1> QED
  BY <1>1 DEF averageOf, weightedAverage

LEMMA EmptyFeedback ==
  ASSUME NEW P, NEW D, NEW Q, Q = {} \/ P = {}, NEW k \in DOMAIN feedbackWorkbook(P, D, Q)
  PROVE  feedbackWorkbook(P, D, Q)[k] \in {Hidden, <<0, 0>>}
<1> DEFINE asked == {q \in Q : ~questions[q].supplementary}
           sections == answeredSections(P, questionsByCategory(asked))
           supplementary == {q \in Q : questions[q].supplementary /\ sectionHasResponses(P, {q})}
           listed == UNION {sections[c] : c \in DOMAIN sections}
           averages == averageRows(sections, listed, supplementary)
           columns == {agreementColumn, disagreementColumn} \cup workbookDemographics(P, D)
<1>1. feedbackWorkbook(P, D, Q) = feedbackRows(P, D, listed \cup supplementary, averages, columns)
  BY DEF feedbackWorkbook, buildWorkforceFeedbackRows
<1>2. ASSUME P = {}, NEW R PROVE ~sectionHasResponses(P, R)
  <2>1. ASSUME NEW q PROVE ~(trendDistribution(P, {q}, "Agree")[2] > 0)
    <3>1. trendDistribution(P, {q}, "Agree") = <<0, 0>>
      BY <1>2, NobodysShare
    <3> QED
      BY <3>1
  <2> QED
    BY <2>1 DEF sectionHasResponses
<1>3. supplementary = {}
  BY <1>2
<1>4. DOMAIN sections = {}
  <2>1. Q = {} => DOMAIN questionsByCategory(asked) = {}
    BY DEF questionsByCategory
  <2> QED
    BY <1>2, <2>1 DEF answeredSections
<1>5. listed = {}
  BY <1>4
<1> HIDE DEF sections, listed, supplementary
<1>6. DOMAIN averages = {<<"average", "SURVEY">>} /\ averages[<<"average", "SURVEY">>] = {}
  BY <1>3, <1>4, <1>5 DEF averageRows
<1> HIDE DEF averages, columns
<1>7. k[1] = <<"average", "SURVEY">>
      /\ feedbackWorkbook(P, D, Q)[k] = feedbackAverage(P, D, averages[k[1]], k[2])
  BY <1>1, <1>3, <1>5, <1>6 DEF feedbackRows
<1> QED
  BY <1>6, <1>7, AverageOfNone DEF feedbackAverage, demographicValue

\* Some element of a set of questions of the survey comes first.
LEMMA FirstPosition ==
  ASSUME NEW s \in Surveys,
         NEW H, H # {}, H \subseteq DOMAIN content[s].questions
  PROVE  \E d \in H : \A e \in H :
           content[s].questions[d].position
             <= content[s].questions[e].position
<1> DEFINE place(d) == content[s].questions[d].position
           places == {place(d) : d \in H}
<1>1. places \in SUBSET Nat /\ places # {}
  BY ReportsAssumption
<1> HIDE DEF place
<1>2. PICK n \in places : \A m \in places : n <= m
  <2> HIDE DEF places
  <2> QED
    BY <1>1, Least
<1>3. PICK d \in H : n = place(d)
  BY <1>2
<1>4. \A e \in H : place(d) <= place(e)
  BY <1>2, <1>3
<1> QED
  BY <1>3, <1>4 DEF place

\* The respondents counted for an option are in the cohort of its column.
LEMMA ColumnLarge ==
  ASSUME IInv, request # Idle, request.op # "customReports", NEW D, NEW column,
         \A d \in D : isDemographicQuestion(d),
         Kept => D \subseteq DOMAIN content[request.survey].questions,
         ~(demographicCount(organizationRespondents(request.filter), D, column) < PrivacyThreshold)
  PROVE  Large(Members(request, column))
<1> DEFINE P == organizationRespondents(request.filter)
           Q == uploaded[request.survey].questions
           having == {d \in D : /\ Q[d].group = column[1]
                                /\ column[2] \in options(d) \cup chosen(P, d)}
           first == CHOOSE d \in having : \A e \in having : Q[d].position <= Q[e].position
           counted(d) == {p \in P : d \in answers(p) /\ captionOf(p, d) = column[2]}
<1>1. demographicCount(P, D, column) =
        IF having = {} THEN -1 ELSE Cardinality(counted(first))
  BY DEF demographicCount, optionCount
<1> HIDE DEF P, having
<1>2. having # {} /\ ~(Cardinality(counted(first)) < PrivacyThreshold)
  BY <1>1, ThresholdAssumption DEF P
<1>3. Kept
  <2>1. ASSUME P = {} PROVE FALSE
    <3>1. counted(first) = {}
      BY <2>1
    <3> QED
      BY <1>2, <3>1, SmallNobody
  <2> QED
    BY <2>1, KeptOrNobody DEF P
<1>4. Q = content[request.survey].questions
  BY <1>3 DEF Kept
<1>5. first \in having
  <2>1. having \subseteq DOMAIN content[request.survey].questions
    BY <1>3 DEF having
  <2>2. \E d \in having : \A e \in having : Q[d].position <= Q[e].position
    BY <1>2, <1>4, <2>1, KeptOrNobody, FirstPosition
  <2> HIDE DEF Q
  <2> QED
    BY <2>2
<1>6. isDemographicQuestion(first) /\ Q[first].group = column[1]
  BY <1>5 DEF having
<1> HIDE DEF first
<1>7. counted(first) \subseteq Members(request, column)
  <2>1. P = people(request)
    BY <1>3, SamePeople DEF P, people
  <2>2. ASSUME NEW p \in counted(first) PROVE first \in Whole(request)!demographicsOf(p)
    BY <1>3, <1>6, SameQuestions DEF demographicsOf
  <2>3. Whole(request)!questions[first].group = column[1]
    BY <1>4, <1>6 DEF Whole!questions
  <2>4. ASSUME NEW p \in counted(first) PROVE Whole(request)!captionOf(p, first) = column[2]
    BY <1>3, SameRows
  <2> QED
    BY <2>1, <2>2, <2>3, <2>4 DEF Members
<1>8. IsFiniteSet(Members(request, column))
  <2>1. IsFiniteSet(people(request)) /\ Members(request, column) \subseteq people(request)
    BY KeptOrNobody, PeopleAreFinite DEF people, Members
  <2> QED
    BY <2>1, FS_Subset
<1> QED
  BY <1>2, <1>7, <1>8, LargeEnough

LEMMA DemographicsKnown ==
  ASSUME IInv, request # Idle, request.op # "customReports", NEW F
  PROVE  /\ \A d \in surveyDemographicQuestions \cup answeredDemographics(organizationRespondents(F)) :
              isDemographicQuestion(d)
         /\ Kept => surveyDemographicQuestions
                      \cup answeredDemographics(organizationRespondents(F))
                        \subseteq DOMAIN content[request.survey].questions
<1> DEFINE P == organizationRespondents(F)
<1>1. \A d \in surveyDemographicQuestions \cup answeredDemographics(P) : isDemographicQuestion(d)
  BY DEF surveyDemographicQuestions, answeredDemographics, demographicsOf
<1>2. ASSUME Kept, NEW d \in surveyDemographicQuestions \cup answeredDemographics(P)
      PROVE  d \in DOMAIN content[request.survey].questions
  <2>1. questions = content[request.survey].questions
    BY <1>2 DEF Kept, questions
  <2>2. respondents = content[request.survey].respondents
    BY <1>2 DEF Kept, respondents
  <2>3. CASE d \in surveyDemographicQuestions
    BY <2>1, <2>3 DEF surveyDemographicQuestions
  <2>4. CASE d \in answeredDemographics(P)
    <3>1. PICK p \in P : d \in answers(p)
      BY <2>4 DEF answeredDemographics, demographicsOf
    <3>2. p \in DOMAIN respondents
      BY <3>1 DEF organizationRespondents, completed
    <3> QED
      BY <2>2, <3>1, <3>2, KeptOrNobody, ReportsAssumption DEF answers
  <2> QED
    BY <1>2, <2>3, <2>4
<1> QED
  BY <1>1, <1>2

LEMMA FeedbackReply ==
  ASSUME IInv, NEW op \in feedbackBooks, Reads(op), Data(feedback)
  PROVE  GoodReply
<1> DEFINE D == demographicQuestions
           Q == IF confidential THEN {} ELSE own
<1>1. /\ request # Idle /\ request.op = op /\ ~request.dummy
      /\ op \in filteredReports /\ op # "customReports"
  BY DEF Reads, Serving, feedbackBooks, filteredReports
<1>2. feedback = feedbackWorkbook(filtered, D, Q)
  BY DEF feedback
<1>3. ASSUME NEW k \in DOMAIN feedback, feedback[k] # Hidden, demographic(k[2]),
             allPrefixed(request, k[2][1]) \/ nonePrefixed(request, k[2][1])
      PROVE  Large(Behind(request, k[2]))
  <2>1. ~(demographicCount(filtered, D, k[2]) < PrivacyThreshold)
    BY <1>2, <1>3, DemographicCell
  <2>2. /\ \A d \in D : isDemographicQuestion(d)
        /\ Kept => D \subseteq DOMAIN content[request.survey].questions
    BY <1>1, DemographicsKnown DEF demographicQuestions, filtered
  <2>3. request.survey \in Surveys
    BY <1>1, KeptOrNobody
  <2> HIDE DEF D
  <2>4. Large(Members(request, k[2]))
    BY <1>1, <2>1, <2>2, ColumnLarge DEF filtered
  <2> QED
    BY <1>3, <2>3, <2>4, BehindLarge
<1>4. ASSUME NEW k \in DOMAIN feedback, feedback[k] # Hidden, feedback[k][2] # 0
      PROVE  ~confidential /\ filtered # {}
  <2>1. ASSUME confidential \/ filtered = {} PROVE feedback[k] \in {Hidden, <<0, 0>>}
    BY <1>2, <1>4, <2>1, EmptyFeedback
  <2> QED
    BY <1>4, <2>1
<1> HIDE DEF D
<1>5. Confidential(request, feedback)
  <2>1. ~confidential /\ request.filter # {} => Large(people(request))
    BY <1>1, FilteredLarge DEF confidential
  <2> QED
    BY <1>1, <1>3, <1>4, <2>1 DEF Confidential, CohortsLarge, Discloses, feedbackBooks,
       benchmarkTables, withMeTables, verbatimBooks
<1>6. ASSUME NEW k \in DOMAIN feedback, feedback[k] # Hidden, feedback[k][2] # 0
      PROVE  feedback
               = Whole(request)!feedbackWorkbook(people(request), wholeDemographics(request), wholeOwn(request))
  <2>1. ~confidential /\ filtered # {}
    BY <1>4, <1>6
  <2>2. Kept
    BY <1>1, <2>1, KeptOrNobody DEF filtered
  <2>3. /\ filtered = people(request) /\ D = wholeDemographics(request)
        /\ Q = wholeOwn(request)
    BY <2>1, <2>2, SamePeople, SameQuestions
       DEF filtered, people, D, demographicQuestions, wholeDemographics, own, wholeOwn
  <2> QED
    BY <1>2, <2>2, <2>3, SameFeedback
<1>7. Coherent(request, feedback)
  BY <1>1, <1>6 DEF Coherent, Countable, Discloses, feedbackBooks
<1>8. Entitled(request, feedback)
  BY <1>1 DEF Entitled, feedbackBooks, verbatimBooks
<1> QED
  BY <1>1, <1>5, <1>7, <1>8 DEF GoodReply, Good, Data

LEMMA Feedbacks == ASSUME IInv, heatMap \/ detailedFeedback PROVE GoodReply
  BY FeedbackReply DEF heatMap, detailedFeedback, feedbackBooks

\* A report without filters is asked for everybody.
LEMMA Unfiltered ==
  ASSUME IInv, request # Idle, request.op \notin filteredReports,
         request.op # "openResponsesWorkbook"
  PROVE  request.filter = {} /\ everybody = filtered
<1>1. request.op \in Reports /\ request.filter \in Filters[request.op]
  BY DEF IInv, RequestOK, LetIn
<1>2. request.filter = {}
  BY <1>1, ReportsAssumption
<1> QED
  BY <1>2 DEF everybody, filtered

LEMMA PreviewReply == ASSUME IInv, feedbackPreview PROVE GoodReply
<1> DEFINE D == surveyDemographicQuestions \cup answeredDemographics(everybody)
           workbook == feedbackWorkbook(everybody, D, core)
           cells == classifyResponsePatternCells(workbook, request.ask.ranges)
<1>1. request # Idle /\ request.op = "feedbackPreview" /\ ~request.dummy /\ Data(cells)
  BY DEF feedbackPreview, Reads, Serving
<1>2. request.filter = {} /\ everybody = filtered
  BY <1>1, Unfiltered DEF filteredReports
<1>3. ASSUME NEW k \in DOMAIN cells, cells[k] # "gray", demographic(k[2])
      PROVE  k \in DOMAIN workbook /\ workbook[k] # Hidden
  <2> HIDE DEF workbook
  <2>1. k[2] # disagreementColumn
    BY <1>3 DEF demographic, disagreementColumn
  <2>2. /\ k \in DOMAIN workbook
        /\ \/ within(workbook[k], request.ask.ranges.positive)
           \/ within(workbook[k], request.ask.ranges.neutral)
    BY <1>3, <2>1 DEF classifyResponsePatternCells
  <2> QED
    BY <2>2 DEF within
<1> HIDE DEF cells
<1>4. ASSUME NEW k \in DOMAIN cells, cells[k] # "gray", demographic(k[2]),
             allPrefixed(request, k[2][1]) \/ nonePrefixed(request, k[2][1])
      PROVE  Large(Behind(request, k[2]))
  <2>1. ~(demographicCount(everybody, D, k[2]) < PrivacyThreshold)
    BY <1>3, <1>4, DemographicCell
  <2>2. /\ \A d \in D : isDemographicQuestion(d)
        /\ Kept => D \subseteq DOMAIN content[request.survey].questions
    BY <1>1, DemographicsKnown DEF everybody
  <2>3. request.survey \in Surveys
    BY <1>1, KeptOrNobody
  <2> HIDE DEF D
  <2>4. Large(Members(request, k[2]))
    BY <1>1, <1>2, <2>1, <2>2, ColumnLarge DEF filtered
  <2> QED
    BY <1>4, <2>3, <2>4, BehindLarge
<1> HIDE DEF D
<1>5. Confidential(request, cells)
  BY <1>1, <1>2, <1>4 DEF Confidential, CohortsLarge, Discloses, feedbackBooks,
     benchmarkTables, withMeTables, verbatimBooks
<1>6. Coherent(request, cells) /\ Entitled(request, cells)
  BY <1>1 DEF Coherent, Entitled, feedbackBooks, verbatimBooks
<1> QED
  BY <1>1, <1>5, <1>6 DEF GoodReply, Good, Data

(***************************************************************************)
(* Response Detail.                                                         *)
(***************************************************************************)
LEMMA DetailCell ==
  ASSUME NEW P, NEW Q, NEW k \in DOMAIN detailWorkbook(P, Q), demographic(k[2]),
         detailWorkbook(P, Q)[k] # Hidden
  PROVE  ~(demographicCount(P, answeredDemographics(P), k[2]) < PrivacyThreshold)
<1>1. k[2] # <<"overall", "total">>
  BY DEF demographic
<1> QED
  BY <1>1 DEF detailWorkbook

LEMMA DetailReply ==
  ASSUME IInv, Reads("responseDetailWorkbook"), ~few(everybody),
         NEW K \in SUBSET DOMAIN detailWorkbook(everybody, core),
         Figures([k \in K |-> detailWorkbook(everybody, core)[k]])
  PROVE  GoodReply
<1> DEFINE D == answeredDemographics(everybody)
           workbook == detailWorkbook(everybody, core)
           cells == [k \in K |-> workbook[k]]
<1>1. request # Idle /\ request.op = "responseDetailWorkbook" /\ ~request.dummy
  BY DEF Reads, Serving
<1>2. request.filter = {} /\ everybody = filtered
  BY <1>1, Unfiltered DEF filteredReports
<1>3. ASSUME NEW k \in DOMAIN cells, cells[k] # Hidden, demographic(k[2])
      PROVE  Large(Members(request, k[2]))
  <2>1. ~(demographicCount(everybody, D, k[2]) < PrivacyThreshold)
    BY <1>3, DetailCell
  <2>2. /\ \A d \in D : isDemographicQuestion(d)
        /\ Kept => D \subseteq DOMAIN content[request.survey].questions
    BY <1>1, DemographicsKnown DEF everybody
  <2> HIDE DEF D
  <2> QED
    BY <1>1, <1>2, <2>1, <2>2, ColumnLarge DEF filtered
<1> HIDE DEF cells
<1>4. Confidential(request, cells)
  BY <1>1, <1>2, <1>3 DEF Confidential, CohortsLarge, Discloses, feedbackBooks,
     benchmarkTables, withMeTables, verbatimBooks
<1>5. Kept
  <2>1. everybody # {}
    BY SmallNobody DEF few
  <2> QED
    BY <1>1, <2>1, KeptOrNobody DEF everybody
<1>6. workbook = wholeDetail(request)
  BY <1>2, <1>5, SameDetail, SamePeople, SameQuestions DEF wholeDetail, people, filtered, core
<1>7. K \subseteq DOMAIN workbook
  OBVIOUS
<1> HIDE DEF workbook
<1>8. Countable(request, cells, wholeDetail(request))
  BY <1>6, <1>7 DEF Countable, cells
<1>9. Coherent(request, cells) /\ Entitled(request, cells)
  BY <1>1, <1>8 DEF Coherent, Entitled, feedbackBooks, verbatimBooks
<1> QED
  BY <1>1, <1>4, <1>9 DEF GoodReply, Good, Figures, cells, workbook

LEMMA DetailWorkbook == ASSUME IInv, responseDetailWorkbook PROVE GoodReply
<1> DEFINE d == request.ask.demographic
           workbook == detailWorkbook(everybody, core)
           kept == {k \in DOMAIN workbook : k[2][1] \in {"overall", questions[d].group}}
<1>1. request # Idle /\ Reads("responseDetailWorkbook")
  BY DEF responseDetailWorkbook, Reads, Serving
<1>2. \/ Reply("confidential", <<>>) \/ Reply("notFound", <<>>) \/ Reply("error", <<>>)
      \/ ~few(everybody) /\ (Figures(workbook) \/ Figures([k \in kept |-> workbook[k]]))
  <2> HIDE DEF workbook
  <2> QED
    BY DEF responseDetailWorkbook, workbook
<1>3. CASE Reply("confidential", <<>>) \/ Reply("notFound", <<>>) \/ Reply("error", <<>>)
  BY <1>1, <1>3, Refusal
<1>4. CASE ~few(everybody) /\ Figures(workbook)
  <2>1. workbook = [k \in DOMAIN workbook |-> workbook[k]]
    BY DEF detailWorkbook
  <2> QED
    BY <1>1, <1>4, <2>1, DetailReply
<1>5. CASE ~few(everybody) /\ Figures([k \in kept |-> workbook[k]])
  BY <1>1, <1>5, DetailReply
<1> QED
  BY <1>2, <1>3, <1>4, <1>5

\* The respondents that chose a caption are in the cohort of the caption.
LEMMA ChoosingLarge ==
  ASSUME IInv, request # Idle, request.op # "customReports", NEW q, NEW caption, NEW S,
         S \subseteq {p \in filtered : q \in answers(p) /\ captionOf(p, q) = caption},
         ~(Cardinality(S) < PrivacyThreshold)
  PROVE  Large(Choosing(request, q, caption))
<1>1. Kept
  <2>1. ASSUME filtered = {} PROVE FALSE
    <3>1. S = {}
      BY <2>1
    <3> QED
      BY <3>1, SmallNobody
  <2> QED
    BY <2>1, KeptOrNobody DEF filtered
<1>2. S \subseteq Choosing(request, q, caption)
  BY <1>1, SamePeople, SameRows DEF Choosing, people, filtered
<1>3. IsFiniteSet(Choosing(request, q, caption))
  <2>1. IsFiniteSet(people(request)) /\ Choosing(request, q, caption) \subseteq people(request)
    BY KeptOrNobody, PeopleAreFinite DEF people, Choosing
  <2> QED
    BY <2>1, FS_Subset
<1> QED
  BY <1>2, <1>3, LargeEnough

LEMMA DetailTable == ASSUME IInv, responseDetailQuestionResult PROVE GoodReply
<1> DEFINE q == request.ask.question
           f == request.ask.demographic
           table == buildResponseDetailTable(everybody, q, f)
           cohort(o) == {p \in everybody : f \in answers(p) /\ captionOf(p, f) = o}
<1>1. /\ request # Idle /\ request.op = "responseDetailQuestionResult" /\ ~request.dummy
      /\ \/ Reply("notFound", <<>>) \/ Reply("data", <<>>) \/ Data(table)
  BY DEF responseDetailQuestionResult, Reads, Serving
<1>2. request.filter = {} /\ everybody = filtered
  BY <1>1, Unfiltered DEF filteredReports
<1>3. ASSUME NEW k \in DOMAIN table, table[k] # Hidden PROVE Large(Choosing(request, f, k[2]))
  <2>1. ~(Cardinality(cohort(k[2])) < PrivacyThreshold)
    BY <1>3 DEF buildResponseDetailTable
  <2> QED
    BY <1>1, <1>2, <2>1, ChoosingLarge
<1> HIDE DEF table
<1>4. ASSUME NEW cells, cells = <<>> \/ cells = table PROVE Good(request, cells)
  <2>1. ASSUME NEW k \in DOMAIN cells, cells[k] # Hidden PROVE Large(Choosing(request, f, k[2]))
    BY <1>3, <1>4, <2>1
  <2>2. Confidential(request, cells)
    BY <1>1, <1>2, <2>1 DEF Confidential, CohortsLarge, Discloses, feedbackBooks,
       benchmarkTables, withMeTables, verbatimBooks
  <2>3. Coherent(request, cells) /\ Entitled(request, cells)
    BY <1>1 DEF Coherent, Entitled, feedbackBooks, verbatimBooks
  <2> QED
    BY <2>2, <2>3 DEF Good
<1> QED
  BY <1>1, <1>4 DEF GoodReply, Data

(***************************************************************************)
(* Verbatims.                                                               *)
(***************************************************************************)
LEMMA SortedLarge ==
  ASSUME IInv, request # Idle, request.op # "customReports", NEW s,
         NEW p \in eligibleSortedRespondents(filtered, s), sortingCategory(p, s) # NoCaption
  PROVE  Large(Choosing(request, s, sortingCategory(p, s)))
<1> DEFINE S == {o \in filtered : sortingCategory(o, s) = sortingCategory(p, s)}
<1>1. Cardinality(S) >= PrivacyThreshold
  BY DEF eligibleSortedRespondents
<1>2. S \subseteq {o \in filtered : s \in answers(o) /\ captionOf(o, s) = sortingCategory(p, s)}
  BY DEF sortingCategory
<1>3. IsFiniteSet(filtered)
  <2>1. CASE Kept
    BY <2>1, SamePeople, KeptOrNobody, PeopleAreFinite DEF filtered
  <2>2. CASE ~Kept
    BY <2>2, KeptOrNobody, FS_EmptySet DEF filtered
  <2> QED
    BY <2>1, <2>2
<1>4. Cardinality(S) \in Nat
  BY <1>3, FS_Subset, FS_CardinalityType
<1>5. ~(Cardinality(S) < PrivacyThreshold)
  BY <1>1, <1>4, ThresholdAssumption
<1> QED
  BY <1>2, <1>5, ChoosingLarge

LEMMA VerbatimReply ==
  ASSUME IInv, NEW op \in verbatimBooks, Serving({op}), ~request.dummy,
         sorting # NoCaption => mayBeSorted /\ request.filter = {},
         request.filter # {} => ~few(filtered),
         NEW Q,
         Data(verbatims(IF sorting = NoCaption THEN filtered
                        ELSE eligibleSortedRespondents(filtered, sorting), Q, bySorting))
  PROVE  GoodReply
<1> DEFINE visible == IF sorting = NoCaption THEN filtered
                      ELSE eligibleSortedRespondents(filtered, sorting)
           cells == verbatims(visible, Q, bySorting)
<1>1. request # Idle /\ request.op = op /\ op # "customReports" /\ enrollment = rowOf(request)
  BY DEF Serving, verbatimBooks, enrollment, rowOf
<1>2. ASSUME NEW k \in DOMAIN cells, k[3] # NoCaption
      PROVE  /\ sorting # NoCaption
             /\ Large(Choosing(request, sorting, k[3]))
  <2>1. PICK a \in Answered(visible, Q) : k = <<a[2], a[1], bySorting(a[1])>>
    BY DEF verbatims
  <2>2. k[3] = bySorting(a[1]) /\ a[1] \in visible
    BY <2>1 DEF Answered
  <2>3. sorting # NoCaption
    BY <1>2, <2>2 DEF bySorting
  <2>4. k[3] = sortingCategory(a[1], sorting) /\ a[1] \in eligibleSortedRespondents(filtered, sorting)
    BY <2>2, <2>3 DEF bySorting
  <2> QED
    BY <1>1, <1>2, <2>3, <2>4, SortedLarge
<1> HIDE DEF cells
<1>3. Confidential(request, cells)
  <2>1. request.filter # {} => Large(people(request))
    BY <1>1, FilteredLarge
  <2>2. sorting = request.enrolled[request.program][request.org].filter
    BY DEF sorting, enrollment
  <2> QED
    BY <1>1, <1>2, <2>1, <2>2 DEF Confidential, CohortsLarge, feedbackBooks,
       benchmarkTables, withMeTables, verbatimBooks
<1>4. Entitled(request, cells)
  BY <1>1, <1>2 DEF Entitled, mayBeSorted
<1>5. Coherent(request, cells)
  BY <1>1 DEF Coherent, feedbackBooks, verbatimBooks
<1> QED
  BY <1>1, <1>3, <1>4, <1>5 DEF GoodReply, Good, Data, cells

LEMMA OpenAnswers == ASSUME IInv, openResponseAnswers PROVE GoodReply
<1> DEFINE q == request.ask.question
           visible == IF sorting = NoCaption THEN filtered
                      ELSE eligibleSortedRespondents(filtered, sorting)
<1>1. /\ request # Idle /\ ~request.dummy /\ Serving({"openResponseAnswers"})
      /\ \/ \E status \in {"unavailable", "denied", "notFound", "confidential"} : Reply(status, <<>>)
         \/ /\ sorting # NoCaption => mayBeSorted /\ request.filter = {}
            /\ ~few(filtered)
            /\ Data(verbatims(visible, {q}, bySorting))
  BY DEF openResponseAnswers, Reads, Serving
<1>2. ASSUME NEW status \in {"unavailable", "denied", "notFound", "confidential"},
             Reply(status, <<>>)
      PROVE  GoodReply
  BY <1>1, <1>2, Refusal
<1>3. CASE /\ sorting # NoCaption => mayBeSorted /\ request.filter = {}
           /\ ~few(filtered)
           /\ Data(verbatims(visible, {q}, bySorting))
  BY <1>1, <1>3, VerbatimReply DEF verbatimBooks
<1> QED
  BY <1>1, <1>2, <1>3

LEMMA OpenWorkbook == ASSUME IInv, openResponsesWorkbook PROVE GoodReply
<1> DEFINE visible == IF sorting = NoCaption THEN everybody
                      ELSE eligibleSortedRespondents(everybody, sorting)
           Q == openQuestions \ {sorting}
<1>1. /\ request # Idle /\ Serving({"openResponsesWorkbook"})
      /\ \/ \E status \in {"unavailable", "denied", "sample"} : Reply(status, <<>>)
         \/ /\ sorting # NoCaption => mayBeSorted
            /\ request.filter = {} /\ ~request.dummy
            /\ Data(verbatims(visible, Q, bySorting))
  BY DEF openResponsesWorkbook, Serving
<1>2. ASSUME NEW status \in {"unavailable", "denied", "sample"}, Reply(status, <<>>)
      PROVE  GoodReply
  BY <1>1, <1>2, Refusal
<1>3. CASE /\ sorting # NoCaption => mayBeSorted
           /\ request.filter = {} /\ ~request.dummy
           /\ Data(verbatims(visible, Q, bySorting))
  <2>1. everybody = filtered
    BY <1>3 DEF everybody, filtered
  <2> HIDE DEF Q
  <2> QED
    BY <1>1, <1>3, <2>1, VerbatimReply DEF verbatimBooks
<1> QED
  BY <1>1, <1>2, <1>3

(***************************************************************************)
(* Annual trends: the earlier year is counted in the survey of that year.       *)
(***************************************************************************)
LastKept == lastYear.survey \notin deleted /\ uploaded[lastYear.survey] = content[lastYear.survey]

LEMMA LastClassifiers ==
  /\ \A a, q : Last!derivedResponse(a, q) = Whole(lastYear)!derivedResponse(a, q)
  /\ \A a : Last!percentageSide(a) = Whole(lastYear)!percentageSide(a)
  /\ \A S : Last!Cardinality(S) = Whole(lastYear)!Cardinality(S)
<1> USE DEF Last!NoScore, Whole!NoScore, Last!Codes, Whole!Codes, Last!number, Whole!number,
            Last!Unset, Whole!Unset
<1>1. \A s, I : Last!FirstWhere(s, I) = Whole(lastYear)!FirstWhere(s, I)
  BY DEF Last!FirstWhere, Whole!FirstWhere
<1>2. ASSUME NEW v, NEW q
      PROVE  Last!definitionAnswer(v, q) = Whole(lastYear)!definitionAnswer(v, q)
  BY <1>1 DEF Last!definitionAnswer, Whole!definitionAnswer
<1>3. ASSUME NEW a, NEW q PROVE Last!derivedResponse(a, q) = Whole(lastYear)!derivedResponse(a, q)
  <2>1. \A o : Last!optionScore(o) = Whole(lastYear)!optionScore(o)
    BY DEF Last!optionScore, Whole!optionScore
  <2>2. \A v, o : Last!applicable(v, o) = Whole(lastYear)!applicable(v, o)
    BY <2>1 DEF Last!applicable, Whole!applicable
  <2>3. \A c, s : Last!likertAnswer(c, s) = Whole(lastYear)!likertAnswer(c, s)
    BY DEF Last!likertAnswer, Whole!likertAnswer
  <2>4. \A o : Last!configuredAnswer(a, q, o) = Whole(lastYear)!configuredAnswer(a, q, o)
    BY <2>1, <2>2, <2>3 DEF Last!configuredAnswer, Whole!configuredAnswer
  <2> QED
    BY <1>2, <2>4 DEF Last!derivedResponse, Whole!derivedResponse
<1>4. \A a : /\ Last!Caption(a) = Whole(lastYear)!Caption(a)
             /\ Last!Scored(a) = Whole(lastYear)!Scored(a)
             /\ Last!Positive(a) = Whole(lastYear)!Positive(a)
  BY DEF Last!Caption, Whole!Caption, Last!Scored, Whole!Scored, Last!Positive, Whole!Positive
<1>5. ASSUME NEW a PROVE Last!percentageSide(a) = Whole(lastYear)!percentageSide(a)
  BY <1>4 DEF Last!percentageSide, Whole!percentageSide, Last!notApplicable, Whole!notApplicable
<1>6. \A S : Last!Cardinality(S) = Whole(lastYear)!Cardinality(S)
  BY DEF Last!Cardinality, Whole!Cardinality
<1> QED
  BY <1>3, <1>5, <1>6

LEMMA LastAgreement ==
  ASSUME LastKept, NEW O
  PROVE  Last!percentage(lastCore, O)
           = Whole(lastYear)!percentage(Whole(lastYear)!benchmarkQuestions({}), O)
<1> DEFINE Q == Whole(lastYear)!benchmarkQuestions({})
           A == Whole(lastYear)!Answered(Whole(lastYear)!completed(O), Q)
           side(a) == Whole(lastYear)!percentageSide(Whole(lastYear)!derived(a))
           counted == {a \in A : side(a) # "Excluded"}
           agreeing == {a \in counted : side(a) = "Agree"}
<1>1. Last!questions = Whole(lastYear)!questions
  BY DEF LastKept, Last!questions, Whole!questions
<1>2. Last!respondents = Whole(lastYear)!respondents
  BY DEF LastKept, Last!respondents, Whole!respondents
<1>3. lastCore = Q
  BY <1>1 DEF lastCore, Last!benchmarkQuestions, Whole!benchmarkQuestions
<1>4. Last!Answered(Last!completed(O), lastCore) = A
  BY <1>2, <1>3 DEF Last!Answered, Whole!Answered, Last!completed, Whole!completed
<1>5. ASSUME NEW a PROVE Last!percentageSide(Last!derived(a)) = side(a)
  BY <1>2, LastClassifiers DEF LastKept, Last!derived, Whole!derived
<1> HIDE DEF A, side, Q
<1>6. Last!percentage(lastCore, O) =
        IF O = {} THEN <<0, 0>> ELSE <<Last!Cardinality(agreeing), Last!Cardinality(counted)>>
  BY <1>4, <1>5 DEF Last!percentage, Last!Ratio
<1>7. Whole(lastYear)!percentage(Q, O) =
        IF O = {} THEN <<0, 0>>
        ELSE <<Whole(lastYear)!Cardinality(agreeing), Whole(lastYear)!Cardinality(counted)>>
  BY DEF Whole!percentage, Whole!Ratio, A, side
<1> HIDE DEF agreeing, counted
<1> QED
  BY <1>6, <1>7, LastClassifiers DEF Q

LEMMA LastNobody ==
  ASSUME lastYear.survey \in deleted, NEW Q, NEW O
  PROVE  Last!percentage(Q, O) = <<0, 0>>
<1>1. Last!Answered(Last!completed(O), Q) = {}
  BY DEF Last!Answered, Last!completed, Last!respondents
<1>2. Last!Cardinality({}) = 0
  <2>1. Last!Cardinality({}) = Cardinality({})
    BY DEF Last!Cardinality, Cardinality
  <2> QED
    BY <2>1, SmallNobody
<1> QED
  BY <1>1, <1>2 DEF Last!percentage, Last!Ratio

LEMMA ResponseRate == ASSUME IInv, annualResponseRate PROVE GoodReply
<1> DEFINE current == percentage(core, me)
           previous == Last!percentage(lastCore, me)
           both == [y \in {"current", "previous"} |-> IF y = "current" THEN current ELSE previous]
           cells == IF request.compares THEN both ELSE <<>>
<1>1. request # Idle /\ request.op = "annualResponseRate" /\ ~request.dummy /\ Data(cells)
  BY DEF annualResponseRate, Trends, Reads, Serving
<1>2. /\ request.survey \in deleted \/ Kept
      /\ request.compares =>
           /\ lastYear.survey \in deleted \/ LastKept
           /\ lastYear.org = request.org /\ lastYear.survey = request.previous
  <2>1. /\ LetIn(request) /\ request.survey \in DOMAIN uploaded
        /\ request.compares => request.previous \in DOMAIN uploaded
    BY <1>1 DEF IInv, RequestOK
  <2>2. \A s \in DOMAIN uploaded : uploaded[s] = content[s]
    BY DEF IInv, RowsOK
  <2>3. lastYear.org = request.org /\ lastYear.survey = request.previous
    BY <2>1 DEF lastYear, LetIn, Fields
  <2> QED
    BY <2>1, <2>2, <2>3 DEF Kept, LastKept
<1>3. current = wholeAgreement(request) \/ current = <<0, 0>>
  <2>1. CASE Kept
    BY <2>1, SameShares, SameQuestions DEF wholeAgreement, core, me
  <2>2. CASE request.survey \in deleted
    BY <1>1, <2>2, KeptOrNobody, NobodysAgreement
  <2> QED
    BY <1>2, <2>1, <2>2
<1>4. request.compares => previous = wholeAgreement(lastYear) \/ previous = <<0, 0>>
  BY <1>2, LastAgreement, LastNobody DEF wholeAgreement, me
<1> HIDE DEF current, previous
<1>5. request.compares => Countable(request, cells, wholeTrend(request))
  BY <1>1, <1>3, <1>4 DEF Countable, Discloses, wholeTrend, lastYear
<1> HIDE DEF cells
<1>6. Coherent(request, cells)
  BY <1>1, <1>5 DEF Coherent, feedbackBooks
<1>7. Confidential(request, cells) /\ Entitled(request, cells)
  BY <1>1 DEF Confidential, CohortsLarge, Entitled, feedbackBooks, benchmarkTables,
     withMeTables, verbatimBooks, filteredReports
<1> QED
  BY <1>1, <1>6, <1>7 DEF GoodReply, Good, Data

(***************************************************************************)
(* Every step keeps the invariant.                                           *)
(***************************************************************************)
LEMMA EveryReplyIsGood ==
  ASSUME IInv, Sample \/ benchmarks \/ breakdowns \/ workbooks \/ trends
  PROVE  GoodReply
<1>1. CASE Sample
  BY <1>1, Refusal DEF Sample
<1>2. CASE benchmarks
  BY <1>2, TableReports, WorkforceReports, SectionWithMe, QuestionWithMe, Winners DEF benchmarks
<1>3. CASE breakdowns
  BY <1>3, PlainReports, BreakdownBySection, Breakdown DEF breakdowns
<1>4. CASE workbooks
  BY <1>4, PlainReports, Feedbacks, PreviewReply, DetailTable, DetailWorkbook, OpenAnswers,
     OpenWorkbook DEF workbooks
<1>5. CASE trends
  BY <1>5, PlainReports, ResponseRate DEF trends
<1> QED
  BY <1>1, <1>2, <1>3, <1>4, <1>5

LEMMA StepKeeps == ASSUME IInv, [Next]_vars PROVE IInv'
<1>1. CASE \E op \in Reports, role \in {"admin", "client"}, org \in Clients, dummy \in BOOLEAN :
             \E program \in Programs, filter \in Filters[op], ask \in Asks[op] :
               Start(op, role, program, org, dummy, filter, ask)
  BY <1>1, StartKeeps
<1>2. CASE ReadQuestions
  BY <1>2, ReadQuestionsKeeps
<1>3. CASE Sent
  BY <1>3, SentKeeps
<1>4. CASE Sample \/ benchmarks \/ breakdowns \/ workbooks \/ trends
  BY <1>4, EveryReplyIsGood, ReplyKeeps
<1>5. CASE \E s \in Surveys : Publish(s) \/ DeleteRetired(s)
  BY <1>5, PublishKeeps, DeleteKeeps
<1>6. CASE WriteEnrollments \/ UNCHANGED vars
  BY <1>6, WriteKeeps
<1>7. CASE reportWorkbookMetadata
  BY <1>7, HeadingKeeps
<1> QED
  BY <1>1, <1>2, <1>3, <1>4, <1>5, <1>6, <1>7 DEF Next

LEMMA Inductive == Spec => []IInv
<1>1. Init => IInv
  BY Initially
<1>2. IInv /\ [Next]_vars => IInv'
  BY StepKeeps
<1> QED
  BY <1>1, <1>2, PTL DEF Spec

\* A program is never left with a survey whose rows are deleted, and a request is served
\* before the next one is let in: uploads, deletions and requests interleave freely.
THEOREM TypeCorrect == Spec => []TypeOK
<1>1. IInv => TypeOK
  BY InvariantIsTyped
<1> QED
  BY <1>1, Inductive, PTL

\* Whatever is uploaded, deleted or sold while a request is served, counted answers reach
\* only a request that was entitled to them when it arrived, and sorted verbatims only an
\* administrator or a client that bought their sorting.
THEOREM Entitlement == Spec => []EntitledOnly
<1>1. IInv => EntitledOnly
  BY InvariantIsEntitled
<1> QED
  BY <1>1, Inductive, PTL

\* Of the reports that hide small cohorts, each in a place of its own, no cell, for any
\* survey, filter, threshold and table of enrollments, discloses a value of a group of
\* organizations, of the respondents its column is made of or of those left by the
\* filter, when they are fewer than the threshold.
THEOREM Confidentiality == Spec => []SmallCohortsHidden
<1>1. IInv => SmallCohortsHidden
  BY InvariantIsConfidential
<1> QED
  BY <1>1, Inductive, PTL

\* What the benchmark table and workbook, the section breakdown, the feedback and Response
\* Detail workbooks and the annual response rate disclose was counted in the survey the
\* request found, as it was uploaded: when the survey was deleted between two of their
\* queries, they disclose nothing.  A heading is of another survey than the figures only
\* once the survey of the figures has been replaced.
THEOREM OneSurveyCounted == Spec => []OneSurvey
<1>1. IInv => OneSurvey
  BY InvariantIsCoherent
<1> QED
  BY <1>1, Inductive, PTL

(***************************************************************************)
(* Four classifiers, one agreement.                                          *)
(***************************************************************************)
LEMMA CodeNumbers ==
  ASSUME NEW c \in Codes
  PROVE  /\ number[c] \in Nat \ {0}
         /\ number[c] \notin 1..5 <=> c \in {"6", "7", "99"}
         /\ number[c] \in {6, 99} <=> c \in {"6", "99"}
  BY DEF Codes, number

LEMMA SameSide ==
  ASSUME NEW a, Regular(a)
  PROVE  /\ percentageSide(a) = "Excluded" <=> trendSide(a) = "Excluded"
         /\ percentageSide(a) = "Agree" <=> trendSide(a) = "Agree"
         /\ percentageSide(a) = "Excluded" <=> positiveSide(a) = "Excluded"
         /\ percentageSide(a) = "Agree" <=> positiveSide(a) = "Agree"
<1> DEFINE c == Caption(a)
           out == c \in notApplicable \/ c \in {"6", "99"}
<1>1. c \in {"6", "99"} => c \in Codes
  BY DEF Codes, number
<1>2. /\ Scored(a) # NoScore /\ Scored(a) \notin 1..5 <=> c \in {"6", "99"}
      /\ Scored(a) \in {6, 99} <=> c \in {"6", "99"}
  <2>1. a.score \in 0..5 /\ c # "7" /\ (c \in {"6", "99"} => a.score = 0)
    BY DEF Regular, NoScore
  <2>2. Scored(a) = IF a.score # 0 THEN a.score ELSE IF c \in Codes THEN number[c] ELSE 0
    BY DEF Scored, NoScore
  <2> HIDE DEF c
  <2>3. CASE a.score # 0
    BY <2>1, <2>2, <2>3 DEF NoScore
  <2>4. CASE a.score = 0 /\ c \in Codes
    BY <2>1, <2>2, <2>4, CodeNumbers DEF NoScore
  <2>5. CASE a.score = 0 /\ c \notin Codes
    BY <1>1, <2>1, <2>2, <2>5 DEF NoScore, c
  <2> QED
    BY <2>1, <2>3, <2>4, <2>5
<1>3. c \in Codes /\ number[c] \notin 1..5 <=> c \in {"6", "99"}
  BY <1>1, CodeNumbers DEF Regular
<1>4. percentageSide(a) = IF out THEN "Excluded" ELSE IF Positive(a) THEN "Agree" ELSE "Other"
  BY <1>2, <1>3 DEF percentageSide, Regular
<1>5. positiveSide(a) = IF out THEN "Excluded" ELSE IF Positive(a) THEN "Agree" ELSE "Other"
  BY <1>2 DEF positiveSide
<1>6. /\ trendSide(a) = "Excluded" <=> out
      /\ trendSide(a) = "Agree" <=> ~out /\ Positive(a)
  BY <1>3 DEF trendSide
<1> QED
  BY <1>4, <1>5, <1>6

LEMMA IrregularIsExcluded == ASSUME NEW a, ~Regular(a) PROVE percentageSide(a) = "Excluded"
<1>1. CASE Caption(a) \in {"NA", "Not Applicable / Prefer not to answer"}
  BY <1>1 DEF percentageSide
<1>2. CASE Caption(a) \in {"6", "7", "99"}
  <2>1. Caption(a) \in Codes /\ number[Caption(a)] \notin 1..5
    BY <1>2, CodeNumbers DEF Codes, number
  <2> QED
    BY <2>1 DEF percentageSide
<1>3. CASE a.score \notin 0..5
  <2>1. Scored(a) = a.score /\ Scored(a) # NoScore /\ Scored(a) \notin 1..5
    BY <1>3 DEF Scored, NoScore
  <2> QED
    BY <2>1 DEF percentageSide
<1> QED
  BY <1>1, <1>2, <1>3 DEF Regular

\* Of finitely many answers, "share" counts C1 and "other" C2, more by some of the
\* irregular ones; on what both count they agree.
LEMMA CountedBeyond ==
  ASSUME NEW C1, NEW C2, NEW G1, NEW G2, NEW I, IsFiniteSet(C2), IsFiniteSet(I),
         C1 \subseteq C2, C2 \ C1 \subseteq I, G1 \subseteq G2, G2 \subseteq C2,
         G2 \ G1 \subseteq C2 \ C1
  PROVE  Beyond(<<Cardinality(G1), Cardinality(C1)>>, <<Cardinality(G2), Cardinality(C2)>>,
                Cardinality(I))
<1>1. IsFiniteSet(C2 \ C1) /\ IsFiniteSet(G2 \ G1) /\ IsFiniteSet(G2)
  BY FS_Subset
<1>2. Cardinality(C2 \ C1) = Cardinality(C2) - Cardinality(C1)
  <2>1. C2 \cap C1 = C1
    OBVIOUS
  <2> QED
    BY <2>1, FS_Difference
<1>3. Cardinality(G2 \ G1) = Cardinality(G2) - Cardinality(G1)
  <2>1. G2 \cap G1 = G1
    OBVIOUS
  <2> QED
    BY <1>1, <2>1, FS_Difference
<1>4. /\ Cardinality(C2 \ C1) <= Cardinality(I)
      /\ Cardinality(G2 \ G1) <= Cardinality(C2 \ C1)
  BY <1>1, FS_Subset
<1>5. /\ Cardinality(I) \in Nat /\ Cardinality(C2 \ C1) \in Nat /\ Cardinality(G2 \ G1) \in Nat
  BY <1>1, FS_CardinalityType
<1> QED
  BY <1>2, <1>3, <1>4, <1>5 DEF Beyond

LEMMA EverybodyIsFinite ==
  ASSUME IInv, request # Idle, request.op # "customReports"
  PROVE  IsFiniteSet(everybody)
<1>1. CASE Kept
  BY <1>1, SamePeople, KeptOrNobody, PeopleAreFinite DEF everybody
<1>2. CASE ~Kept
  BY <1>2, KeptOrNobody, FS_EmptySet DEF everybody
<1> QED
  BY <1>1, <1>2

LEMMA AgreementIsShared == ASSUME IInv PROVE SameShareEverywhere
<1> SUFFICES ASSUME Serving(Reports \ {"customReports"}), NEW q \in core
             PROVE  LET irregular == {a \in Answered(everybody, {q}) : ~Regular(derived(a))}
                        n == Cardinality(irregular)
                    IN /\ Beyond(percentage({q}, me), trendDistribution(everybody, {q}, "Agree"), n)
                       /\ Beyond(percentage({q}, me), positivePercentage(everybody, q), n)
  BY DEF SameShareEverywhere
<1> DEFINE A == Answered(everybody, {q})
           irregular == {a \in A : ~Regular(derived(a))}
           counted == {a \in A : percentageSide(derived(a)) # "Excluded"}
           agreeing == {a \in counted : percentageSide(derived(a)) = "Agree"}
           trended == {a \in A : trendSide(derived(a)) # "Excluded"}
           trending == {a \in trended : trendSide(derived(a)) = "Agree"}
           positived == {a \in A : positiveSide(derived(a)) # "Excluded"}
           positive == {a \in positived : positiveSide(derived(a)) = "Agree"}
<1>1. request # Idle /\ request.op # "customReports"
  BY DEF Serving
<1>2. everybody = completed(me) /\ me # {}
  BY DEF everybody, organizationRespondents, me
<1>3. IsFiniteSet(A)
  <2>1. IsFiniteSet(everybody \X {q})
    BY <1>1, EverybodyIsFinite, FS_Singleton, FS_Product
  <2>2. A \subseteq everybody \X {q}
    BY DEF Answered
  <2> QED
    BY <2>1, <2>2, FS_Subset
<1>4. /\ percentage({q}, me) = <<Cardinality(agreeing), Cardinality(counted)>>
      /\ trendDistribution(everybody, {q}, "Agree") = <<Cardinality(trending), Cardinality(trended)>>
      /\ positivePercentage(everybody, q) = <<Cardinality(positive), Cardinality(positived)>>
  BY <1>2 DEF percentage, trendDistribution, positivePercentage, Ratio
<1>5. ASSUME NEW a \in A, ~Regular(derived(a)) PROVE a \notin counted
  BY <1>5, IrregularIsExcluded
<1>6. ASSUME NEW a \in A, Regular(derived(a))
      PROVE  /\ a \in counted <=> a \in trended
             /\ a \in agreeing <=> a \in trending
             /\ a \in counted <=> a \in positived
             /\ a \in agreeing <=> a \in positive
  BY <1>6, SameSide
<1>7. irregular \subseteq A /\ trended \subseteq A /\ positived \subseteq A
      /\ agreeing \subseteq counted /\ trending \subseteq trended /\ positive \subseteq positived
  OBVIOUS
<1>8. \A a \in A : Regular(derived(a)) \/ a \in irregular
  OBVIOUS
<1> HIDE DEF A, irregular, counted, agreeing, trended, trending, positived, positive
<1>9. IsFiniteSet(irregular) /\ IsFiniteSet(trended) /\ IsFiniteSet(positived)
  BY <1>3, <1>7, FS_Subset
<1>10. counted \subseteq A
  BY DEF counted
<1>11. \A a \in counted : Regular(derived(a))
  BY <1>5, <1>10
<1>12. /\ counted \subseteq trended /\ trended \ counted \subseteq irregular
       /\ agreeing \subseteq trending /\ trending \ agreeing \subseteq trended \ counted
  BY <1>6, <1>7, <1>8, <1>10, <1>11
<1>13. /\ counted \subseteq positived /\ positived \ counted \subseteq irregular
       /\ agreeing \subseteq positive /\ positive \ agreeing \subseteq positived \ counted
  BY <1>6, <1>7, <1>8, <1>10, <1>11
<1>14. Beyond(percentage({q}, me), trendDistribution(everybody, {q}, "Agree"), Cardinality(irregular))
  BY <1>4, <1>7, <1>9, <1>12, CountedBeyond
<1>15. Beyond(percentage({q}, me), positivePercentage(everybody, q), Cardinality(irregular))
  BY <1>4, <1>7, <1>9, <1>13, CountedBeyond
<1> QED
  BY <1>14, <1>15 DEF irregular, A

(***************************************************************************)
(* The column of an option and the respondents that chose it.                 *)
(***************************************************************************)
\* A column that is counted has members.
LEMMA CountedHasMembers ==
  ASSUME NEW r, r.survey \in Surveys, NEW column,
         ~(Whole(r)!demographicCount(people(r), wholeDemographics(r), column) < PrivacyThreshold)
  PROVE  Members(r, column) # {}
<1> DEFINE P == people(r)
           D == wholeDemographics(r)
           Q == content[r.survey].questions
           having == {d \in D : /\ Q[d].group = column[1]
                                /\ column[2] \in Whole(r)!options(d) \cup Whole(r)!chosen(P, d)}
           first == CHOOSE d \in having : \A e \in having : Q[d].position <= Q[e].position
           counted(d) == {p \in P : d \in Whole(r)!answers(p) /\ Whole(r)!captionOf(p, d) = column[2]}
<1>1. Whole(r)!demographicCount(P, D, column) =
        IF having = {} THEN -1 ELSE Whole(r)!Cardinality(counted(first))
  BY DEF Whole!demographicCount, Whole!optionCount
<1> HIDE DEF P, D, having
<1>2. having # {} /\ ~(Whole(r)!Cardinality(counted(first)) < PrivacyThreshold)
  BY <1>1, ThresholdAssumption DEF P, D
<1>3. first \in having
  <2>1. having \subseteq DOMAIN Q
    BY WholeSurvey DEF having, D
  <2>2. \E d \in having : \A e \in having : Q[d].position <= Q[e].position
    BY <1>2, <2>1, FirstPosition
  <2> HIDE DEF Q
  <2> QED
    BY <2>2
<1>4. counted(first) # {}
  <2>1. Whole(r)!Cardinality({}) = Cardinality({})
    BY DEF Whole!Cardinality, Cardinality
  <2> HIDE DEF first
  <2> QED
    BY <1>2, <2>1, SmallNobody
<1> HIDE DEF first
<1>5. PICK p \in P : first \in Whole(r)!answers(p) /\ Whole(r)!captionOf(p, first) = column[2]
  BY <1>4
<1>6. first \in Whole(r)!demographicsOf(p) /\ Whole(r)!questions[first].group = column[1]
  BY <1>3, <1>5, WholeSurvey DEF Whole!demographicsOf, having, D
<1> QED
  BY <1>5, <1>6 DEF Members, P

LEMMA CellIsItsCohort ==
  ASSUME NEW r, r.survey \in Surveys, NEW Q,
         NEW k \in DOMAIN Whole(r)!feedbackWorkbook(people(r), wholeDemographics(r), Q),
         k[1][1] = "question", demographic(k[2]),
         Whole(r)!feedbackWorkbook(people(r), wholeDemographics(r), Q)[k] # Hidden
  PROVE  /\ allPrefixed(r, k[2][1]) =>
              Whole(r)!feedbackWorkbook(people(r), wholeDemographics(r), Q)[k]
                = Whole(r)!trendDistribution(Members(r, k[2]), {k[1][2]}, "Agree")
         /\ nonePrefixed(r, k[2][1]) =>
              Whole(r)!feedbackWorkbook(people(r), wholeDemographics(r), Q)[k]
                = Whole(r)!trendDistribution(people(r), {k[1][2]}, "Agree")
<1> DEFINE P == people(r)
           D == wholeDemographics(r)
           cell == Whole(r)!feedbackWorkbook(P, D, Q)[k]
           q == k[1][2]
           base == Whole(r)!trendDistribution(P, {q}, "Agree")
           share == Whole(r)!trendDistribution(Whole(r)!labelled(P, k[2]), {q}, "Agree")
<1>1. cell = Whole(r)!feedbackCell(P, D, q, k[2])
  <2>1. PICK R, sections, listed, supplementary, columns :
          Whole(r)!feedbackWorkbook(P, D, Q) =
            Whole(r)!feedbackRows(P, D, R, Whole(r)!averageRows(sections, listed, supplementary), columns)
    BY DEF Whole!feedbackWorkbook, Whole!buildWorkforceFeedbackRows
  <2>2. k[1] \notin DOMAIN Whole(r)!averageRows(sections, listed, supplementary)
    BY DEF Whole!averageRows
  <2>3. k \in DOMAIN Whole(r)!feedbackWorkbook(P, D, Q)
    OBVIOUS
  <2> HIDE DEF P, D
  <2> QED
    BY <2>1, <2>2, <2>3 DEF Whole!feedbackRows
<1>2. cell = Whole(r)!demographicValue(P, D, k[2], base, share)
  <2>1. k[2] # Whole(r)!agreementColumn /\ k[2] # Whole(r)!disagreementColumn
    BY DEF demographic, Whole!agreementColumn, Whole!disagreementColumn
  <2> QED
    BY <1>1, <2>1 DEF Whole!feedbackCell
<1> HIDE DEF cell, base, share
<1>3. ~(Whole(r)!demographicCount(P, D, k[2]) < PrivacyThreshold)
  BY <1>2 DEF Whole!demographicValue, Whole!Hidden, Hidden, cell
<1>4. /\ Members(r, k[2]) # {}
      /\ allPrefixed(r, k[2][1]) => Whole(r)!labelled(P, k[2]) = Members(r, k[2])
      /\ nonePrefixed(r, k[2][1]) => Whole(r)!labelled(P, k[2]) = {}
  BY <1>3, LabelledAreMembers, CountedHasMembers
<1>5. /\ allPrefixed(r, k[2][1]) => cell = share
      /\ nonePrefixed(r, k[2][1]) => cell = base
  BY <1>2, <1>3, <1>4 DEF Whole!demographicValue
<1> QED
  BY <1>4, <1>5 DEF cell, share, base

LEMMA ColumnsShowTheirCohort == ASSUME IInv PROVE ColumnIsItsCohort
<1> DEFINE r == shown.asked
           cells == shown.cells
           whole == Whole(r)!feedbackWorkbook(people(r), wholeDemographics(r), wholeOwn(r))
<1> SUFFICES ASSUME Shows(feedbackBooks), NEW k \in DOMAIN cells, k[1][1] = "question",
                    demographic(k[2]), Discloses(r.op, cells[k])
             PROVE  /\ allPrefixed(r, k[2][1]) =>
                         cells[k] = Whole(r)!trendDistribution(Members(r, k[2]), {k[1][2]}, "Agree")
                    /\ nonePrefixed(r, k[2][1]) =>
                         cells[k] = Whole(r)!trendDistribution(people(r), {k[1][2]}, "Agree")
  BY DEF ColumnIsItsCohort
<1>1. r.op \in feedbackBooks /\ LetIn(r) /\ Coherent(r, cells)
  BY DEF Shows, IInv, ShownOK, Good
<1>2. r.survey \in Surveys
  BY <1>1 DEF LetIn, feedbackBooks
<1>3. k \in DOMAIN whole /\ cells[k] = whole[k]
  BY <1>1 DEF Coherent, Countable
<1>4. cells[k] # Hidden
  BY <1>1 DEF Discloses, feedbackBooks
<1> HIDE DEF r, cells
<1> QED
  BY <1>2, <1>3, <1>4, CellIsItsCohort DEF r, cells

\* The benchmarks, the sections and the dashboard show one and the same agreement but for
\* the answers whose spelling their classifiers sort differently, whatever those are:
\* each of these is left out of the benchmarks, and no other answer counts anywhere else.
THEOREM OneAgreement == Spec => []SameShareEverywhere
<1>1. IInv => SameShareEverywhere
  BY AgreementIsShared
<1> QED
  BY <1>1, Inductive, PTL

\* A column of a feedback workbook whose questions have the "f_" label shows the agreement
\* of those who chose the option it is headed with, and never that of everybody in its
\* place; a column whose questions have none shows that of everybody.
THEOREM ColumnsAreCohorts == Spec => []ColumnIsItsCohort
<1>1. IInv => ColumnIsItsCohort
  BY ColumnsShowTheirCohort
<1> QED
  BY <1>1, Inductive, PTL
=============================================================================
