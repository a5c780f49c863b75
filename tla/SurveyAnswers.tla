---------------------------- MODULE SurveyAnswers ----------------------------
(***************************************************************************)
(* What the reports make of one stored answer (compatibility-reports.module, *)
(* survey-definition, xlsx-survey-importer): its caption, whether it counts,  *)
(* and on which side.  Four classifiers exist side by side, one per family of *)
(* reports; each share of a report is a count of answers one of them selects. *)
(*                                                                          *)
(* A caption stands for all its spellings (case and surrounding blanks).     *)
(***************************************************************************)
EXTENDS Integers, FiniteSets, Sequences

\* The numeric codes of a workbook cell, with the number each one denotes.
\* 6 and 99 are the reserved codes of "not applicable"; 7 is out of range.
number == [c \in {"1", "2", "3", "4", "5", "6", "7", "99"} |->
             CASE c = "1" -> 1 [] c = "2" -> 2 [] c = "3" -> 3 [] c = "4" -> 4
               [] c = "5" -> 5 [] c = "6" -> 6 [] c = "7" -> 7 [] c = "99" -> 99]
Codes == DOMAIN number

responseDetailOptions ==
    <<"Strongly Disagree", "Disagree", "Neutral", "Agree", "Strongly Agree", "N/A">>

Captions == {"Strongly Disagree", "Disagree", "Neutral", "Agree", "Strongly Agree", "N/A",
             "NA", "Not Applicable", "Not Applicable / Prefer not to answer",
             "Neither Agree nor Disagree", "Other text"}
Scalars == Codes \cup Captions

NoScore == 0       \* a NULL score
NoCaption == "none"
Unset == "unset"   \* no agreementCaption

\* What the importer stores: only a number from 1 to 5 in a Likert column has a
\* score; a digit that was typed as text has none.
Responses == [value : Scalars, score : {NoScore}, agreement : {Unset}]
                \cup {[value |-> c, score |-> number[c], agreement |-> Unset] :
                        c \in {d \in Codes : number[d] <= 5}}

(***************************************************************************)
(* Questions: [type, defined, options, ...].  "defined" questions carry the  *)
(* answers of a program's survey definition; the options of any other        *)
(* question are its configured labels or the standard ones of its data label. *)
(***************************************************************************)
FirstWhere(s, I) == IF I = {} THEN 0 ELSE CHOOSE i \in I : \A j \in I : i <= j

\* definitionAnswer: the option with this Id, else the one with this caption.
definitionAnswer(value, question) ==
    LET o == question.options
        byId == {i \in DOMAIN o : o[i].id = value}
        byCaption == {i \in DOMAIN o : o[i].caption = value}
    IN IF ~question.defined THEN 0
       ELSE IF byId # {} THEN FirstWhere(o, byId) ELSE FirstWhere(o, byCaption)

\* demographicResponseCaption: configured labels first, the raw answer last.
demographicResponseCaption(value, question) ==
    LET o == question.options
        i == IF question.defined THEN definitionAnswer(value, question)
             ELSE FirstWhere(o, {j \in DOMAIN o : o[j].id = value})
    IN IF i = 0 THEN value ELSE o[i].caption

\* reportResponseCaption: an undefined Likert answer is brought to the six
\* standard captions; a code beyond them stays what it is.
reportResponseCaption(value, question) ==
    LET mapped == demographicResponseCaption(value, question)
    IN IF question.defined \/ question.type # "likert" THEN mapped
       ELSE IF mapped = "99" THEN "N/A"
       ELSE IF mapped \in Codes \ {"99"} /\ number[mapped] <= 6
       THEN responseDetailOptions[number[mapped]]
       ELSE IF mapped = "Neither Agree nor Disagree" THEN "Neutral"
       ELSE IF mapped \in {"NA", "Not Applicable", "Not Applicable / Prefer not to answer"} THEN "N/A"
       ELSE mapped

\* configuredResponseOptions: the score of an option, 6 standing for 99 too.
optionScore(option) ==
    LET numeric == IF option.score # NoScore THEN option.score
                   ELSE IF option.id \in Codes THEN number[option.id] ELSE NoScore
    IN CASE numeric = 99 -> 6 [] numeric \in 1..6 -> numeric [] OTHER -> NoScore

\* Mutant: the row of "not applicable" forgotten.
MutantOptions(question) ==
    IF question.defined
    THEN {[caption |-> question.options[i].caption, score |-> optionScore(question.options[i])] :
            i \in DOMAIN question.options}
    ELSE {[caption |-> responseDetailOptions[i], score |-> i] : i \in 1..5}
\* detailOptions: the captions a question has a row for, with their scores.
detailOptions(question) ==
    IF question.defined
    THEN {[caption |-> question.options[i].caption, score |-> optionScore(question.options[i])] :
            i \in DOMAIN question.options}
    ELSE {[caption |-> responseDetailOptions[i], score |-> i] : i \in 1..6}

\* derivedResponse: the answer of a defined question as its definition scores it.
applicable(value, option) ==
    /\ optionScore(option) # 6
    /\ value \notin {"6", "99"}
    /\ option.caption \notin {"N/A", "Not Applicable"}
likertAnswer(caption, score) ==
    [value |-> caption, score |-> score,
     agreement |-> IF score = NoScore THEN caption
                   ELSE IF score >= 4 THEN "Agree"
                   ELSE IF score <= 2 THEN "Disagree"
                   ELSE "Neutral"]
configuredAnswer(response, question, option) ==
    IF question.type # "likert" THEN [response EXCEPT !.value = option.caption]
    ELSE IF ~applicable(response.value, option)
    THEN [value |-> option.caption, score |-> NoScore, agreement |-> "N/A"]
    ELSE IF optionScore(option) \in 1..5 THEN likertAnswer(option.caption, optionScore(option))
    ELSE likertAnswer(option.caption, response.score)
derivedResponse(response, question) ==
    IF definitionAnswer(response.value, question) # 0
    THEN configuredAnswer(response, question,
                          question.options[definitionAnswer(response.value, question)])
    ELSE IF question.defined /\ question.type = "likert"
    THEN [response EXCEPT !.score = NoScore, !.agreement = "Unmapped"]
    ELSE response

(***************************************************************************)
(* The classifiers.  Each says of a derived answer on which side it counts,  *)
(* or that the report leaves it out.                                        *)
(***************************************************************************)
Caption(r) == IF r.agreement # Unset THEN r.agreement ELSE r.value

\* The score, or the number an unscored answer spells.
Scored(r) == IF r.score # NoScore THEN r.score
             ELSE IF Caption(r) \in Codes THEN number[Caption(r)] ELSE NoScore

Positive(r) == Caption(r) \in {"Agree", "Strongly Agree"} \/ Scored(r) >= 4

notApplicable == {"N/A", "Not Applicable", "Unmapped"}

\* percentage(): benchmarks, comparisons and the dashboard's agreement.
percentageSide(r) ==
    IF \/ Caption(r) \in notApplicable \cup {"NA", "Not Applicable / Prefer not to answer"}
       \/ Caption(r) \in Codes /\ number[Caption(r)] \notin 1..5
       \/ Scored(r) # NoScore /\ Scored(r) \notin 1..5
    THEN "Excluded"
    ELSE IF Positive(r) THEN "Agree"
    ELSE "Other"

\* Mutant: the reserved codes are not left out.
MutantTrend(r) ==
    IF Caption(r) \in notApplicable THEN "Excluded"
    ELSE IF Positive(r) THEN "Agree"
    ELSE IF Caption(r) \in {"Disagree", "Strongly Disagree"}
         \/ (Scored(r) # NoScore /\ Scored(r) <= 2) THEN "Disagree"
    ELSE "Neutral"
\* trendDistribution(): sections, feedback workbooks, annual trends.
trendSide(r) ==
    IF \/ Caption(r) \in notApplicable \cup {"6", "99"}
       \/ r.score = NoScore /\ Caption(r) \in Codes /\ number[Caption(r)] \notin 1..5
    THEN "Excluded"
    ELSE IF Positive(r) THEN "Agree"
    ELSE IF Caption(r) \in {"Disagree", "Strongly Disagree"}
         \/ (Scored(r) # NoScore /\ Scored(r) <= 2) THEN "Disagree"
    ELSE "Neutral"

\* positivePercentage(): the top and bottom statements of the dashboard.
positiveSide(r) ==
    IF Caption(r) \in notApplicable \/ Scored(r) \in {6, 99} THEN "Excluded"
    ELSE IF Positive(r) THEN "Agree"
    ELSE "Other"

\* The spellings that the classifiers sort alike.  "NA", "Not Applicable / Prefer not to
\* answer", a code out of range and a reserved code with a score count in one family of
\* reports and are left out of another.
Regular(r) ==
    /\ r.score \in 0..5
    /\ Caption(r) \notin {"NA", "Not Applicable / Prefer not to answer", "7"}
    /\ Caption(r) \in {"6", "99"} => r.score = NoScore

\* averageAgreement(): the dashboard's share of disagreement.
negativeSide(r) ==
    IF Caption(r) \in notApplicable THEN "Excluded"
    ELSE IF Caption(r) \in {"Disagree", "Strongly Disagree"} \/ Scored(r) \in 1..2 THEN "Disagree"
    ELSE "Other"

\* detailedDistribution(): the caption an answer is counted under, if it has a row.
detailedRow(r, question) ==
    LET caption == reportResponseCaption(r.value, question)
        rows == {o.caption : o \in {p \in detailOptions(question) : p.caption # "N/A" /\ p.score # 6}}
    IN IF \/ caption = "N/A"
          \/ r.agreement = "N/A"
          \/ caption \notin rows /\ ~question.defined
       THEN NoCaption ELSE caption

\* distribution(): mean scores and the survey information; every other caption is
\* a row of its own.
distributionRow(r) ==
    IF r.agreement = "N/A" \/ r.value \in {"N/A", "Not Applicable"} THEN NoCaption ELSE r.value
=============================================================================
