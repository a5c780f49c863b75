-------------------------- MODULE SurveyTotalsProofs --------------------------
(***************************************************************************)
(* Proofs about the totals of the workbooks: sums over the questions of a      *)
(* section and over the rows of a question, made by folding, against counts of   *)
(* answers.  A sum of the sizes of disjoint sets is the size of their union; the  *)
(* rest shows which sets a total adds up.                                    *)
(***************************************************************************)
EXTENDS SurveyReportsProofs

(***************************************************************************)
(* Sums.                                                                    *)
(***************************************************************************)
\* g is the function by which f is summed over the subsets of S.
pick(s) == CHOOSE x \in s : TRUE
Folding(f, S, g) ==
    g = [s \in SUBSET S |-> IF s = {} THEN 0 ELSE f[pick(s)] + g[s \ {pick(s)}]]
\* f has the sizes of the disjoint sets that D maps S to, all parts of the finite U.
Counts(f, S, D, U) ==
    /\ IsFiniteSet(S) /\ IsFiniteSet(U)
    /\ \A x \in S : D[x] \subseteq U /\ f[x] = Cardinality(D[x])
    /\ \A x, y \in S : x # y => D[x] \cap D[y] = {}
pooledIn(D, s) == UNION {D[x] : x \in s}
pooledSizes(S, D) == [s \in SUBSET S |-> Cardinality(pooledIn(D, s))]

LEMMA OneMore ==
  ASSUME NEW f, NEW S, NEW D, NEW U, Counts(f, S, D, U), NEW s \in SUBSET S, NEW x \in s
  PROVE  Cardinality(pooledIn(D, s)) = f[x] + Cardinality(pooledIn(D, s \ {x}))
<1> DEFINE rest == pooledIn(D, s \ {x})
<1>1. pooledIn(D, s) = D[x] \cup rest
  BY DEF pooledIn
<1>2. rest \subseteq U /\ D[x] \subseteq U /\ IsFiniteSet(U)
  BY DEF Counts, pooledIn
<1>3. D[x] \cap rest = {}
  BY DEF Counts, pooledIn
<1>4. f[x] = Cardinality(D[x])
  BY DEF Counts
<1> HIDE DEF rest
<1>5. /\ IsFiniteSet(rest) /\ IsFiniteSet(D[x])
  BY <1>2, FS_Subset
<1>6. Cardinality(rest) \in Nat /\ Cardinality(D[x]) \in Nat
  BY <1>5, FS_CardinalityType
<1>7. Cardinality(D[x] \cup rest) = Cardinality(D[x]) + Cardinality(rest) - Cardinality({})
  BY <1>3, <1>5, FS_Union
<1> QED
  BY <1>1, <1>4, <1>6, <1>7, SmallNobody DEF rest

LEMMA SizesFold ==
  ASSUME NEW f, NEW S, NEW D, NEW U, Counts(f, S, D, U)
  PROVE  Folding(f, S, pooledSizes(S, D))
<1> DEFINE h == pooledSizes(S, D)
<1>1. ASSUME NEW s \in SUBSET S
      PROVE  h[s] = IF s = {} THEN 0 ELSE f[pick(s)] + h[s \ {pick(s)}]
  <2>1. CASE s = {}
    <3>1. pooledIn(D, s) = {}
      BY <2>1 DEF pooledIn
    <3> QED
      BY <2>1, <3>1, SmallNobody DEF pooledSizes
  <2>2. CASE s # {}
    <3>1. pick(s) \in s
      BY <2>2 DEF pick
    <3> QED
      BY <2>2, <3>1, OneMore DEF pooledSizes
  <2> QED
    BY <2>1, <2>2
<1> QED
  BY <1>1 DEF Folding, pooledSizes

\* There is no other function by which f is summed.
LEMMA FoldsCount ==
  ASSUME NEW f, NEW S, NEW D, NEW U, Counts(f, S, D, U), NEW g, Folding(f, S, g)
  PROVE  g[S] = Cardinality(pooledIn(D, S))
<1> DEFINE h == pooledSizes(S, D)
           wrong == {s \in SUBSET S : g[s] # h[s]}
           ranks == {Cardinality(s) : s \in wrong}
<1>1. Folding(f, S, h)
  BY SizesFold
<1>2. ASSUME NEW s \in SUBSET S PROVE IsFiniteSet(s) /\ Cardinality(s) \in Nat
  BY FS_Subset, FS_CardinalityType DEF Counts
<1>3. ASSUME wrong # {} PROVE FALSE
  <2>1. ranks \in SUBSET Nat /\ ranks # {}
    BY <1>2, <1>3
  <2>2. PICK n \in ranks : \A m \in ranks : n <= m
    <3> HIDE DEF ranks
    <3> QED
      BY <2>1, Least
  <2>3. PICK s \in wrong : n = Cardinality(s)
    BY <2>2
  <2> DEFINE x == pick(s)
  <2>4. s # {}
    BY <1>1, <2>3 DEF Folding
  <2>5. x \in s
    BY <2>4 DEF pick
  <2>6. Cardinality(s \ {x}) = Cardinality(s) - 1
    BY <1>2, <2>3, <2>5, FS_RemoveElement
  <2>7. s \ {x} \notin wrong
    <3>1. Cardinality(s) \in Nat
      BY <1>2, <2>3
    <3> QED
      BY <2>2, <2>3, <2>6, <3>1
  <2>8. g[s \ {x}] = h[s \ {x}]
    BY <2>3, <2>7
  <2>9. g[s] = f[x] + g[s \ {x}] /\ h[s] = f[x] + h[s \ {x}]
    BY <1>1, <2>3, <2>4 DEF Folding
  <2> QED
    BY <2>3, <2>8, <2>9
<1>4. g[S] = h[S]
  BY <1>3
<1> QED
  BY <1>4 DEF pooledSizes

LEMMA SumCounts ==
  ASSUME NEW f, NEW D, NEW U, Counts(f, DOMAIN f, D, U)
  PROVE  sum(f) = Cardinality(pooledIn(D, DOMAIN f))
<1>1. sum(f) = (CHOOSE g : Folding(f, DOMAIN f, g))[DOMAIN f]
  BY DEF sum, FoldFunction, FoldFunctionOnSet, MapThenFoldSet, Folding, pick
<1>2. Folding(f, DOMAIN f, CHOOSE g : Folding(f, DOMAIN f, g))
  BY SizesFold
<1> QED
  BY <1>1, <1>2, FoldsCount

(***************************************************************************)
(* The average of a section.  r is a request that reads the survey it found,     *)
(* with nothing deleted.                                                    *)
(***************************************************************************)
\* The answers of the respondents P to the questions Q that are counted, and those that
\* count on one side.
Counted(r, P, Q) ==
    {a \in Whole(r)!Answered(P, Q) : Whole(r)!trendSide(Whole(r)!derived(a)) # "Excluded"}
OnSide(r, P, Q, side) ==
    {a \in Counted(r, P, Q) : Whole(r)!trendSide(Whole(r)!derived(a)) = side}

LEMMA TrendCounts ==
  ASSUME NEW r, NEW P, NEW Q, NEW side
  PROVE  Whole(r)!trendDistribution(P, Q, side)
           = <<Cardinality(OnSide(r, P, Q, side)), Cardinality(Counted(r, P, Q))>>
<1>1. \A S : Whole(r)!Cardinality(S) = Cardinality(S)
  BY DEF Whole!Cardinality, Cardinality
<1>2. Whole(r)!trendDistribution(P, Q, side) =
        <<Whole(r)!Cardinality(OnSide(r, P, Q, side)), Whole(r)!Cardinality(Counted(r, P, Q))>>
  BY DEF Whole!trendDistribution, Whole!Ratio, OnSide, Counted
<1> QED
  BY <1>1, <1>2

LEMMA WholeSum == ASSUME NEW r, NEW f PROVE Whole(r)!sum(f) = sum(f)
  BY DEF sum, Whole!sum, FoldFunction, Whole!FoldFunction, FoldFunctionOnSet,
     Whole!FoldFunctionOnSet, MapThenFoldSet, Whole!MapThenFoldSet

\* Where every question was answered, the average of a section is the share of its answers.
LEMMA AverageIsPooled ==
  ASSUME NEW r, NEW P, IsFiniteSet(P), NEW Q, IsFiniteSet(Q), Q # {}, NEW side,
         \A q \in Q : Whole(r)!trendDistribution(P, {q}, side)[2] > 0
  PROVE  Whole(r)!averageOf(P, Q, side) = Whole(r)!trendDistribution(P, Q, side)
<1> DEFINE share == [q \in Q |-> Whole(r)!trendDistribution(P, {q}, side)]
           part(i) == [q \in Q |-> share[q][i]]
           sided == [q \in Q |-> OnSide(r, P, {q}, side)]
           counted == [q \in Q |-> Counted(r, P, {q})]
           U == P \X Q
<1>1. IsFiniteSet(U)
  BY FS_Product
<1>2. ASSUME NEW q \in Q
      PROVE  /\ share[q] = <<Cardinality(sided[q]), Cardinality(counted[q])>>
             /\ sided[q] \subseteq counted[q]
             /\ counted[q] \subseteq U
             /\ \A a \in counted[q] : a[2] = q
  BY TrendCounts DEF OnSide, Counted, Whole!Answered
<1>3. ASSUME NEW q \in Q
      PROVE  part(1)[q] = Cardinality(sided[q]) /\ part(2)[q] = Cardinality(counted[q])
  BY <1>2
<1>4. /\ \A q \in Q : sided[q] \subseteq U /\ counted[q] \subseteq U
      /\ \A p, q \in Q : p # q => sided[p] \cap sided[q] = {} /\ counted[p] \cap counted[q] = {}
  <2> HIDE DEF share, sided, counted
  <2> QED
    BY <1>2
<1>5. pooledIn(sided, Q) = OnSide(r, P, Q, side) /\ pooledIn(counted, Q) = Counted(r, P, Q)
  BY DEF pooledIn, OnSide, Counted, Whole!Answered
<1>6. DOMAIN part(1) = Q /\ DOMAIN part(2) = Q
  OBVIOUS
<1> HIDE DEF part, sided, counted, U
<1>7. Counts(part(1), Q, sided, U) /\ Counts(part(2), Q, counted, U)
  BY <1>1, <1>3, <1>4 DEF Counts
<1>8. /\ Whole(r)!sum(part(1)) = Cardinality(OnSide(r, P, Q, side))
      /\ Whole(r)!sum(part(2)) = Cardinality(Counted(r, P, Q))
  BY <1>5, <1>6, <1>7, SumCounts, WholeSum
<1>9. Whole(r)!averageOf(P, Q, side) = <<Whole(r)!sum(part(1)), Whole(r)!sum(part(2))>>
  <2>1. share # <<>> /\ DOMAIN share = Q /\ \A q \in DOMAIN share : share[q][2] > 0
    OBVIOUS
  <2>2. Whole(r)!weightedAverage(share)
          = <<Whole(r)!sum([q \in DOMAIN share |-> share[q][1]]),
              Whole(r)!sum([q \in DOMAIN share |-> share[q][2]])>>
    <3> HIDE DEF share
    <3> QED
      BY <2>1 DEF Whole!weightedAverage
  <2> QED
    BY <2>1, <2>2 DEF Whole!averageOf, part
<1> QED
  BY <1>8, <1>9, TrendCounts

\* The questions of a section of a feedback workbook are all those of its category.
LEMMA SectionQuestions ==
  ASSUME NEW r, NEW P, NEW D, NEW k \in DOMAIN Whole(r)!feedbackWorkbook(P, D, wholeOwn(r)),
         k[1][1] = "average", k[1][2] \notin {"SURVEY", "SUPPLEMENTARY"}
  PROVE  LET Q == {q \in Whole(r)!benchmarkQuestions({}) : Whole(r)!categoryOf(q) = k[1][2]}
         IN /\ Whole(r)!feedbackWorkbook(P, D, wholeOwn(r))[k]
                 = Whole(r)!feedbackAverage(P, D, Q, k[2])
            /\ Q # {}
            /\ k[2] \in {Whole(r)!agreementColumn, Whole(r)!disagreementColumn}
                        \cup Whole(r)!workbookDemographics(P, D)
<1> DEFINE shared == {q \in wholeOwn(r) : ~Whole(r)!questions[q].supplementary}
           byCategory == Whole(r)!questionsByCategory(shared)
           sections == Whole(r)!answeredSections(P, byCategory)
           listed == UNION {sections[c] : c \in DOMAIN sections}
           supplementary == {q \in wholeOwn(r) : /\ Whole(r)!questions[q].supplementary
                                                 /\ Whole(r)!sectionHasResponses(P, {q})}
           averages == Whole(r)!averageRows(sections, listed, supplementary)
           columns == {Whole(r)!agreementColumn, Whole(r)!disagreementColumn}
                      \cup Whole(r)!workbookDemographics(P, D)
           Q == {q \in Whole(r)!benchmarkQuestions({}) : Whole(r)!categoryOf(q) = k[1][2]}
           workbook == Whole(r)!feedbackWorkbook(P, D, wholeOwn(r))
<1>1. workbook = Whole(r)!feedbackRows(P, D, listed \cup supplementary, averages, columns)
  BY DEF Whole!feedbackWorkbook, Whole!buildWorkforceFeedbackRows
<1>2. DOMAIN averages = {<<"average", c>> : c \in (DOMAIN sections) \cup {"SURVEY"}
                           \cup (IF supplementary = {} THEN {} ELSE {"SUPPLEMENTARY"})}
  BY DEF Whole!averageRows
<1>3. shared = Whole(r)!benchmarkQuestions({})
  BY DEF wholeOwn, Whole!benchmarkQuestions
<1>4. ASSUME NEW c \in DOMAIN sections
      PROVE  /\ sections[c] = {q \in Whole(r)!benchmarkQuestions({}) : Whole(r)!categoryOf(q) = c}
             /\ sections[c] # {}
  <2> HIDE DEF shared
  <2>1. c \in DOMAIN byCategory /\ sections[c] = byCategory[c] /\ sections[c] # {}
    BY DEF Whole!answeredSections, Whole!sectionHasResponses
  <2> QED
    BY <1>3, <2>1 DEF Whole!questionsByCategory
<1> HIDE DEF shared, byCategory, sections, listed, supplementary, columns
<1>5. k[1] \in DOMAIN averages /\ k[2] \in columns
      /\ workbook[k] = Whole(r)!feedbackAverage(P, D, averages[k[1]], k[2])
  <2>1. k \in DOMAIN workbook
    OBVIOUS
  <2> HIDE DEF workbook, averages
  <2>2. k \in ({<<"question", q>> : q \in listed \cup supplementary} \cup DOMAIN averages)
               \X columns
    BY <1>1, <2>1 DEF Whole!feedbackRows
  <2>3. k[1] \in DOMAIN averages
    BY <2>2
  <2> QED
    BY <1>1, <2>2, <2>3 DEF Whole!feedbackRows
<1>6. k[1][2] \in DOMAIN sections /\ averages[k[1]] = sections[k[1][2]]
  BY <1>2, <1>5 DEF Whole!averageRows
<1> HIDE DEF workbook, averages
<1>7. averages[k[1]] = Q /\ Q # {}
  BY <1>4, <1>6
<1> QED
  BY <1>5, <1>7 DEF workbook, columns

LEMMA AverageCell ==
  ASSUME NEW r, r.survey \in Surveys,
         NEW k \in DOMAIN Whole(r)!feedbackWorkbook(people(r), wholeDemographics(r), wholeOwn(r)),
         k[1][1] = "average", k[1][2] \notin {"SURVEY", "SUPPLEMENTARY"},
         Whole(r)!feedbackWorkbook(people(r), wholeDemographics(r), wholeOwn(r))[k] # Hidden
  PROVE  LET Q == {q \in Whole(r)!benchmarkQuestions({}) : Whole(r)!categoryOf(q) = k[1][2]}
             P == Behind(r, k[2])
             side == IF k[2] = disagreementColumn THEN "Disagree" ELSE "Agree"
         IN (\A q \in Q : Whole(r)!trendDistribution(P, {q}, side)[2] > 0)
            => Whole(r)!feedbackWorkbook(people(r), wholeDemographics(r), wholeOwn(r))[k]
                 = Whole(r)!trendDistribution(P, Q, side)
<1> DEFINE Q == {q \in Whole(r)!benchmarkQuestions({}) : Whole(r)!categoryOf(q) = k[1][2]}
           P == Behind(r, k[2])
           side == IF k[2] = disagreementColumn THEN "Disagree" ELSE "Agree"
           D == wholeDemographics(r)
           cell == Whole(r)!feedbackWorkbook(people(r), D, wholeOwn(r))[k]
<1>1. /\ cell = Whole(r)!feedbackAverage(people(r), D, Q, k[2]) /\ Q # {}
      /\ k[2] \in {agreementColumn, disagreementColumn}
                  \cup Whole(r)!workbookDemographics(people(r), D)
  BY SectionQuestions DEF Whole!agreementColumn, Whole!disagreementColumn, agreementColumn,
     disagreementColumn
<1>2. IsFiniteSet(Q) /\ IsFiniteSet(P)
  <2>1. Q \subseteq DOMAIN content[r.survey].questions
    BY WholeSurvey DEF Whole!benchmarkQuestions
  <2>2. P \subseteq DOMAIN content[r.survey].respondents
    BY WholeSurvey DEF Behind, Whole!labelled
  <2> HIDE DEF P, Q
  <2> QED
    BY <2>1, <2>2, ReportsAssumption, FS_Subset
<1> HIDE DEF Q, D
<1>3. cell = Whole(r)!averageOf(P, Q, side)
  <2>1. CASE k[2] = agreementColumn \/ k[2] = disagreementColumn
    <3>1. P = people(r)
      BY <2>1 DEF Behind, demographic, agreementColumn, disagreementColumn
    <3> HIDE DEF P, cell
    <3> QED
      BY <1>1, <2>1, <3>1 DEF Whole!feedbackAverage, Whole!agreementColumn,
         Whole!disagreementColumn, agreementColumn, disagreementColumn
  <2>2. CASE k[2] \notin {agreementColumn, disagreementColumn}
    <3> DEFINE base == Whole(r)!averageOf(people(r), Q, "Agree")
               value == Whole(r)!averageOf(Whole(r)!labelled(people(r), k[2]), Q, "Agree")
    <3>1. cell = Whole(r)!demographicValue(people(r), D, k[2], base, value)
      <4> HIDE DEF cell
      <4> QED
        BY <1>1, <2>2 DEF Whole!feedbackAverage, Whole!agreementColumn,
           Whole!disagreementColumn, agreementColumn, disagreementColumn
    <3>2. demographic(k[2])
      <4>1. PICK d \in D : k[2][1] = content[r.survey].questions[d].group
        BY <1>1, <2>2 DEF Whole!workbookDemographics
      <4>2. d \in DOMAIN content[r.survey].questions
        BY <4>1, WholeSurvey DEF D
      <4> QED
        BY <4>1, <4>2, ReportsAssumption DEF demographic
    <3>3. ~(Whole(r)!demographicCount(people(r), D, k[2]) < PrivacyThreshold)
      <4>1. cell # Hidden
        BY DEF D
      <4> HIDE DEF cell, base, value
      <4> QED
        BY <3>1, <4>1 DEF Whole!demographicValue, Whole!Hidden, Hidden
    <3>4. cell = IF Whole(r)!labelled(people(r), k[2]) = {} THEN base ELSE value
      <4> HIDE DEF cell, base, value
      <4> QED
        BY <3>1, <3>3 DEF Whole!demographicValue
    <3>5. P = IF Whole(r)!labelled(people(r), k[2]) = {} THEN people(r)
              ELSE Whole(r)!labelled(people(r), k[2])
      BY <3>2 DEF Behind
    <3>6. side = "Agree"
      BY <2>2
    <3> HIDE DEF cell, P, side
    <3> QED
      BY <3>4, <3>5, <3>6
  <2> QED
    BY <2>1, <2>2
<1> HIDE DEF P, cell, side
<1>4. (\A q \in Q : Whole(r)!trendDistribution(P, {q}, side)[2] > 0)
        => cell = Whole(r)!trendDistribution(P, Q, side)
  BY <1>1, <1>2, <1>3, AverageIsPooled
<1> QED
  BY <1>4 DEF P, Q, D, side, cell

AveragesOK == Shows(feedbackBooks) => \A k \in DOMAIN shown.cells : averageIsPooled(k)

LEMMA AveragesArePooled == ASSUME IInv PROVE AveragesOK
<1> SUFFICES ASSUME Shows(feedbackBooks), NEW k \in DOMAIN shown.cells
             PROVE  averageIsPooled(k)
  BY DEF AveragesOK
<1> DEFINE r == shown.asked
           cells == shown.cells
           whole == Whole(r)!feedbackWorkbook(people(r), wholeDemographics(r), wholeOwn(r))
           Q == {q \in Whole(r)!benchmarkQuestions({}) : Whole(r)!categoryOf(q) = k[1][2]}
           P == Behind(r, k[2])
           side == IF k[2] = disagreementColumn THEN "Disagree" ELSE "Agree"
           pooled == Whole(r)!trendDistribution(P, Q, side)
<1> SUFFICES ASSUME k[1][1] = "average", k[1][2] \notin {"SURVEY", "SUPPLEMENTARY"},
                    Discloses(r.op, cells[k]),
                    \A q \in Q : Whole(r)!trendDistribution(P, {q}, side)[2] > 0
             PROVE  cells[k][1] * pooled[2] = pooled[1] * cells[k][2]
  BY DEF averageIsPooled
<1>1. r.op \in feedbackBooks /\ LetIn(r) /\ Coherent(r, cells)
  BY DEF Shows, IInv, ShownOK, Good
<1>2. r.survey \in Surveys
  BY <1>1 DEF LetIn, feedbackBooks
<1>3. k \in DOMAIN whole /\ cells[k] = whole[k]
  BY <1>1 DEF Coherent, Countable
<1>4. cells[k] # Hidden
  BY <1>1 DEF Discloses, feedbackBooks
<1> HIDE DEF r, cells
<1>5. cells[k] = pooled
  BY <1>2, <1>3, <1>4, AverageCell
<1>6. pooled[1] \in Nat /\ pooled[2] \in Nat
  <2>1. IsFiniteSet(P \X Q)
    <3>1. Q \subseteq DOMAIN content[r.survey].questions
      BY <1>2, WholeSurvey DEF Whole!benchmarkQuestions
    <3>2. P \subseteq DOMAIN content[r.survey].respondents
      BY <1>2, WholeSurvey DEF Behind, Whole!labelled
    <3> HIDE DEF P, Q
    <3> QED
      BY <1>2, <3>1, <3>2, ReportsAssumption, FS_Subset, FS_Product
  <2>2. /\ OnSide(r, P, Q, side) \subseteq P \X Q
        /\ Counted(r, P, Q) \subseteq P \X Q
    BY DEF OnSide, Counted, Whole!Answered
  <2> HIDE DEF P, Q
  <2>3. /\ Cardinality(OnSide(r, P, Q, side)) \in Nat
        /\ Cardinality(Counted(r, P, Q)) \in Nat
    BY <2>1, <2>2, FS_Subset, FS_CardinalityType
  <2> QED
    BY <2>3, TrendCounts
<1> HIDE DEF pooled
<1> QED
  BY <1>5, <1>6

(***************************************************************************)
(* The rows of a question in a Response Detail workbook.                      *)
(***************************************************************************)
\* A set that a finite set is mapped onto is finite.
LEMMA FiniteImage ==
  ASSUME NEW f, IsFiniteSet(DOMAIN f), NEW T, T = {f[x] : x \in DOMAIN f}
  PROVE  IsFiniteSet(T)
<1>1. [x \in DOMAIN f |-> f[x]] \in Surjection(DOMAIN f, T)
  BY DEF Surjection
<1> QED
  BY <1>1, FS_Surjection

LEMMA CaptionsExpected == ASSUME NEW q PROVE detailCaptions(q) = expectedRows(questions[q])
<1> DEFINE o == questions[q].options
<1>1. CASE questions[q].defined
  <2> DEFINE row(i) == [caption |-> o[i].caption, score |-> optionScore(o[i])]
  <2>1. detailCaptions(q) = {x.caption : x \in {row(i) : i \in DOMAIN o}}
    BY <1>1 DEF detailCaptions, detailOptions
  <2>2. \A i : row(i).caption = o[i].caption
    OBVIOUS
  <2>3. expectedRows(questions[q]) = {o[i].caption : i \in DOMAIN o}
    BY <1>1 DEF expectedRows
  <2> HIDE DEF o, row
  <2> QED
    BY <2>1, <2>2, <2>3
<1>2. CASE ~questions[q].defined
  <2> DEFINE row(i) == [caption |-> responseDetailOptions[i], score |-> i]
  <2>1. detailCaptions(q) = {x.caption : x \in {row(i) : i \in 1..6}}
    BY <1>2 DEF detailCaptions, detailOptions
  <2>2. \A i : row(i).caption = responseDetailOptions[i]
    OBVIOUS
  <2>3. expectedRows(questions[q]) = {responseDetailOptions[i] : i \in 1..6}
    BY <1>2 DEF expectedRows
  <2> HIDE DEF row
  <2> QED
    BY <2>1, <2>2, <2>3
<1> QED
  BY <1>1, <1>2

LEMMA CaptionsAreFinite ==
  ASSUME Kept, request.survey \in Surveys, NEW q \in DOMAIN questions
  PROVE  IsFiniteSet(detailCaptions(q))
<1> DEFINE o == questions[q].options
           given == [i \in DOMAIN o |-> o[i].caption]
           standard == [i \in 1..6 |-> responseDetailOptions[i]]
<1>1. IsFiniteSet(DOMAIN o)
  BY ReportsAssumption DEF Kept, questions
<1>2. CASE questions[q].defined
  <2>1. detailCaptions(q) = {given[i] : i \in DOMAIN given} /\ DOMAIN given = DOMAIN o
    BY <1>2, CaptionsExpected DEF expectedRows
  <2> HIDE DEF given, o
  <2> QED
    BY <1>1, <2>1, FiniteImage
<1>3. CASE ~questions[q].defined
  <2>1. detailCaptions(q) = {standard[i] : i \in DOMAIN standard} /\ DOMAIN standard = 1..6
    BY <1>3, CaptionsExpected DEF expectedRows
  <2>2. IsFiniteSet(1..6)
    <3>1. 1 \in Int /\ 6 \in Int
      OBVIOUS
    <3> QED
      BY <3>1, FS_Interval
  <2> HIDE DEF standard
  <2> QED
    BY <2>1, <2>2, FiniteImage
<1> QED
  BY <1>2, <1>3

\* What the property asks of the cells of a reply.
rowsOf(cells, k) == {j \in DOMAIN cells : j[1][1] = k[1][1] /\ j[2] = k[2]}
added(cells, rows) == LET count(j) == cells[j][1] IN MapThenSumSet(count, rows)
cohortOf(r, column) == IF demographic(column) THEN Members(r, column) ELSE people(r)
withoutRow(r, q, column) ==
    {p \in cohortOf(r, column) :
       /\ q \in Whole(r)!answers(p)
       /\ Whole(r)!detailCaption(p, q) \notin expectedRows(Whole(r)!questions[q])}
RowsAddUp(r, cells) ==
    \A k \in DOMAIN cells :
        cells[k] # Hidden =>
          added(cells, rowsOf(cells, k)) + Cardinality(withoutRow(r, k[1][1], k[2])) = cells[k][2]

LEMMA RowsCount ==
  ASSUME NEW cells, NEW rows, NEW D, NEW U, Counts([j \in rows |-> cells[j][1]], rows, D, U)
  PROVE  added(cells, rows) = Cardinality(pooledIn(D, rows))
<1> DEFINE f == [j \in rows |-> cells[j][1]]
           Summing(g) == g = [s \in SUBSET rows |->
                                IF s = {} THEN 0 ELSE cells[pick(s)][1] + g[s \ {pick(s)}]]
<1>1. \A s \in SUBSET rows : s # {} => f[pick(s)] = cells[pick(s)][1]
  <2>1. \A s \in SUBSET rows : s # {} => pick(s) \in rows
    BY DEF pick
  <2> QED
    BY <2>1
<1>2. added(cells, rows) = (CHOOSE g : Summing(g))[rows]
  BY DEF added, MapThenSumSet, MapThenFoldSet, pick
<1> HIDE DEF f
<1>3. ASSUME NEW g PROVE Summing(g) <=> Folding(f, rows, g)
  BY <1>1 DEF Folding
<1>4. Summing(CHOOSE g : Summing(g))
  <2>1. Folding(f, rows, pooledSizes(rows, D))
    BY SizesFold DEF f
  <2>2. Summing(pooledSizes(rows, D))
    BY <1>3, <2>1
  <2> HIDE DEF Summing
  <2> QED
    BY <2>2
<1> HIDE DEF Summing
<1>5. (CHOOSE g : Summing(g))[rows] = Cardinality(pooledIn(D, rows))
  BY <1>3, <1>4, FoldsCount DEF f
<1> QED
  BY <1>2, <1>5

\* The respondents of R by the row that counts their answer to q.
inRow(R, q, o) == {p \in {s \in R : q \in answers(s)} : detailCaption(p, q) = o}

\* The rows of q in a column, and those of R that answered it.
rowsFor(q, column) == {<<<<q, o>>, column>> : o \in detailCaptions(q)}
answering(R, q) == {p \in R : q \in answers(p)}

rowless(R, q) == {p \in answering(R, q) : detailCaption(p, q) \notin detailCaptions(q)}

\* The rows of a question in one column hold every respondent that answered it, once, but
\* for those whose answer has no row.
LEMMA RowsHoldTheRest ==
  ASSUME Kept, request.survey \in Surveys, NEW q \in core,
         NEW R \in SUBSET DOMAIN respondents, NEW column, NEW cells,
         \A j \in rowsFor(q, column) : cells[j] = detailShare(R, q, j[1][2])
  PROVE  added(cells, rowsFor(q, column)) + Cardinality(rowless(R, q))
           = Cardinality(answering(R, q))
<1> DEFINE rows == rowsFor(q, column)
           D == [j \in rows |-> inRow(R, q, j[1][2])]
           f == [j \in rows |-> cells[j][1]]
<1>1. q \in DOMAIN questions /\ questions[q].type = "likert"
  BY DEF core, benchmarkQuestions
<1>2. IsFiniteSet(rows)
  <2> DEFINE row == [o \in detailCaptions(q) |-> <<<<q, o>>, column>>]
  <2>1. rows = {row[o] : o \in DOMAIN row} /\ DOMAIN row = detailCaptions(q)
    BY DEF rowsFor
  <2> HIDE DEF row
  <2> QED
    BY <1>1, <2>1, CaptionsAreFinite, FiniteImage
<1>3. IsFiniteSet(R)
  <2>1. respondents = content[request.survey].respondents
    BY DEF Kept, respondents
  <2> QED
    BY <2>1, ReportsAssumption, FS_Subset
<1>4. ASSUME NEW j \in rows PROVE D[j] \subseteq R /\ f[j] = Cardinality(D[j])
  <2>1. detailShare(R, q, j[1][2])
          = <<Cardinality(inRow(R, q, j[1][2])), Cardinality(answering(R, q))>>
    BY DEF inRow, detailShare, answering
  <2>2. inRow(R, q, j[1][2]) \subseteq R
    BY DEF inRow
  <2> QED
    BY <2>1, <2>2
<1>5. ASSUME NEW i \in rows, NEW j \in rows, i # j PROVE D[i] \cap D[j] = {}
  <2>1. i[1][2] # j[1][2]
    BY <1>5 DEF rowsFor
  <2> QED
    BY <2>1 DEF inRow
<1> HIDE DEF D, f
<1>6. Counts(f, rows, D, R)
  BY <1>2, <1>3, <1>4, <1>5 DEF Counts
<1>7. pooledIn(D, rows) = answering(R, q) \ rowless(R, q)
  <2>1. ASSUME NEW p \in answering(R, q) \ rowless(R, q) PROVE p \in pooledIn(D, rows)
    <3> DEFINE j == <<<<q, detailCaption(p, q)>>, column>>
    <3>1. j \in rows
      BY DEF rowsFor, rowless
    <3>2. p \in D[j]
      BY <3>1 DEF D, inRow, answering
    <3> QED
      BY <3>1, <3>2 DEF pooledIn
  <2>2. ASSUME NEW j \in rows, NEW p \in D[j] PROVE p \in answering(R, q) \ rowless(R, q)
    <3>1. p \in answering(R, q) /\ detailCaption(p, q) = j[1][2]
      BY DEF D, inRow, answering
    <3>2. j[1][2] \in detailCaptions(q)
      BY DEF rowsFor
    <3> QED
      BY <3>1, <3>2 DEF rowless
  <2> QED
    BY <2>1, <2>2 DEF pooledIn
<1>8. Cardinality(answering(R, q) \ rowless(R, q))
        = Cardinality(answering(R, q)) - Cardinality(rowless(R, q))
  <2>1. answering(R, q) \subseteq R /\ rowless(R, q) \subseteq answering(R, q)
    BY DEF answering, rowless
  <2>2. IsFiniteSet(answering(R, q)) /\ answering(R, q) \cap rowless(R, q) = rowless(R, q)
    BY <1>3, <2>1, FS_Subset
  <2> QED
    BY <2>2, FS_Difference
<1>9. Cardinality(answering(R, q)) \in Nat /\ Cardinality(rowless(R, q)) \in Nat
  <2>1. answering(R, q) \subseteq R /\ rowless(R, q) \subseteq R
    BY DEF answering, rowless
  <2> QED
    BY <1>3, <2>1, FS_Subset, FS_CardinalityType
<1>10. added(cells, rows) = Cardinality(answering(R, q) \ rowless(R, q))
  BY <1>6, <1>7, RowsCount DEF f
<1> QED
  BY <1>8, <1>9, <1>10

LEMMA DetailAddsUp ==
  ASSUME Kept, request.survey \in Surveys, request.filter = {},
         NEW K \in SUBSET DOMAIN detailWorkbook(everybody, core),
         \A k \in K, j \in DOMAIN detailWorkbook(everybody, core) : j[2] = k[2] => j \in K
  PROVE  RowsAddUp(request, [k \in K |-> detailWorkbook(everybody, core)[k]])
<1> DEFINE workbook == detailWorkbook(everybody, core)
           cells == [k \in K |-> workbook[k]]
           D == answeredDemographics(everybody)
           population(column) ==
             {p \in everybody : \E d \in demographicsOf(p) :
                questions[d].group = column[1] /\ captionOf(p, d) = column[2]}
           pages == UNION {{<<q, o>> : o \in detailCaptions(q)} : q \in core}
           total == <<"overall", "total">>
           columns == {total} \cup workbookDemographics(everybody, D)
           R(column) == IF column = total THEN everybody ELSE population(column)
<1>1. /\ DOMAIN workbook = pages \X columns
      /\ \A j \in DOMAIN workbook :
           workbook[j] = IF j[2] # total /\ demographicCount(everybody, D, j[2]) < PrivacyThreshold
                         THEN Hidden ELSE detailShare(R(j[2]), j[1][1], j[1][2])
  BY DEF detailWorkbook
<1>2. ASSUME NEW column PROVE R(column) \subseteq DOMAIN respondents
  BY DEF everybody, organizationRespondents, completed
<1>3. SUFFICES ASSUME NEW k \in K, cells[k] # Hidden
               PROVE  added(cells, rowsOf(cells, k))
                        + Cardinality(withoutRow(request, k[1][1], k[2])) = cells[k][2]
  BY DEF RowsAddUp
<1> HIDE DEF workbook, columns, R, D, total
<1> DEFINE q == k[1][1]
           rows == rowsOf(cells, k)
<1>4. q \in core /\ k[2] \in columns
  <2>1. k \in pages \X columns
    BY <1>1 DEF workbook
  <2> QED
    BY <2>1
<1>5. rows = rowsFor(q, k[2])
  <2>1. ASSUME NEW o \in detailCaptions(q) PROVE <<<<q, o>>, k[2]>> \in rows
    <3> DEFINE j == <<<<q, o>>, k[2]>>
    <3>1. j \in DOMAIN workbook
      BY <1>1, <1>4
    <3>2. j \in K
      BY <3>1 DEF workbook
    <3> QED
      BY <3>2 DEF rowsOf
  <2>2. ASSUME NEW j \in rows PROVE j \in rowsFor(q, k[2])
    <3>1. j \in K /\ j[1][1] = q /\ j[2] = k[2]
      BY DEF rowsOf
    <3>2. j \in pages \X columns
      BY <1>1, <3>1 DEF workbook
    <3>3. PICK o \in detailCaptions(j[1][1]) : j[1] = <<j[1][1], o>>
      BY <3>2
    <3> QED
      BY <3>1, <3>2, <3>3 DEF rowsFor
  <2> HIDE DEF rows
  <2> QED
    BY <2>1, <2>2 DEF rowsFor
<1>6. k \in DOMAIN workbook /\ workbook[k] # Hidden
  BY <1>3 DEF workbook
<1>7. ASSUME NEW j \in rows PROVE cells[j] = detailShare(R(k[2]), q, j[1][2])
  <2>1. j \in K /\ j \in DOMAIN workbook /\ j[1][1] = q /\ j[2] = k[2]
    BY DEF rowsOf, workbook
  <2> QED
    BY <1>1, <1>6, <2>1
<1>8. cells[k][2] = Cardinality(answering(R(k[2]), q))
  <2>1. cells[k] = detailShare(R(k[2]), q, k[1][2])
    BY <1>1, <1>6
  <2>2. detailShare(R(k[2]), q, k[1][2])[2] = Cardinality(answering(R(k[2]), q))
    BY DEF detailShare, answering
  <2> QED
    BY <2>1, <2>2
<1>9. R(k[2]) = cohortOf(request, k[2])
  <2>1. CASE k[2] = total
    <3>1. everybody = people(request)
      BY SamePeople DEF everybody, people
    <3> QED
      BY <2>1, <3>1 DEF R, total, cohortOf, demographic
  <2>2. CASE k[2] # total
    <3>1. PICK d \in D : k[2][1] = content[request.survey].questions[d].group
      BY <1>4, <2>2 DEF columns, workbookDemographics, Kept
    <3>2. \E p \in everybody : d \in answers(p)
      BY <3>1 DEF D, answeredDemographics, demographicsOf
    <3>3. d \in DOMAIN content[request.survey].questions
      <4>1. respondents = content[request.survey].respondents
        BY DEF Kept, respondents
      <4> QED
        BY <3>2, <4>1, ReportsAssumption
           DEF answers, everybody, organizationRespondents, completed
    <3>4. demographic(k[2])
      BY <3>1, <3>3, ReportsAssumption DEF demographic
    <3>5. population(k[2]) = Members(request, k[2])
      BY SamePeople, SameQuestions, SameRows DEF everybody, people, Members
    <3> HIDE DEF population
    <3> QED
      BY <2>2, <3>4, <3>5 DEF R, cohortOf
  <2> QED
    BY <2>1, <2>2
<1>10. withoutRow(request, q, k[2]) = rowless(R(k[2]), q)
  <2>1. detailCaptions(q) = expectedRows(Whole(request)!questions[q])
    BY CaptionsExpected, SameRows
  <2> HIDE DEF q
  <2> QED
    BY <1>9, <2>1, SameCaptions, SameRows DEF withoutRow, rowless, answering
<1> HIDE DEF cells, rows, q
<1>11. added(cells, rows) + Cardinality(rowless(R(k[2]), q)) = Cardinality(answering(R(k[2]), q))
  <2> DEFINE S == R(k[2])
             column == k[2]
  <2>1. S \in SUBSET DOMAIN respondents
    BY <1>2
  <2>2. /\ rows = rowsFor(q, column)
        /\ \A j \in rows : cells[j] = detailShare(S, q, j[1][2])
    BY <1>5, <1>7
  <2> HIDE DEF S, column
  <2>3. added(cells, rows) + Cardinality(rowless(S, q)) = Cardinality(answering(S, q))
    BY <1>4, <2>1, <2>2, RowsHoldTheRest
  <2> QED
    BY <2>3 DEF S
<1> QED
  BY <1>8, <1>10, <1>11 DEF rows, q

(***************************************************************************)
(* Every step keeps the rows.                                               *)
(***************************************************************************)
RowsShown ==
    /\ shown # Nothing /\ shown.status \in {"data", "counted"}
    /\ shown.asked.op = "responseDetailWorkbook"
    => RowsAddUp(shown.asked, shown.cells)

LEMMA DetailReplyAddsUp ==
  ASSUME IInv, responseDetailWorkbook
  PROVE  \E status, cells :
           /\ Reply(status, cells)
           /\ status \in {"data", "counted"} => RowsAddUp(request, cells)
<1> DEFINE d == request.ask.demographic
           workbook == detailWorkbook(everybody, core)
           kept == {k \in DOMAIN workbook : k[2][1] \in {"overall", questions[d].group}}
<1>1. request # Idle /\ request.op = "responseDetailWorkbook"
  BY DEF responseDetailWorkbook, Reads, Serving
<1>2. \/ Reply("confidential", <<>>) \/ Reply("notFound", <<>>) \/ Reply("error", <<>>)
      \/ ~few(everybody) /\ (Figures(workbook) \/ Figures([k \in kept |-> workbook[k]]))
  <2> HIDE DEF workbook
  <2> QED
    BY DEF responseDetailWorkbook, workbook
<1>3. CASE Reply("confidential", <<>>) \/ Reply("notFound", <<>>) \/ Reply("error", <<>>)
  BY <1>3
<1>4. CASE ~few(everybody) /\ (Figures(workbook) \/ Figures([k \in kept |-> workbook[k]]))
  <2>1. Kept /\ request.survey \in Surveys /\ request.filter = {}
    <3>1. everybody # {}
      BY <1>4, SmallNobody DEF few
    <3> QED
      BY <1>1, <3>1, KeptOrNobody, Unfiltered DEF everybody, filteredReports
  <2>2. workbook = [k \in DOMAIN workbook |-> workbook[k]]
    BY DEF detailWorkbook
  <2>3. RowsAddUp(request, [k \in DOMAIN workbook |-> workbook[k]])
    BY <2>1, DetailAddsUp
  <2>4. RowsAddUp(request, [k \in kept |-> workbook[k]])
    BY <2>1, DetailAddsUp
  <2> HIDE DEF workbook, kept
  <2> QED
    BY <1>4, <2>2, <2>3, <2>4 DEF Figures
<1> QED
  BY <1>2, <1>3, <1>4

\* No other handler answers a request for the workbook.
LEMMA OneHandler ==
  ASSUME benchmarks \/ breakdowns \/ workbooks \/ trends
  PROVE  responseDetailWorkbook \/ request.op # "responseDetailWorkbook"
<1> DEFINE other == request.op # "responseDetailWorkbook"
<1>1. \A op : Reads(op) /\ op # "responseDetailWorkbook" => other
  BY DEF Reads, Serving
<1> HIDE DEF other
<1>2. benchmarks => other
  <2>1. /\ employeeComparison => Reads("employeeComparison")
        /\ workforceComparison => Reads("workforceComparison")
        /\ benchmarkWorkbook => Reads("benchmarkWorkbook")
    BY DEF employeeComparison, workforceComparison, benchmarkWorkbook
  <2>2. sectionComparison => Reads("sectionComparison")
    BY DEF sectionComparison
  <2>3. /\ questionComparison => Reads("questionComparison")
        /\ workforceQuestionComparison => Reads("workforceQuestionComparison")
    BY DEF questionComparison, workforceQuestionComparison
  <2>4. sectionComparisonWithMe => Reads("sectionComparisonWithMe")
    BY DEF sectionComparisonWithMe
  <2>5. questionComparisonWithMe => Reads("questionComparisonWithMe")
    BY DEF questionComparisonWithMe
  <2>6. winnersList => Reads("winnersList")
    BY DEF winnersList
  <2> QED
    BY <1>1, <2>1, <2>2, <2>3, <2>4, <2>5, <2>6 DEF benchmarks
<1>3. breakdowns => other
  <2>1. /\ responseBreakdownBySection => Reads("responseBreakdownBySection")
        /\ meanScoreBySection => Reads("meanScoreBySection")
    BY DEF responseBreakdownBySection, meanScoreBySection
  <2>2. responseBreakdown => Reads("responseBreakdown")
    BY DEF responseBreakdown
  <2>3. meanScoreByQuestions => Reads("meanScoreByQuestions")
    BY DEF meanScoreByQuestions
  <2>4. surveyFilters => Reads("surveyFilters")
    BY DEF surveyFilters
  <2>5. demographicResponseCounts => Reads("demographicResponseCounts")
    BY DEF demographicResponseCounts
  <2>6. /\ surveyResponseRate => Reads("surveyResponseRate")
        /\ surveyInformation => Reads("surveyInformation")
    BY DEF surveyResponseRate, surveyInformation
  <2>7. /\ averageAgreement => Reads("averageAgreement")
        /\ topBottomStatements => Reads("topBottomStatements")
        /\ unavailableAnnualTrend => Reads("unavailableAnnualTrend")
    BY DEF averageAgreement, topBottomStatements, unavailableAnnualTrend
  <2> QED
    BY <1>1, <2>1, <2>2, <2>3, <2>4, <2>5, <2>6, <2>7 DEF breakdowns
<1>4. workbooks => responseDetailWorkbook \/ other
  <2>1. /\ heatMap => Reads("heatMap")
        /\ detailedFeedback => Reads("detailedFeedback")
        /\ feedbackPreview => Reads("feedbackPreview")
    BY DEF heatMap, detailedFeedback, feedbackPreview
  <2>2. responseDetailSections => Reads("responseDetailSections")
    BY DEF responseDetailSections
  <2>3. responseDetailQuestionResult => Reads("responseDetailQuestionResult")
    BY DEF responseDetailQuestionResult
  <2>4. openResponseQuestions => Reads("openResponseQuestions")
    BY DEF openResponseQuestions
  <2>5. openResponseAnswers => Reads("openResponseAnswers")
    BY DEF openResponseAnswers
  <2>6. openResponsesWorkbook => other
    BY DEF openResponsesWorkbook, Serving, other
  <2> QED
    BY <1>1, <2>1, <2>2, <2>3, <2>4, <2>5, <2>6 DEF workbooks
<1>5. trends => other
  <2>1. annualResponseRate => Reads("annualResponseRate")
    BY DEF annualResponseRate, Trends
  <2>2. annualCategories => Reads("annualCategories")
    BY DEF annualCategories, Trends
  <2>3. annualDetails => Reads("annualDetails")
    BY DEF annualDetails, Trends
  <2>4. annualTrendWorkbook => Reads("annualTrendWorkbook")
    BY DEF annualTrendWorkbook
  <2>5. /\ customReports => Reads("customReports")
        /\ keyImpactAnalysis => Reads("keyImpactAnalysis")
    BY DEF customReports, keyImpactAnalysis
  <2> QED
    BY <1>1, <2>1, <2>2, <2>3, <2>4, <2>5 DEF trends
<1> QED
  BY <1>2, <1>3, <1>4, <1>5 DEF other

LEMMA RowsKept ==
  ASSUME IInv, RowsShown, [Next]_vars PROVE RowsShown'
<1>1. CASE \E op \in Reports, role \in {"admin", "client"}, org \in Clients, dummy \in BOOLEAN :
             \E program \in Programs, filter \in Filters[op], ask \in Asks[op] :
               Start(op, role, program, org, dummy, filter, ask)
  <2>1. \/ UNCHANGED shown
        \/ shown'.status = "denied" \/ shown'.status = "notFound"
    BY <1>1 DEF Start, Answer
  <2> QED
    BY <2>1 DEF RowsShown
<1>2. CASE \/ ReadQuestions \/ WriteEnrollments \/ UNCHANGED vars
           \/ \E s \in Surveys : Publish(s) \/ DeleteRetired(s)
  <2>1. UNCHANGED shown
    BY <1>2 DEF ReadQuestions, WriteEnrollments, vars, Publish, DeleteRetired
  <2> QED
    BY <2>1 DEF RowsShown
<1>3. CASE Sent
  BY <1>3 DEF Sent, RowsShown
<1>4. CASE Sample
  <2>1. shown'.status = "sample"
    BY <1>4 DEF Sample, Reply, Answer
  <2> QED
    BY <2>1 DEF RowsShown
<1>5. CASE benchmarks \/ breakdowns \/ workbooks \/ trends
  <2>1. CASE responseDetailWorkbook
    <3>1. PICK status, cells :
            /\ Reply(status, cells)
            /\ status \in {"data", "counted"} => RowsAddUp(request, cells)
      BY <2>1, DetailReplyAddsUp
    <3>2. /\ shown'.asked = request /\ shown'.status = status /\ shown'.cells = cells
      BY <3>1 DEF Reply, Answer
    <3> QED
      BY <3>1, <3>2 DEF RowsShown
  <2>2. CASE request.op # "responseDetailWorkbook"
    <3>1. PICK status, cells : Reply(status, cells)
      BY <1>5, EveryReplyIsGood DEF GoodReply
    <3>2. shown'.asked = request
      BY <3>1 DEF Reply, Answer
    <3> QED
      BY <2>2, <3>2 DEF RowsShown
  <2> QED
    BY <1>5, <2>1, <2>2, OneHandler
<1>6. CASE reportWorkbookMetadata
  <2>1. CASE \E status \in {"denied", "notFound"} : Answer(shown.asked, status, <<>>)
    BY <2>1 DEF Answer, RowsShown
  <2>2. CASE \E found : shown' = [shown EXCEPT !.status = "data", !.heading = found]
    <3>1. Headed /\ shown # Nothing /\ shown.status = "counted"
      BY <1>6 DEF reportWorkbookMetadata, IInv, ShownOK
    <3>2. shown'.asked = shown.asked /\ shown'.cells = shown.cells
      BY <2>2, <3>1 DEF Headed
    <3> QED
      BY <3>1, <3>2 DEF RowsShown
  <2> QED
    BY <1>6, <2>1, <2>2 DEF reportWorkbookMetadata
<1> QED
  BY <1>1, <1>2, <1>3, <1>4, <1>5, <1>6 DEF Next

LEMMA RowsAlwaysAddUp == Spec => []RowsShown
<1>1. Init => RowsShown
  BY DEF Init, RowsShown
<1>2. IInv /\ RowsShown /\ [Next]_vars => RowsShown'
  BY RowsKept
<1> QED
  BY <1>1, <1>2, Inductive, PTL DEF Spec

\* Where every question of a section was answered by those a column is made of, the average
\* row of a feedback workbook is the share of all their answers pooled, whatever was
\* published or deleted meanwhile; and the rows of a question in a Response Detail column
\* and the answers that have no row add up to the members of its cohort that answered it.
THEOREM TotalsAddUp == Spec => []TotalsAgree
<1>1. IInv /\ RowsShown => TotalsAgree
  <2> SUFFICES ASSUME IInv, RowsShown PROVE TotalsAgree
    OBVIOUS
  <2>1. AveragesOK
    BY AveragesArePooled
  <2>2. ASSUME Shows({"responseDetailWorkbook"}), NEW k \in DOMAIN shown.cells PROVE rowsAddUp(k)
    <3>1. RowsAddUp(shown.asked, shown.cells)
      BY <2>2 DEF RowsShown, Shows
    <3> QED
      BY <3>1 DEF RowsAddUp, rowsAddUp, added, rowsOf, withoutRow, cohortOf
  <2> QED
    BY <2>1, <2>2 DEF TotalsAgree, AveragesOK
<1> QED
  BY <1>1, Inductive, RowsAlwaysAddUp, PTL
=============================================================================
