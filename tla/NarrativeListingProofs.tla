----------------------- MODULE NarrativeListingProofs -----------------------
(* What holds of NarrativeListing for any users, jobs, page size, clock and *)
(* resolution of the timestamps, and of StatsBatch for any finite table,    *)
(* any pages, prompts and number of executions.                             *)
EXTENDS TableReaders, FiniteSetTheorems, SumTheorems, TLAPS

(* The order the index is read in, as a set of pairs. *)
Order == {o \in Jobs \X Jobs : Precedes(o[1], o[2])}

Listed(w) == w.earlier \cup w.page

(* What a user's walk has seen, and what it began with, is the user's own  *)
(* and in the index; s and o are the stages and the owners.                *)
SeenOK(u, w, s, o) == \A j \in Listed(w) \cup w.start : s[j] = "indexed" /\ o[j] = u

(* While a walk goes on, its token is the last job listed in the order R;  *)
(* what it began with is listed or still ahead.                            *)
WalkOK(w, R) ==
  /\ w.state = "walking" =>
       /\ w.token \in Listed(w)
       /\ \A i \in Listed(w) : i = w.token \/ <<i, w.token>> \in R
       /\ \A j \in w.start : j \in Listed(w) \/ <<w.token, j>> \in R
  /\ w.state = "done" => w.start \subseteq Listed(w)
  /\ \A i \in w.earlier, j \in w.page : <<i, j>> \in R

RecordInv ==
  /\ stage \in [Jobs -> Stage] /\ owner \in [Jobs -> Users \cup {None}]
  /\ at \in [Jobs -> 0..MaxTime] /\ now \in 0..MaxTime

IInv ==
  /\ RecordInv
  /\ walk \in [Users -> Walk]
  /\ \A u \in Users : SeenOK(u, walk[u], stage, owner) /\ WalkOK(walk[u], Order)

-----------------------------------------------------------------------------
(* The order of the index. *)

LEMMA RankIsInt ==
  ASSUME NEW m \in 0..MaxTime
  PROVE  utcnow_iso(m) \in Int
<1>1. m % PerSecond \in Int /\ m \in Int /\ PerSecond \in Int
  BY ListingAssumption
<1> QED
  BY <1>1 DEF utcnow_iso

LEMMA OrderIsTransitive ==
  ASSUME RecordInv, NEW i, NEW j, NEW k, <<i, j>> \in Order, <<j, k>> \in Order
  PROVE  <<i, k>> \in Order
<1>1. i \in Jobs /\ j \in Jobs /\ k \in Jobs /\ Precedes(i, j) /\ Precedes(j, k)
  BY DEF Order
<1>2. utcnow_iso(at[i]) \in Int /\ utcnow_iso(at[j]) \in Int /\ utcnow_iso(at[k]) \in Int
  BY <1>1, RankIsInt DEF RecordInv
<1>3. i \in Nat /\ j \in Nat /\ k \in Nat
  BY <1>1, ListingAssumption
<1>4. Precedes(i, k)
  BY <1>1, <1>2, <1>3 DEF Precedes
<1> QED
  BY <1>1, <1>4 DEF Order

(* A step that leaves the walks alone, and the jobs in the index. *)
LEMMA UnrelatedStep ==
  ASSUME IInv, RecordInv', UNCHANGED walk,
         \A j \in Jobs : stage[j] = "indexed" =>
           stage'[j] = "indexed" /\ owner'[j] = owner[j] /\ at'[j] = at[j]
  PROVE  IInv'
<1>1. ASSUME NEW i \in Jobs, NEW j \in Jobs, stage[i] = "indexed", stage[j] = "indexed",
             <<i, j>> \in Order
      PROVE  <<i, j>> \in Order'
  <2>1. Precedes(i, j)
    BY <1>1 DEF Order
  <2>2. at'[i] = at[i] /\ at'[j] = at[j]
    BY <1>1
  <2>3. Precedes(i, j)'
    BY <2>1, <2>2 DEF Precedes, utcnow_iso
  <2> QED
    BY <2>3 DEF Order
<1>2. ASSUME NEW u \in Users
      PROVE  SeenOK(u, walk[u], stage', owner') /\ WalkOK(walk[u], Order')
  <2>1. walk[u] \in Walk /\ SeenOK(u, walk[u], stage, owner) /\ WalkOK(walk[u], Order)
    BY DEF IInv
  <2>2. Listed(walk[u]) \subseteq Jobs /\ walk[u].start \subseteq Jobs
    BY <2>1 DEF Walk, Listed
  <2>3. SeenOK(u, walk[u], stage', owner')
    BY <2>1, <2>2 DEF SeenOK
  <2>4. \A i, j \in Listed(walk[u]) \cup walk[u].start : <<i, j>> \in Order => <<i, j>> \in Order'
    BY <1>1, <2>1, <2>2 DEF SeenOK
  <2>5. walk[u].earlier \subseteq Listed(walk[u]) /\ walk[u].page \subseteq Listed(walk[u])
    BY DEF Listed
  <2>6. WalkOK(walk[u], Order')
    BY <2>1, <2>4, <2>5 DEF WalkOK
  <2> QED
    BY <2>3, <2>6
<1> QED
  BY <1>2 DEF IInv

-----------------------------------------------------------------------------
(* One page. *)

(* What a page and its token are, said once. *)
LEMMA PageFacts ==
  ASSUME RecordInv, NEW u \in Users, NEW token \in Jobs \cup {None},
         NEW p \in Pages(u, token), NEW key \in LastKeys(p[1], p[2])
  PROVE  /\ p[1] \subseteq Jobs /\ p[2] \subseteq Jobs
         /\ \A j \in p[1] : stage[j] = "indexed" /\ owner[j] = u /\ Beyond(token, j)
         /\ \A j \in Jobs : stage[j] = "indexed" /\ owner[j] = u /\ Beyond(token, j)
              => j \in p[1] \cup p[2]
         /\ key = None => p[2] = {}
         /\ key # None => /\ key \in p[1]
                          /\ \A i \in p[1] : i = key \/ Precedes(i, key)
                          /\ \A j \in p[2] : Precedes(key, j)
<1> DEFINE found == {j \in Jobs : stage[j] = "indexed" /\ owner[j] = u /\ Beyond(token, j)}
<1>1. PICK page \in SUBSET found :
        /\ p = <<page, found \ page>>
        /\ \A i \in page, j \in found \ page : Precedes(i, j)
  BY DEF Pages
<1>2. p[1] = page /\ p[2] = found \ page
  BY <1>1
<1>3. page \subseteq Jobs
  BY <1>1
<1>4. key = None \/ (key \in page /\ \A i \in page \ {key} : Precedes(i, key))
  BY <1>2 DEF LastKeys
<1>5. key = None => p[2] = {}
  <2>1. None \notin Jobs
    BY ListingAssumption
  <2> QED
    BY <1>2, <1>3, <2>1 DEF LastKeys
<1> QED
  BY <1>1, <1>2, <1>3, <1>4, <1>5

(* A page keeps the walk in order, when the walk w it continues is. *)
LEMMA ListPageStep ==
  ASSUME IInv, NEW u \in Users, NEW w, NEW token \in Jobs \cup {None},
         w.start \subseteq Jobs, Listed(w) \subseteq Jobs,
         SeenOK(u, w, stage, owner),
         token = None => Listed(w) = {},
         token # None => \A i \in Listed(w) : i = token \/ <<i, token>> \in Order,
         token # None => \A j \in w.start : j \in Listed(w) \/ <<token, j>> \in Order,
         ListPage(u, w, token), UNCHANGED <<now, stage, owner, at>>
  PROVE  IInv'
<1>1. PICK p \in Pages(u, token) : \E key \in LastKeys(p[1], p[2]) :
        walk' = [walk EXCEPT ![u] =
          [state |-> IF key = None THEN "done" ELSE "walking", start |-> w.start,
           earlier |-> w.earlier \cup w.page, page |-> p[1], token |-> key]]
  BY DEF ListPage
<1>2. PICK key \in LastKeys(p[1], p[2]) :
        walk' = [walk EXCEPT ![u] =
          [state |-> IF key = None THEN "done" ELSE "walking", start |-> w.start,
           earlier |-> w.earlier \cup w.page, page |-> p[1], token |-> key]]
  BY <1>1
<1> DEFINE before == Listed(w)
           next == [state |-> IF key = None THEN "done" ELSE "walking", start |-> w.start,
                    earlier |-> before, page |-> p[1], token |-> key]
<1>3. /\ p[1] \subseteq Jobs /\ p[2] \subseteq Jobs
      /\ \A j \in p[1] : stage[j] = "indexed" /\ owner[j] = u /\ Beyond(token, j)
      /\ \A j \in Jobs : stage[j] = "indexed" /\ owner[j] = u /\ Beyond(token, j)
           => j \in p[1] \cup p[2]
      /\ key = None => p[2] = {}
      /\ key # None => /\ key \in p[1]
                       /\ \A i \in p[1] : i = key \/ Precedes(i, key)
                       /\ \A j \in p[2] : Precedes(key, j)
  BY PageFacts DEF IInv
<1>4. walk' = [walk EXCEPT ![u] = next]
  BY <1>2 DEF Listed
<1>5. next \in Walk
  BY <1>3 DEF Walk
<1>6. Listed(next) = before \cup p[1]
  BY DEF Listed
<1>7. SeenOK(u, next, stage, owner)
  BY <1>3, <1>6 DEF SeenOK
<1>8. \A i, j \in Jobs : Precedes(i, j) => <<i, j>> \in Order
  BY DEF Order
<1>9. \A i \in before, j \in p[1] : <<i, j>> \in Order
  <2> SUFFICES ASSUME NEW i \in before, NEW j \in p[1] PROVE <<i, j>> \in Order
    OBVIOUS
  <2>1. token # None /\ token \in Jobs /\ j \in Jobs
    BY <1>3
  <2>2. <<token, j>> \in Order
    BY <1>3, <1>8, <2>1 DEF Beyond
  <2>3. i = token \/ <<i, token>> \in Order
    BY <2>1
  <2> QED
    BY <2>2, <2>3, OrderIsTransitive DEF IInv
<1>10. key # None => \A i \in Listed(next) : i = key \/ <<i, key>> \in Order
  BY <1>3, <1>6, <1>8, <1>9
<1>11. \A j \in w.start : j \in Listed(next) \cup p[2]
  <2> SUFFICES ASSUME NEW j \in w.start, j \notin before PROVE j \in p[1] \cup p[2]
    BY <1>6
  <2>1. token = None \/ <<token, j>> \in Order
    OBVIOUS
  <2>2. Beyond(token, j)
    <3>1. \A i : <<i, j>> \in Order => Precedes(i, j)
      BY DEF Order
    <3> QED
      BY <2>1, <3>1 DEF Beyond
  <2>3. j \in Jobs /\ stage[j] = "indexed" /\ owner[j] = u
    BY DEF SeenOK
  <2> QED
    BY <1>3, <2>2, <2>3
<1>12. WalkOK(next, Order)
  <2>1. key # None => key \in Listed(next)
    BY <1>3, <1>6
  <2>2. key # None => \A j \in p[2] : <<key, j>> \in Order
    BY <1>3, <1>8
  <2>3. key = None => w.start \subseteq Listed(next)
    BY <1>3, <1>11
  <2> QED
    BY <1>9, <1>10, <1>11, <2>1, <2>2, <2>3 DEF WalkOK
<1>13. Order' = Order
  BY DEF Order, Precedes, utcnow_iso
<1>14. ASSUME NEW v \in Users
       PROVE  SeenOK(v, walk'[v], stage', owner') /\ WalkOK(walk'[v], Order')
  <2>1. CASE v = u
    <3>1. walk'[v] = next
      BY <1>4, <2>1 DEF IInv
    <3> QED
      BY <1>7, <1>12, <1>13, <2>1, <3>1
  <2>2. CASE v # u
    <3>1. walk'[v] = walk[v]
      BY <1>4, <2>2 DEF IInv
    <3> QED
      BY <1>13, <3>1 DEF IInv
  <2> QED
    BY <2>1, <2>2
<1>15. walk' \in [Users -> Walk]
  BY <1>4, <1>5 DEF IInv
<1> QED
  BY <1>14, <1>15 DEF IInv, RecordInv

-----------------------------------------------------------------------------

LEMMA InvStep ==
  ASSUME IInv, [Next]_vars
  PROVE  IInv'
<1>1. CASE UNCHANGED vars
  BY <1>1, UnrelatedStep DEF vars, IInv, RecordInv
<1>2. CASE Tick
  <2>1. RecordInv'
    BY <1>2, ListingAssumption DEF Tick, IInv, RecordInv
  <2> QED
    BY <1>2, <2>1, UnrelatedStep DEF Tick
<1>3. ASSUME NEW j \in Jobs, Store(j) \/ Propagate(j)
      PROVE  IInv'
  <2>1. RecordInv'
    BY <1>3 DEF Store, Propagate, IInv, RecordInv, Stage
  <2> QED
    BY <1>3, <2>1, UnrelatedStep DEF Store, Propagate, IInv, RecordInv
<1>4. ASSUME NEW u \in Users, NEW j \in Jobs, Stamp(u, j)
      PROVE  IInv'
  <2>1. RecordInv'
    BY <1>4 DEF Stamp, IInv, RecordInv, Stage
  <2> QED
    BY <1>4, <2>1, UnrelatedStep DEF Stamp, IInv, RecordInv
<1>5. ASSUME NEW u \in Users, NEW j \in Jobs, GetNarrative(u, j)
      PROVE  IInv'
  BY <1>5, UnrelatedStep DEF GetNarrative, IInv, RecordInv
<1>6. ASSUME NEW u \in Users, ListWithInvalidToken(u)
      PROVE  IInv'
  BY <1>6, UnrelatedStep DEF ListWithInvalidToken, QueryFails, IInv, RecordInv
<1>7. ASSUME NEW u \in Users, ListNarratives(u)
      PROVE  IInv'
  <2> DEFINE begin == [start |-> {j \in Jobs : stage[j] = "indexed" /\ owner[j] = u},
                       earlier |-> {}, page |-> {}]
  <2>1. UNCHANGED <<now, stage, owner, at>>
    BY <1>7 DEF ListNarratives
  <2>2. CASE ListPage(u, begin, None)
    <3>1. Listed(begin) = {} /\ begin.start \subseteq Jobs /\ SeenOK(u, begin, stage, owner)
      BY DEF Listed, SeenOK
    <3> QED
      BY <2>1, <2>2, <3>1, ListPageStep
  <2>3. CASE walk[u].state = "walking" /\ ListPage(u, walk[u], walk[u].token)
    <3>1. walk[u] \in Walk /\ SeenOK(u, walk[u], stage, owner) /\ WalkOK(walk[u], Order)
      BY DEF IInv
    <3>2. Listed(walk[u]) \subseteq Jobs /\ walk[u].start \subseteq Jobs
      BY <3>1 DEF Listed, Walk
    <3>3. walk[u].token \in Jobs /\ walk[u].token # None
      BY <2>3, <3>1, <3>2, ListingAssumption DEF WalkOK
    <3> QED
      BY <2>1, <2>3, <3>1, <3>2, <3>3, ListPageStep DEF WalkOK
  <2>4. CASE QueryFails(u)
    BY <2>1, <2>4, UnrelatedStep DEF QueryFails, IInv, RecordInv
  <2> QED
    BY <1>7, <2>2, <2>3, <2>4 DEF ListNarratives
<1> QED
  BY <1>1, <1>2, <1>3, <1>4, <1>5, <1>6, <1>7 DEF Next

LEMMA Invariance == Spec => []IInv
<1>1. Init => IInv
  BY ListingAssumption DEF Init, IInv, RecordInv, SeenOK, WalkOK, Listed, Stage, Walk
<1> QED
  BY <1>1, InvStep, PTL DEF Spec

(* Every variable keeps its type: stages, stamps, walks and answers. *)
THEOREM TypeCorrect == Spec => []TypeOK
<1> DEFINE AnswerOK == answer \in Answer
<1>1. Init => AnswerOK
  BY DEF Init, Answer, Failures
<1>2. IInv /\ AnswerOK /\ [Next]_vars => AnswerOK'
  <2> SUFFICES ASSUME IInv, AnswerOK, [Next]_vars PROVE answer' \in Answer
    OBVIOUS
  <2>1. ASSUME NEW u \in Users, QueryFails(u)
        PROVE  answer' \in Answer
    BY <2>1 DEF QueryFails, Answer, Failures
  <2>2. ASSUME NEW u \in Users, NEW w, NEW token \in Jobs \cup {None}, ListPage(u, w, token)
        PROVE  answer' \in Answer
    <3>1. PICK p \in Pages(u, token) : \E key \in LastKeys(p[1], p[2]) :
            answer' = [user |-> u, status |-> 200, shown |-> p[1]]
      BY <2>2 DEF ListPage
    <3>2. PICK key \in LastKeys(p[1], p[2]) :
            answer' = [user |-> u, status |-> 200, shown |-> p[1]]
      BY <3>1
    <3>3. p[1] \subseteq Jobs
      BY PageFacts DEF IInv
    <3> QED
      BY <3>2, <3>3 DEF Answer, Failures
  <2>3. ASSUME NEW u \in Users, ListNarratives(u)
        PROVE  answer' \in Answer
    <3>1. walk[u].token \in Jobs \cup {None}
      BY DEF IInv, Walk
    <3> QED
      BY <2>1, <2>2, <2>3, <3>1 DEF ListNarratives
  <2>4. ASSUME NEW u \in Users, ListWithInvalidToken(u)
        PROVE  answer' \in Answer
    <3>1. CASE answer' = [user |-> u, status |-> 400, shown |-> {}]
      BY <3>1 DEF Answer
    <3> QED
      BY <2>1, <2>4, <3>1 DEF ListWithInvalidToken
  <2>5. ASSUME NEW u \in Users, NEW j \in Jobs, GetNarrative(u, j)
        PROVE  answer' \in Answer
    BY <2>5 DEF GetNarrative, Answer, Failures
  <2> QED
    BY <2>3, <2>4, <2>5 DEF Next, vars, Tick, Store, Propagate, Stamp
<1>3. IInv /\ AnswerOK => TypeOK
  BY DEF IInv, RecordInv, TypeOK
<1> QED
  BY <1>1, <1>2, <1>3, Invariance, PTL DEF Spec

(* Neither the list nor the single read ever shows another user's job. *)
THEOREM ListsArePrivate == Spec => []OnlyOwnJobsShown
<1> DEFINE AnswerInv == /\ answer.shown \subseteq Jobs /\ OnlyOwnJobsShown
                        /\ \A j \in answer.shown : stage[j] # "new"
<1>1. Init => AnswerInv
  BY DEF Init, OnlyOwnJobsShown
<1>2. IInv /\ AnswerInv /\ [Next]_vars => AnswerInv'
  <2> SUFFICES ASSUME IInv, AnswerInv, [Next]_vars PROVE AnswerInv'
    OBVIOUS
  <2>1. ASSUME UNCHANGED answer,
               \A j \in Jobs : stage[j] # "new" => stage'[j] # "new" /\ owner'[j] = owner[j]
        PROVE  AnswerInv'
    BY <2>1 DEF OnlyOwnJobsShown
  <2>2. CASE UNCHANGED vars \/ Tick
    BY <2>1, <2>2 DEF vars, Tick
  <2>3. ASSUME NEW j \in Jobs, Store(j) \/ Propagate(j)
        PROVE  AnswerInv'
    BY <2>1, <2>3 DEF Store, Propagate, IInv, RecordInv
  <2>4. ASSUME NEW u \in Users, NEW j \in Jobs, Stamp(u, j)
        PROVE  AnswerInv'
    BY <2>1, <2>4 DEF Stamp, IInv, RecordInv
  <2>5. ASSUME NEW u \in Users, NEW j \in Jobs, GetNarrative(u, j)
        PROVE  AnswerInv'
    <3>1. UNCHANGED <<owner, stage>> /\ answer'.user = u /\ answer'.shown \subseteq {j}
      BY <2>5 DEF GetNarrative
    <3>2. PICK status \in {404} \cup Failures \cup (IF Visible(u, j) THEN {200} ELSE {}) :
            answer'.shown = IF status = 200 THEN {j} ELSE {}
      BY <2>5 DEF GetNarrative
    <3>3. answer'.shown # {} => Visible(u, j)
      BY <3>2 DEF Failures
    <3> QED
      BY <3>1, <3>3 DEF OnlyOwnJobsShown, Visible
  <2>6. ASSUME NEW u \in Users, QueryFails(u), UNCHANGED <<owner, stage>>
        PROVE  AnswerInv'
    BY <2>6 DEF QueryFails, OnlyOwnJobsShown
  <2>7. ASSUME NEW u \in Users, NEW w, NEW token \in Jobs \cup {None}, ListPage(u, w, token),
               UNCHANGED <<owner, stage>>
        PROVE  AnswerInv'
    <3>1. PICK p \in Pages(u, token) : \E key \in LastKeys(p[1], p[2]) :
            answer' = [user |-> u, status |-> 200, shown |-> p[1]]
      BY <2>7 DEF ListPage
    <3>2. PICK key \in LastKeys(p[1], p[2]) :
            answer' = [user |-> u, status |-> 200, shown |-> p[1]]
      BY <3>1
    <3>3. p[1] \subseteq Jobs /\ \A j \in p[1] : stage[j] = "indexed" /\ owner[j] = u
      BY PageFacts DEF IInv
    <3> QED
      BY <2>7, <3>2, <3>3 DEF OnlyOwnJobsShown
  <2>8. ASSUME NEW u \in Users, ListNarratives(u)
        PROVE  AnswerInv'
    <3>1. walk[u].state = "walking" => walk[u].token \in Jobs
      BY DEF IInv, WalkOK, Listed, Walk
    <3> QED
      BY <2>6, <2>7, <2>8, <3>1 DEF ListNarratives
  <2>9. ASSUME NEW u \in Users, ListWithInvalidToken(u)
        PROVE  AnswerInv'
    BY <2>6, <2>9 DEF ListWithInvalidToken, OnlyOwnJobsShown
  <2> QED
    BY <2>2, <2>3, <2>4, <2>5, <2>8, <2>9 DEF Next
<1>3. AnswerInv => OnlyOwnJobsShown
  OBVIOUS
<1> QED
  BY <1>1, <1>2, <1>3, Invariance, PTL DEF Spec

(* A walk read to its end has listed every job the index had when it       *)
(* began, whatever page sizes, ties and new jobs there are.                *)
THEOREM WalksAreComplete == Spec => []WalkIsComplete
<1>1. IInv => WalkIsComplete
  BY DEF IInv, WalkOK, WalkIsComplete, Listed
<1> QED
  BY <1>1, Invariance, PTL

(* Every page is below all pages before it. *)
THEOREM WalksDescend == Spec => []PagesDescend
<1>1. IInv => PagesDescend
  <2>1. \A i, j : <<i, j>> \in Order => Precedes(i, j)
    BY DEF Order
  <2>2. IInv => \A u \in Users : \A i \in walk[u].earlier, j \in walk[u].page : Precedes(i, j)
    BY <2>1 DEF IInv, WalkOK
  <2> QED
    BY <2>2 DEF PagesDescend, Precedes
<1> QED
  BY <1>1, Invariance, PTL

(* A rank that is not below a later moment's is of the same second, and of *)
(* a fraction of zero.                                                     *)
LEMMA RankInversion ==
  ASSUME NEW a \in 0..MaxTime, NEW b \in 0..MaxTime, a < b, utcnow_iso(a) >= utcnow_iso(b)
  PROVE  a \div PerSecond = b \div PerSecond /\ a % PerSecond = 0
<1> DEFINE P == PerSecond
           q == a \div P   r == a % P
           s == b \div P   t == b % P
           qP == P * q     sP == P * s
<1>1. P \in Nat /\ P > 0 /\ a \in Nat /\ b \in Nat
  BY ListingAssumption
<1>2. q \in Int /\ s \in Int /\ r \in 0..P-1 /\ t \in 0..P-1 /\ a = P * q + r /\ b = P * s + t
  BY <1>1
<1>3. utcnow_iso(a) = qP + (IF r = 0 THEN P - 1 ELSE r - 1)
  BY <1>1, <1>2 DEF utcnow_iso
<1>4. utcnow_iso(b) = sP + (IF t = 0 THEN P - 1 ELSE t - 1)
  BY <1>1, <1>2 DEF utcnow_iso
<1>5. qP \in Int /\ sP \in Int /\ a = qP + r /\ b = sP + t
  BY <1>1, <1>2
<1>6. q = s \/ q + 1 <= s \/ s + 1 <= q
  BY <1>2
<1>7. CASE q + 1 <= s
  <2>1. qP + P <= sP
    BY <1>1, <1>2, <1>7
  <2> QED
    BY <2>1, <1>1, <1>2, <1>3, <1>4, <1>5
<1>8. CASE s + 1 <= q
  <2>1. sP + P <= qP
    BY <1>1, <1>2, <1>8
  <2> QED
    BY <2>1, <1>1, <1>2, <1>5
<1>9. CASE q = s
  BY <1>9, <1>1, <1>2, <1>3, <1>4, <1>5
<1> QED
  BY <1>6, <1>7, <1>8, <1>9

(* No job is listed twice, and one is listed before a newer one only       *)
(* within a second, and only if it was stamped at the second's beginning:  *)
(* what isoformat does to the order.                                       *)
THEOREM ListIsNewestFirst == Spec => []NewestFirst
<1>1. IInv => NewestFirst
  <2> SUFFICES ASSUME IInv, NEW u \in Users, NEW i \in walk[u].earlier, NEW j \in walk[u].page
               PROVE  /\ i # j
                      /\ at[i] < at[j] => /\ at[i] \div PerSecond = at[j] \div PerSecond
                                          /\ at[i] % PerSecond = 0
    BY DEF NewestFirst
  <2>1. \A x, y : <<x, y>> \in Order => Precedes(x, y) /\ x \in Jobs /\ y \in Jobs
    BY DEF Order
  <2>2. Precedes(i, j) /\ i \in Jobs /\ j \in Jobs
    BY <2>1 DEF IInv, WalkOK
  <2>3. at[i] \in 0..MaxTime /\ at[j] \in 0..MaxTime
    BY <2>2 DEF IInv, RecordInv
  <2>4. utcnow_iso(at[i]) \in Int /\ utcnow_iso(at[j]) \in Int /\ i \in Int /\ j \in Int
    BY <2>2, <2>3, RankIsInt, ListingAssumption
  <2>5. utcnow_iso(at[i]) >= utcnow_iso(at[j])
    BY <2>2, <2>4 DEF Precedes
  <2>6. i # j
    BY <2>2, <2>4 DEF Precedes
  <2> QED
    BY <2>3, <2>5, <2>6, RankInversion
<1> QED
  BY <1>1, Invariance, PTL
-----------------------------------------------------------------------------
(* The statistics batch. *)

(* What a task of the phase has counted, of the table's jobs. *)
ScanOK(s, phase, table) ==
  /\ s.count \in [Scanned \cup {0} -> {0, 1}] /\ s.count[0] = 0
  /\ \A j \in Scanned : s.count[j] = 1 \/ j \in s.start => table[j] # None
  /\ phase = "idle" => s = S!NoScan
  /\ phase = "scan" => \A j \in Scanned :
       /\ s.count[j] = 1 => s.key # None /\ j <= s.key
       /\ j \in s.start /\ s.key # None /\ j <= s.key => s.count[j] = 1
  /\ phase \in {"aggregate", "write"} => \A j \in s.start : s.count[j] = 1

ScansOK == \A r \in Runs : ScanOK(scan[r], pc[r], job)

(* An execution beside no other one writes alone, and of one date. *)
WritesOK ==
  /\ \A r \in S!Active \ blurred : S!Active = {r}
  /\ \A r \in Runs : pc[r] = "failed" => r \in blurred
  /\ \A r \in Runs : pc[r] # "write" => write[r].next = 1
  /\ \A r \in Runs \ blurred : pc[r] = "write" =>
       \A m \in 1..3 : m < write[r].next => stats[<<write[r].date, m>>] = r
  /\ \A r \in Runs, x \in Dates \X (1..3) : stats[x] = r =>
       /\ pc[r] \in {"write", "succeeded", "failed"}
       /\ pc[r] = "write" => write[r].next > 1 /\ x[1] = write[r].date

LEMMA CardinalityIsOne == \A X : S!Cardinality(X) = Cardinality(X)
BY DEF S!Cardinality, Cardinality

LEMMA SumIsOne == \A f, X : S!SumFunctionOnSet(f, X) = SumFunctionOnSet(f, X)
BY DEF S!SumFunctionOnSet, SumFunctionOnSet, S!FoldFunctionOnSet, FoldFunctionOnSet,
       S!MapThenFoldSet, MapThenFoldSet

LEMMA KeysAreNaturals ==
  /\ S!Taken = Scanned \cup {0} /\ S!Metrics = 1..3 /\ S!Keys \subseteq Nat /\ S!Items \subseteq S!Keys
  /\ S!Items \cap Scanned = {j \in Scanned : job[j] # None} /\ 0 \notin Scanned /\ None \notin Nat
<1>1. S!Taken = Scanned \cup {0} /\ S!Metrics = 1..3
  BY DEF S!Taken, S!Metrics, S!Other
<1>2. \A x \in Dates \X (1..3) : MetricKey[x] \in Nat \ Scanned
  BY BatchAssumption
<1>3. S!Keys \subseteq Nat /\ S!Items \subseteq S!Keys
  BY <1>1, <1>2, BatchAssumption DEF S!Keys, S!Items, S!Existing
<1>4. S!Items \cap Scanned = {j \in Scanned : job[j] # None}
  BY <1>1, <1>2 DEF S!Items, S!Existing
<1> QED
  BY <1>1, <1>3, <1>4, BatchAssumption

(* One page and the key after it: it ends at the key, and leaves out no    *)
(* job before that which had settled when the scan began.                  *)
LEMMA OnePage ==
  ASSUME S!TypeOK, NEW r \in Runs, S!ScanPage(r)
  PROVE  \E page \in SUBSET S!Items, key \in S!Keys \cup {None} :
    /\ scan' = [scan EXCEPT ![r] =
         [key |-> key,
          count |-> [k \in Scanned \cup {0} |->
                       scan[r].count[k] + (IF k \in page \cap Scanned THEN 1 ELSE 0)],
          start |-> scan[r].start]]
    /\ pc' = [pc EXCEPT ![r] = IF key = None THEN "aggregate" ELSE "scan"]
    /\ \A k \in page : /\ scan[r].key = None \/ k > scan[r].key
                       /\ key = None \/ k <= key
    /\ \A k \in S!Items \cap scan[r].start : scan[r].key = None \/ k > scan[r].key =>
         (key = None \/ k <= key => k \in page)
    /\ key # None /\ scan[r].key # None => scan[r].key < key
<1> DEFINE beyond == {k \in S!Items : scan[r].key = None \/ k > scan[r].key}
           upto(m, n) == {k \in beyond \ m : k <= n}
           after(m, n) == {k \in beyond \ m : k > n}
           counts(m, n) == [k \in S!Taken |-> scan[r].count[k] +
              S!Cardinality({i \in S!JobsOf(upto(m, n)) : k = IF i \in Scanned THEN i ELSE S!Other})]
<1> DEFINE Answered(m, n) ==
             /\ upto(m, n) = {} => after(m, n) = {}
             /\ \E key \in S!LastKeys(upto(m, n), after(m, n)) :
                  /\ scan' = [scan EXCEPT ![r] =
                       [key |-> key, count |-> counts(m, n), start |-> @.start]]
                  /\ pc' = [pc EXCEPT ![r] = IF key = None THEN "aggregate" ELSE "scan"]
<1>0. \E m \in SUBSET (S!JobsOf(beyond) \ scan[r].start) : \E n \in (beyond \ m) \cup {0} :
        Answered(m, n)
  BY DEF S!ScanPage
<1>0a. PICK missed \in SUBSET (S!JobsOf(beyond) \ scan[r].start) :
         \E n \in (beyond \ missed) \cup {0} : Answered(missed, n)
  BY <1>0
<1>0b. PICK n \in (beyond \ missed) \cup {0} : Answered(missed, n)
  BY <1>0a
<1> DEFINE left == beyond \ missed
           page == {k \in left : k <= n}
           rest == {k \in left : k > n}
           count == [k \in S!Taken |-> scan[r].count[k] +
              S!Cardinality({i \in S!JobsOf(page) : k = IF i \in Scanned THEN i ELSE S!Other})]
<1>1. n \in left \cup {0} /\ (page = {} => rest = {})
  BY <1>0b
<1>2. PICK key \in S!LastKeys(page, rest) :
             /\ scan' = [scan EXCEPT ![r] = [key |-> key, count |-> count, start |-> @.start]]
             /\ pc' = [pc EXCEPT ![r] = IF key = None THEN "aggregate" ELSE "scan"]
  BY <1>0b
<1>3. scan[r] \in S!Scan /\ scan \in [Runs -> S!Scan]
  BY DEF S!TypeOK
<1>4. /\ left \subseteq S!Items /\ S!Items \subseteq Nat /\ n \in Nat /\ page \subseteq Nat
      /\ left = page \cup rest
  <2>1. left \subseteq S!Items /\ S!Items \subseteq Nat
    BY KeysAreNaturals
  <2>2. /\ page \subseteq left /\ rest \subseteq left /\ (n \in left \/ n = 0)
        /\ \A k \in left : (k <= n => k \in page) /\ (k > n => k \in rest)
    OBVIOUS
  <2> HIDE DEF beyond, left, page, rest
  <2>3. left \subseteq Nat /\ 0 \in Nat
    BY <2>1
  <2>4. n \in Nat
    BY <2>2, <2>3, Zenon
  <2>5. \A k \in Nat : k <= n \/ k > n
    BY <2>4
  <2>6. left = page \cup rest
    BY <2>2, <2>3, <2>5
  <2> QED
    BY <2>1, <2>2, <2>3, <2>4, <2>6
<1>5. count = [k \in Scanned \cup {0} |->
                    scan[r].count[k] + (IF k \in page \cap Scanned THEN 1 ELSE 0)]
  <2>1. ASSUME NEW k \in Scanned \cup {0}
        PROVE  S!Cardinality({i \in S!JobsOf(page) : k = IF i \in Scanned THEN i ELSE S!Other})
                 = IF k \in page \cap Scanned THEN 1 ELSE 0
    <3>1. {i \in S!JobsOf(page) : k = IF i \in Scanned THEN i ELSE S!Other}
             = IF k \in page \cap Scanned THEN {k} ELSE {}
      BY <2>1, KeysAreNaturals DEF S!JobsOf
    <3> QED
      BY <3>1, CardinalityIsOne, FS_EmptySet, FS_Singleton
  <2> QED
    BY <2>1, KeysAreNaturals
<1>6. page # {} => n \in page /\ \A y \in page : n >= y
  <2> SUFFICES ASSUME page # {} PROVE n \in page /\ \A y \in page : n >= y
    OBVIOUS
  <2>1. \A y \in page : y \in left /\ y <= n /\ y \in Nat
    BY <1>4
  <2>2. n \in left
    <3>1. PICK y \in page : y \in left /\ y <= n /\ y \in Nat
      BY <2>1
    <3>2. n = 0 => y = n
      BY <3>1
    <3> HIDE DEF left, page
    <3> QED
      BY <1>1, <3>1, <3>2
  <2>3. n \in page
    BY <1>4, <2>2
  <2> HIDE DEF left, page
  <2> QED
    BY <1>4, <2>1, <2>3
<1>7. key # None => key = n /\ n \in page
  <2> SUFFICES ASSUME key # None PROVE key = n /\ n \in page
    OBVIOUS
  <2> HIDE DEF left, page, rest
  <2>1. page # {} /\ key = S!Max(page)
    BY <1>2 DEF S!LastKeys
  <2>2. n \in page /\ \A y \in page : n >= y
    BY <1>6, <2>1
  <2>3. \A x \in page : (\A y \in page : x >= y) => x = n
    BY <1>4, <2>2
  <2>4. S!Max(page) = n
    BY <2>2, <2>3 DEF S!Max
  <2> QED
    BY <2>1, <2>2, <2>4
<1>8. key = None => left \subseteq page
  <2> HIDE DEF left, page, rest
  <2> SUFFICES ASSUME key = None, rest # {} PROVE FALSE
    BY <1>4
  <2>1. page # {} /\ key = S!Max(page)
    BY <1>1, <1>2 DEF S!LastKeys
  <2>2. S!Max(page) \in page
    BY <1>6, <2>1 DEF S!Max
  <2> QED
    BY <1>4, <2>1, <2>2, KeysAreNaturals
<1>9. key \in S!Keys \cup {None}
  <2> HIDE DEF left, page, rest
  <2>1. page \subseteq S!Keys
    BY <1>4, KeysAreNaturals
  <2> QED
    BY <1>7, <2>1
<1>10. /\ page \in SUBSET S!Items
       /\ \A k \in page : (scan[r].key = None \/ k > scan[r].key) /\ (key = None \/ k <= key)
  <2>1. page \in SUBSET S!Items /\ \A k \in page : scan[r].key = None \/ k > scan[r].key
    OBVIOUS
  <2>2. \A k \in page : k <= n
    OBVIOUS
  <2> QED
    BY <1>7, <2>1, <2>2
<1>11. \A k \in S!Items \cap scan[r].start : scan[r].key = None \/ k > scan[r].key =>
         (key = None \/ k <= key => k \in page)
  <2> SUFFICES ASSUME NEW k \in S!Items \cap scan[r].start, scan[r].key = None \/ k > scan[r].key,
                      key = None \/ k <= key
               PROVE  k \in page
    OBVIOUS
  <2>1. k \in left
    OBVIOUS
  <2>2. key # None => k <= n
    BY <1>7
  <2> QED
    BY <1>8, <2>1, <2>2
<1>12. key # None /\ scan[r].key # None => scan[r].key < key
  <2>1. scan[r].key \in Nat \cup {None}
    BY <1>3, KeysAreNaturals DEF S!Scan
  <2>2. n \in page => scan[r].key = None \/ n > scan[r].key
    OBVIOUS
  <2> HIDE DEF left, page, rest
  <2> QED
    BY <1>4, <1>7, <2>1, <2>2
<1>13. scan' = [scan EXCEPT ![r] = [key |-> key, count |-> count, start |-> scan[r].start]]
  BY <1>2, <1>3
<1> HIDE DEF page, left, count
<1> QED
  BY <1>2, <1>5, <1>9, <1>10, <1>11, <1>12, <1>13

(* The scan counts each job once, wherever the pages end. *)
LEMMA PageKeepsCounts ==
  ASSUME S!TypeOK, ScansOK, NEW r \in Runs, S!ScanPage(r)
  PROVE  S!TypeOK' /\ ScansOK'
<1>1. PICK page \in SUBSET S!Items, key \in S!Keys \cup {None} :
    /\ scan' = [scan EXCEPT ![r] =
         [key |-> key,
          count |-> [k \in Scanned \cup {0} |->
                       scan[r].count[k] + (IF k \in page \cap Scanned THEN 1 ELSE 0)],
          start |-> scan[r].start]]
    /\ pc' = [pc EXCEPT ![r] = IF key = None THEN "aggregate" ELSE "scan"]
    /\ \A k \in page : /\ scan[r].key = None \/ k > scan[r].key
                       /\ key = None \/ k <= key
    /\ \A k \in S!Items \cap scan[r].start : scan[r].key = None \/ k > scan[r].key =>
         (key = None \/ k <= key => k \in page)
    /\ key # None /\ scan[r].key # None => scan[r].key < key
  BY OnePage
<1> DEFINE old == scan[r]
           count == [k \in Scanned \cup {0} |->
                       old.count[k] + (IF k \in page \cap Scanned THEN 1 ELSE 0)]
           new == [key |-> key, count |-> count, start |-> old.start]
           phase == IF key = None THEN "aggregate" ELSE "scan"
<1>2. UNCHANGED <<today, job, stats, metrics, write, blurred>> /\ pc[r] = "scan"
  BY DEF S!ScanPage
<1>3. old \in S!Scan /\ ScanOK(old, "scan", job) /\ scan \in [Runs -> S!Scan]
      /\ pc \in [Runs -> S!Phase]
  BY <1>2 DEF S!TypeOK, ScansOK
<1>4. /\ old.key \in Nat \cup {None} /\ key \in Nat \cup {None}
      /\ old.count \in [Scanned \cup {0} -> {0, 1}] /\ old.count[0] = 0
      /\ Scanned \subseteq Nat /\ page \subseteq Nat /\ None \notin Nat /\ 0 \notin Scanned
  BY <1>3, KeysAreNaturals, BatchAssumption DEF S!Scan, ScanOK
<1>5. \A k \in page \cap Scanned : old.count[k] = 0 /\ job[k] # None
  BY <1>1, <1>3, <1>4, KeysAreNaturals DEF ScanOK
<1>6. count \in [Scanned \cup {0} -> {0, 1}] /\ count[0] = 0
  <2>1. ASSUME NEW k \in Scanned \cup {0}
        PROVE  old.count[k] + (IF k \in page \cap Scanned THEN 1 ELSE 0) \in {0, 1}
    <3> DEFINE c == old.count
    <3>1. c[k] \in {0, 1} /\ (k \in page \cap Scanned => c[k] = 0)
      BY <1>4, <1>5
    <3> HIDE DEF c
    <3>2. c[k] + (IF k \in page \cap Scanned THEN 1 ELSE 0) \in {0, 1}
      BY <3>1
    <3> QED
      BY <3>2 DEF c
  <2> QED
    BY <1>4, <2>1
<1>7. \A j \in Scanned : count[j] = 1 <=> old.count[j] = 1 \/ j \in page
  BY <1>4, <1>5
<1>8. new \in S!Scan
  <2>1. count \in [S!Taken -> Nat] /\ old.start \in SUBSET Scanned
    BY <1>3, <1>6, KeysAreNaturals DEF S!Scan
  <2> QED
    BY <2>1 DEF S!Scan
<1>9. \A j \in old.start : j \in Scanned /\ j \in S!Items
  BY <1>3, KeysAreNaturals DEF ScanOK, S!Scan
<1>10. ScanOK(new, phase, job)
  <2> DEFINE c == count
  <2>1. \A j \in Scanned : c[j] = 1 \/ j \in old.start => job[j] # None
    BY <1>3, <1>5, <1>7 DEF ScanOK
  <2>2. ASSUME key # None, NEW j \in Scanned
        PROVE  /\ c[j] = 1 => j <= key
               /\ j \in old.start /\ j <= key => c[j] = 1
    <3>1. j \in Nat /\ key \in Nat
      BY <1>4, <2>2
    <3>2. old.count[j] = 1 => j <= key
      BY <1>1, <1>3, <1>4, <2>2, <3>1 DEF ScanOK
    <3>3. j \in page => j <= key
      BY <1>1, <2>2
    <3>4. j \in old.start /\ j <= key => old.count[j] = 1 \/ j \in page
      BY <1>1, <1>3, <1>4, <1>9, <2>2, <3>1 DEF ScanOK
    <3> QED
      BY <1>7, <3>2, <3>3, <3>4
  <2>3. ASSUME key = None, NEW j \in old.start
        PROVE  c[j] = 1
    <3>1. old.count[j] = 1 \/ j \in page
      BY <1>1, <1>3, <1>4, <1>9, <2>3 DEF ScanOK
    <3> QED
      BY <1>7, <1>9, <3>1
  <2>4. c[0] = 0 /\ c \in [Scanned \cup {0} -> {0, 1}]
    BY <1>6
  <2>5. /\ new.count = c /\ new.start = old.start /\ new.key = key
    OBVIOUS
  <2> HIDE DEF c, new, old
  <2> QED
    BY <2>1, <2>2, <2>3, <2>4, <2>5 DEF ScanOK
<1>11. scan' = [scan EXCEPT ![r] = new] /\ pc' = [pc EXCEPT ![r] = phase] /\ phase \in S!Phase
  BY <1>1 DEF S!Phase
<1> HIDE DEF new, phase
<1>12. S!TypeOK'
  BY <1>2, <1>3, <1>8, <1>11 DEF S!TypeOK, S!Metrics
<1>13. ScansOK'
  BY <1>2, <1>3, <1>10, <1>11 DEF ScansOK
<1> QED
  BY <1>12, <1>13

-----------------------------------------------------------------------------
(* The trends. *)

Counted(c, p, table) == {j \in Scanned : table[j] # None /\ c[j] = 1 /\ table[j] = p}

(* What is kept of a count of zeros and ones, and the total. *)
TrendsFit(c, m, table) ==
  LET kept == {t.prompt : t \in m.trends}
  IN  /\ SumFunctionOnSet([t \in m.trends |-> t.count], m.trends) <= m.total
      /\ \A t \in m.trends : t.count = Cardinality(Counted(c, t.prompt, table)) /\ t.count > 0
      /\ \A p \in Prompts \ kept : Cardinality(Counted(c, p, table)) > 0 =>
           /\ Cardinality(kept) = PromptTrendLimit
           /\ \A q \in kept : Cardinality(Counted(c, q, table)) >= Cardinality(Counted(c, p, table))

LEMMA AskingCounts ==
  ASSUME NEW c \in [Scanned \cup {0} -> {0, 1}], NEW p
  PROVE  /\ S!Asking(c, p) = Cardinality(Counted(c, p, job)) /\ Cardinality(Counted(c, p, job)) \in Nat
         /\ IsFiniteSet(Counted(c, p, job))
<1> DEFINE asking == {j \in S!Existing : job[j] = p}
<1>1. asking \in SUBSET Scanned /\ IsFiniteSet(asking)
  BY BatchAssumption, FS_Subset DEF S!Existing
<1>2. \A j \in asking : c[j] \in {0, 1}
  BY <1>1
<1>3. Counted(c, p, job) = {j \in asking : c[j] = 1}
  BY DEF Counted, S!Existing
<1>4. IsFiniteSet(Counted(c, p, job))
  BY <1>1, <1>3, FS_Subset
<1>5. S!Asking(c, p) = SumFunctionOnSet(c, asking)
  BY SumIsOne DEF S!Asking
<1> HIDE DEF asking
<1>6. SumFunctionOnSet(c, asking) = Cardinality({j \in asking : c[j] = 1})
  BY <1>1, <1>2, SumIsCount
<1> QED
  BY <1>3, <1>4, <1>5, <1>6, FS_CardinalityType

(* One record for each of First, with its number. *)
RecordsOf(trends, First, n) ==
  /\ {t.prompt : t \in trends} = First
  /\ trends \subseteq [prompt : First, count : Nat]
  /\ \A t \in trends : t.prompt \in First /\ t.count = n[t.prompt]
  /\ \A s, t \in trends : s.prompt = t.prompt => s = t

LEMMA TrendRecords ==
  ASSUME NEW First, NEW n \in [First -> Nat],
         NEW trends, trends = {[prompt |-> p, count |-> n[p]] : p \in First}
  PROVE  RecordsOf(trends, First, n)
<1>1. ASSUME NEW t \in trends
      PROVE  /\ t.prompt \in First /\ t.count = n[t.prompt]
             /\ t = [prompt |-> t.prompt, count |-> n[t.prompt]]
             /\ t \in [prompt : First, count : Nat]
  <2>1. PICK p \in First : t = [prompt |-> p, count |-> n[p]]
    OBVIOUS
  <2>2. t.prompt = p /\ t.count = n[p] /\ n[p] \in Nat
    BY <2>1
  <2> QED
    BY <2>1, <2>2
<1>2. \A p \in First : \E t \in trends : t.prompt = p
  <2> SUFFICES ASSUME NEW p \in First PROVE \E t \in trends : t.prompt = p
    OBVIOUS
  <2>1. [prompt |-> p, count |-> n[p]] \in trends
    OBVIOUS
  <2>2. [prompt |-> p, count |-> n[p]].prompt = p
    OBVIOUS
  <2> QED
    BY <2>1, <2>2
<1>3. {t.prompt : t \in trends} = First
  BY <1>1, <1>2
<1>4. \A s, t \in trends : s.prompt = t.prompt => s = t
  BY <1>1
<1> QED
  BY <1>1, <1>3, <1>4 DEF RecordsOf

(* promptTrends keeps the first of the limit. *)
LEMMA TrendsAreFirst ==
  ASSUME NEW c \in [Scanned \cup {0} -> {0, 1}], \A j \in Scanned : c[j] = 1 => job[j] # None
  PROVE  LET m == [total |-> S!Total(c), trends |-> S!promptTrends(c)]
         IN  m \in S!Metric /\ TrendsFit(c, m, job)
<1> DEFINE n == [p \in Prompts |-> Cardinality(Counted(c, p, job))]
           A == {p \in Prompts : n[p] > 0}
           R == {o \in A \X A : n[o[1]] > n[o[2]] \/ (n[o[1]] = n[o[2]] /\ o[1] < o[2])}
           First == {q \in A : Cardinality(Ahead(R, A, q)) < PromptTrendLimit}
           trends == {[prompt |-> p, count |-> n[p]] : p \in First}
<1>1. \A p \in Prompts : S!Asking(c, p) = n[p] /\ n[p] = Cardinality(Counted(c, p, job))
  BY AskingCounts
<1>2. n \in [Prompts -> Nat]
  BY AskingCounts
<1> HIDE DEF n
<1>3. S!promptTrends(c) = trends
  <2>1. S!Asked(c) = A
    BY <1>1 DEF S!Asked
  <2> DEFINE Before(o, q) == \/ S!Asking(c, o) > S!Asking(c, q)
                             \/ S!Asking(c, o) = S!Asking(c, q) /\ o < q
  <2>2. ASSUME NEW q \in A
        PROVE  {o \in A : Before(o, q)} = Ahead(R, A, q)
    BY <1>1 DEF Ahead
  <2> HIDE DEF A, R
  <2>3. {q \in A : S!Cardinality({o \in A : Before(o, q)}) < PromptTrendLimit} = First
    BY <2>2, CardinalityIsOne
  <2>4. S!promptTrends(c) = {[prompt |-> p, count |-> S!Asking(c, p)] : p \in First}
    <3> HIDE DEF First
    <3> QED
      BY <2>1, <2>3 DEF S!promptTrends
  <2>5. \A p \in First : S!Asking(c, p) = n[p]
    BY <1>1 DEF A
  <2> HIDE DEF First
  <2> QED
    BY <2>4, <2>5
<1>4. StrictOrder(R, A)
  <2>1. \A p \in A : n[p] \in Nat /\ p \in Nat
    BY <1>2, BatchAssumption
  <2>2. \A x, y \in A : <<x, y>> \in R <=> n[x] > n[y] \/ (n[x] = n[y] /\ x < y)
    OBVIOUS
  <2> HIDE DEF A, R
  <2> QED
    BY <2>1, <2>2 DEF StrictOrder
<1>5. IsFiniteSet(A) /\ A \subseteq Prompts /\ First \subseteq A
  BY BatchAssumption, FS_Subset
<1>6. /\ {t.prompt : t \in trends} = First
      /\ trends \subseteq [prompt : First, count : Nat]
      /\ \A t \in trends : t.prompt \in First /\ t.count = n[t.prompt]
      /\ \A s, t \in trends : s.prompt = t.prompt => s = t
  <2> DEFINE k == [p \in First |-> n[p]]
  <2>1. k \in [First -> Nat] /\ \A p \in First : k[p] = n[p]
    BY <1>2, <1>5
  <2> HIDE DEF k, First
  <2>2. trends = {[prompt |-> p, count |-> k[p]] : p \in First}
    BY <2>1
  <2> HIDE DEF trends
  <2>3. RecordsOf(trends, First, k)
    BY <2>1, <2>2, TrendRecords
  <2> QED
    BY <2>1, <2>3 DEF RecordsOf
<1>7. \A p \in Prompts \ First : n[p] > 0 =>
        /\ Cardinality(First) = PromptTrendLimit
        /\ \A q \in First : n[q] >= n[p]
  <2> SUFFICES ASSUME NEW p \in Prompts \ First, n[p] > 0
               PROVE  /\ Cardinality(First) = PromptTrendLimit
                      /\ \A q \in First : n[q] >= n[p]
    OBVIOUS
  <2>1. p \in A /\ PromptTrendLimit \in Nat
    BY BatchAssumption
  <2> HIDE DEF R, A
  <2>9. First = {q \in A : Cardinality(Ahead(R, A, q)) < PromptTrendLimit} /\ p \notin First
    OBVIOUS
  <2> HIDE DEF First
  <2>2. Cardinality(First) = PromptTrendLimit /\ \A q \in First : <<q, p>> \in R
    BY <1>4, <1>5, <2>1, <2>9, FirstAreFull
  <2>3. ASSUME NEW q \in First PROVE n[q] >= n[p]
    <3>1. n[q] > n[p] \/ n[q] = n[p]
      BY <2>2 DEF R
    <3> QED
      BY <1>2, <1>5, <3>1
  <2> QED
    BY <2>2, <2>3
<1>8. SumFunctionOnSet([t \in trends |-> t.count], trends) <= S!Total(c) /\ S!Total(c) \in Nat
  <2> DEFINE U == {j \in S!Taken : c[j] = 1}
             C == [t \in trends |-> Counted(c, t.prompt, job)]
             f == [t \in trends |-> t.count]
  <2>1. IsFiniteSet(S!Taken) /\ S!Taken = Scanned \cup {0}
    BY KeysAreNaturals, BatchAssumption, FS_AddElement
  <2>2. IsFiniteSet(U) /\ Cardinality(U) \in Nat
    BY <2>1, FS_Subset, FS_CardinalityType
  <2>3. S!Total(c) = Cardinality(U)
    BY <2>1, SumIsOne, SumIsCount DEF S!Total
  <2>4. IsFiniteSet(trends)
    <3> DEFINE prompt == [t \in trends |-> t.prompt]
    <3>2. IsFiniteSet(First)
      BY <1>5, FS_Subset
    <3> HIDE DEF trends, First
    <3>1. prompt \in Injection(trends, First)
      BY <1>6 DEF Injection, IsInjective
    <3> QED
      BY <3>1, <3>2, FS_Injection
  <2> HIDE DEF trends, First
  <2>5. C \in [trends -> SUBSET U]
    BY <2>1 DEF Counted, S!Existing
  <2>6. \A s, t \in trends : s # t => C[s] \cap C[t] = {}
    BY <1>6 DEF Counted
  <2>7. \A t \in trends : f[t] = Cardinality(C[t])
    BY <1>1, <1>5, <1>6
  <2> HIDE DEF U, C, f
  <2>8. SumFunctionOnSet(f, trends) <= Cardinality(U)
    BY <2>2, <2>4, <2>5, <2>6, <2>7, SumOfParts
  <2> QED
    BY <2>2, <2>3, <2>8 DEF f
<1> DEFINE m == [total |-> S!Total(c), trends |-> trends]
<1>9. m \in S!Metric
  BY <1>5, <1>6, <1>8 DEF S!Metric
<1>10. \A t \in trends : t.count = Cardinality(Counted(c, t.prompt, job)) /\ t.count > 0
  BY <1>1, <1>5, <1>6
<1>11. m.total = S!Total(c) /\ m.trends = trends
  OBVIOUS
<1>12. TrendsFit(c, m, job)
  <2>1. /\ SumFunctionOnSet([t \in m.trends |-> t.count], m.trends) <= m.total
        /\ {t.prompt : t \in m.trends} = First
    <3> HIDE DEF trends, First
    <3> QED
      BY <1>6, <1>8, <1>11
  <2>2. ASSUME NEW p \in Prompts \ First, Cardinality(Counted(c, p, job)) > 0
        PROVE  /\ Cardinality(First) = PromptTrendLimit
               /\ \A q \in First : Cardinality(Counted(c, q, job)) >= Cardinality(Counted(c, p, job))
    <3>1. n[p] > 0 /\ n[p] = Cardinality(Counted(c, p, job))
      BY <1>1, <2>2
    <3>2. \A q \in First : n[q] = Cardinality(Counted(c, q, job))
      BY <1>1, <1>5
    <3> HIDE DEF First
    <3> QED
      BY <1>7, <3>1, <3>2
  <2> HIDE DEF trends, First, m
  <2> QED
    BY <1>10, <1>11, <2>1, <2>2 DEF TrendsFit
<1> QED
  BY <1>3, <1>9, <1>12
-----------------------------------------------------------------------------

MetricsOK ==
  \A r \in Runs : metrics[r] # None =>
    pc[r] = "write" /\ TrendsFit(scan[r].count, metrics[r], job)

(* A job that appears changes nothing of what was counted. *)
LEMMA TableGrows ==
  ASSUME NEW t, NEW u, \A j \in Scanned : t[j] # None => u[j] = t[j]
  PROVE  /\ \A s, phase : ScanOK(s, phase, t) => ScanOK(s, phase, u)
         /\ \A s, phase, m : ScanOK(s, phase, t) /\ TrendsFit(s.count, m, t) => TrendsFit(s.count, m, u)
<1>1. \A s, phase : ScanOK(s, phase, t) => ScanOK(s, phase, u)
  BY DEF ScanOK
<1>2. ASSUME NEW s, NEW phase, NEW m, ScanOK(s, phase, t), TrendsFit(s.count, m, t)
      PROVE  TrendsFit(s.count, m, u)
  <2> DEFINE c == s.count
  <2>1. \A j \in Scanned : c[j] = 1 => t[j] # None
    BY <1>2 DEF ScanOK
  <2>2. \A p : Counted(c, p, u) = Counted(c, p, t)
    BY <2>1 DEF Counted
  <2>3. TrendsFit(c, m, t)
    BY <1>2
  <2> HIDE DEF c
  <2>4. TrendsFit(c, m, u)
    BY <2>2, <2>3 DEF TrendsFit
  <2> QED
    BY <2>4 DEF c
<1> QED
  BY <1>1, <1>2

LEMMA NoScanOK ==
  ASSUME NEW table, NEW phase \in {"idle", "succeeded", "failed"}
  PROVE  ScanOK(S!NoScan, phase, table) /\ S!NoScan \in S!Scan
  BY KeysAreNaturals DEF ScanOK, S!NoScan, S!ScanOf, S!Scan

(* The end of an execution forgets what it read. *)
LEMMA EndKeeps ==
  ASSUME S!TypeOK, ScansOK, MetricsOK, NEW r \in Runs, NEW phase \in {"succeeded", "failed"},
         S!End(r, phase), today' = today, job' = job, blurred' \subseteq Runs,
         stats' \in [Dates \X S!Metrics -> Runs \cup {None}]
  PROVE  S!TypeOK' /\ ScansOK' /\ MetricsOK'
<1>1. S!NoScan \in S!Scan /\ ScanOK(S!NoScan, phase, job)
  BY NoScanOK
<1>2. [date |-> 0, next |-> 1] \in [date : Dates, next : S!Metrics]
  BY BatchAssumption DEF S!Metrics
<1>3. S!TypeOK'
  BY <1>1, <1>2 DEF S!TypeOK, S!End, S!Phase
<1>4. ScansOK'
  BY <1>1 DEF S!TypeOK, S!End, ScansOK
<1>5. MetricsOK'
  BY DEF S!TypeOK, S!End, MetricsOK
<1> QED
  BY <1>3, <1>4, <1>5

LEMMA CountsStep ==
  ASSUME S!TypeOK, ScansOK, MetricsOK, [S!Next]_(S!vars)
  PROVE  S!TypeOK' /\ ScansOK' /\ MetricsOK'
<1>1. CASE UNCHANGED S!vars
  BY <1>1 DEF S!vars, S!TypeOK, ScansOK, MetricsOK
<1>2. CASE S!Midnight
  BY <1>2 DEF S!Midnight, S!TypeOK, ScansOK, MetricsOK
<1>3. ASSUME NEW j \in Scanned, S!Create(j)
      PROVE  S!TypeOK' /\ ScansOK' /\ MetricsOK'
  <2>1. PICK p \in Prompts \cup {NoPrompt} : job' = [job EXCEPT ![j] = p]
    BY <1>3 DEF S!Create
  <2>2. UNCHANGED <<today, stats, pc, scan, metrics, write, blurred>> /\ job[j] = None
    BY <1>3 DEF S!Create
  <2>3. S!TypeOK'
    BY <2>1, <2>2 DEF S!TypeOK
  <2>4. \A i \in Scanned : job[i] # None => job'[i] = job[i]
    BY <2>1, <2>2 DEF S!TypeOK
  <2>5. ScansOK'
    BY <2>2, <2>4, TableGrows DEF ScansOK
  <2>6. MetricsOK'
    BY <2>2, <2>4, TableGrows DEF ScansOK, MetricsOK
  <2> QED
    BY <2>3, <2>5, <2>6
<1>4. ASSUME NEW r \in Runs, S!Start(r)
      PROVE  S!TypeOK' /\ ScansOK' /\ MetricsOK'
  <2>0. PICK jobs \in SUBSET S!Existing : scan' = [scan EXCEPT ![r] = S!ScanOf(jobs)]
    BY <1>4 DEF S!Start
  <2> DEFINE new == S!ScanOf(jobs)
  <2>1. pc[r] = "idle"
    BY <1>4 DEF S!Start
  <2>2. scan' = [scan EXCEPT ![r] = new]
    BY <2>0
  <2>3. new \in S!Scan /\ ScanOK(new, "scan", job)
    BY KeysAreNaturals DEF S!ScanOf, S!Scan, ScanOK, S!Existing
  <2>4. blurred' \subseteq Runs
    BY <1>4 DEF S!Start, S!TypeOK, S!Active
  <2>5. /\ UNCHANGED <<today, job, stats, metrics, write>>
        /\ pc' = [pc EXCEPT ![r] = "scan"]
    BY <1>4 DEF S!Start
  <2> HIDE DEF new
  <2>6. S!TypeOK'
    BY <2>2, <2>3, <2>4, <2>5 DEF S!TypeOK, S!Phase
  <2>7. ScansOK'
    BY <2>2, <2>3, <2>5 DEF S!TypeOK, ScansOK
  <2>8. MetricsOK'
    BY <2>1, <2>2, <2>5 DEF S!TypeOK, MetricsOK
  <2> QED
    BY <2>6, <2>7, <2>8
<1>5. ASSUME NEW r \in Runs, S!ScanPage(r)
      PROVE  S!TypeOK' /\ ScansOK' /\ MetricsOK'
  <2>1. S!TypeOK' /\ ScansOK'
    BY <1>5, PageKeepsCounts
  <2>2. /\ pc[r] = "scan" /\ UNCHANGED <<job, metrics>>
        /\ \A q \in Runs \ {r} : scan'[q] = scan[q] /\ pc'[q] = pc[q]
    BY <1>5, OnePage DEF S!ScanPage, S!TypeOK
  <2>3. MetricsOK'
    BY <2>2 DEF MetricsOK
  <2> QED
    BY <2>1, <2>3
<1>6. ASSUME NEW r \in Runs, S!ScanFails(r)
      PROVE  S!TypeOK' /\ ScansOK' /\ MetricsOK'
  <2>1. blurred' \subseteq Runs /\ stats' \in [Dates \X S!Metrics -> Runs \cup {None}]
    BY <1>6 DEF S!ScanFails, S!TypeOK
  <2> QED
    BY <1>6, <2>1, EndKeeps DEF S!ScanFails, S!Fail
<1>7. ASSUME NEW r \in Runs, S!Aggregate(r)
      PROVE  S!TypeOK' /\ ScansOK' /\ MetricsOK'
  <2> DEFINE c == scan[r].count
             m == [total |-> S!Total(c), trends |-> S!promptTrends(c)]
             s == [scan[r] EXCEPT !.start = {}]
  <2>1. pc[r] = "aggregate" /\ ScanOK(scan[r], "aggregate", job)
    BY <1>7 DEF S!Aggregate, ScansOK
  <2>2. c \in [Scanned \cup {0} -> {0, 1}] /\ \A j \in Scanned : c[j] = 1 => job[j] # None
    BY <2>1 DEF ScanOK
  <2>3. m \in S!Metric /\ TrendsFit(c, m, job)
    BY <2>2, TrendsAreFirst
  <2>4. /\ pc' = [pc EXCEPT ![r] = "write"] /\ metrics' = [metrics EXCEPT ![r] = m]
        /\ UNCHANGED <<today, job, stats, blurred, write>>
    BY <1>7, <2>2 DEF S!Aggregate
  <2>5. scan[r] \in S!Scan /\ scan \in [Runs -> S!Scan]
    BY DEF S!TypeOK
  <2>6. /\ s \in S!Scan /\ s.count = c /\ s.start = {}
        /\ scan' = [scan EXCEPT ![r] = s]
    BY <1>7, <2>5 DEF S!Scan, S!Aggregate
  <2> HIDE DEF m, s
  <2>7. ScanOK(s, "write", job)
    BY <2>1, <2>6 DEF ScanOK
  <2>8. S!TypeOK'
    BY <2>3, <2>4, <2>5, <2>6 DEF S!TypeOK, S!Phase
  <2>9. ScansOK'
    BY <2>4, <2>5, <2>6, <2>7 DEF ScansOK, S!TypeOK
  <2>10. MetricsOK'
    BY <2>3, <2>4, <2>5, <2>6 DEF MetricsOK, S!TypeOK
  <2> QED
    BY <2>8, <2>9, <2>10
<1>8. ASSUME NEW r \in Runs, S!PutMetric(r) \/ S!PutFails(r)
      PROVE  S!TypeOK' /\ ScansOK' /\ MetricsOK'
  <2>1. write[r] \in [date : Dates, next : S!Metrics] /\ S!DateOf(r) \in Dates
    BY DEF S!TypeOK, S!DateOf
  <2>2. <<S!DateOf(r), write[r].next>> \in Dates \X S!Metrics
    BY <2>1
  <2>3. /\ stats' = stats \/ stats' = [stats EXCEPT ![<<S!DateOf(r), write[r].next>>] = r]
        /\ today' = today /\ job' = job /\ blurred' \subseteq Runs
    BY <1>8 DEF S!PutMetric, S!PutFails, S!TypeOK
  <2>4. stats' \in [Dates \X S!Metrics -> Runs \cup {None}]
    BY <2>2, <2>3 DEF S!TypeOK
  <2>5. CASE S!End(r, "succeeded") \/ S!End(r, "failed")
    BY <2>3, <2>4, <2>5, EndKeeps
  <2>6. CASE /\ write[r].next # 3
             /\ write' = [write EXCEPT ![r] = [date |-> S!DateOf(r), next |-> @.next + 1]]
             /\ UNCHANGED <<pc, scan, metrics>>
    <3>1. write[r].next + 1 \in S!Metrics
      BY <2>1, <2>6 DEF S!Metrics
    <3>2. write' = [write EXCEPT ![r] = [date |-> S!DateOf(r), next |-> write[r].next + 1]]
      BY <2>6 DEF S!TypeOK
    <3>3. S!TypeOK'
      BY <2>1, <2>3, <2>4, <2>6, <3>1, <3>2 DEF S!TypeOK
    <3> QED
      BY <2>3, <2>6, <3>3 DEF ScansOK, MetricsOK
  <2> QED
    BY <1>8, <2>5, <2>6 DEF S!PutMetric, S!PutFails, S!Advance, S!Fail
<1> QED
  BY <1>1, <1>2, <1>3, <1>4, <1>5, <1>6, <1>7, <1>8 DEF S!Next
-----------------------------------------------------------------------------
(* The records. *)

(* A step in which nothing is written, and nobody ends well. *)
LEMMA UnwrittenStep ==
  ASSUME S!TypeOK, WritesOK, S!RecordsOfOneRun, UNCHANGED stats, blurred \subseteq blurred',
         \A r \in Runs :
           /\ pc'[r] = "succeeded" => pc[r] = "succeeded"
           /\ pc'[r] = "failed" => r \in blurred'
           /\ pc[r] \in {"succeeded", "failed"} => pc'[r] = pc[r]
           /\ pc[r] = "write" => pc'[r] \in {"write", "failed"}
           /\ IF pc'[r] = "write" /\ pc[r] = "write" THEN write'[r] = write[r]
                                                   ELSE write'[r].next = 1,
         \A r \in S!Active' \ blurred' : S!Active' = {r}
  PROVE  WritesOK' /\ S!RecordsOfOneRun'
<1>1. S!RecordsOfOneRun'
  <2> SUFFICES ASSUME NEW d \in Dates,
                      \A r \in {stats[<<d, m>>] : m \in S!Metrics} \ {None} :
                        pc'[r] = "succeeded" /\ r \notin blurred'
               PROVE  S!Cardinality({stats[<<d, m>>] : m \in S!Metrics}) = 1
    BY DEF S!RecordsOfOneRun
  <2>1. {stats[<<d, m>>] : m \in S!Metrics} \ {None} \subseteq Runs
    <3>1. \A m \in S!Metrics : <<d, m>> \in Dates \X S!Metrics
      OBVIOUS
    <3>2. \A m \in S!Metrics : stats[<<d, m>>] \in Runs \cup {None}
      BY <3>1 DEF S!TypeOK
    <3> QED
      BY <3>2
  <2>2. \A r \in {stats[<<d, m>>] : m \in S!Metrics} \ {None} :
          pc[r] = "succeeded" /\ r \notin blurred
    BY <2>1
  <2> QED
    BY <2>2 DEF S!RecordsOfOneRun
<1>2. ASSUME NEW r \in Runs \ blurred', pc'[r] = "write", NEW m \in 1..3, m < write'[r].next
      PROVE  stats'[<<write'[r].date, m>>] = r
  <2>1. write'[r].next # 1
    BY <1>2
  <2>2. pc[r] = "write" /\ write'[r] = write[r]
    BY <1>2, <2>1
  <2>3. r \in Runs \ blurred /\ m < write[r].next
    BY <1>2, <2>2
  <2>4. stats[<<write[r].date, m>>] = r
    BY <2>2, <2>3 DEF WritesOK
  <2> QED
    BY <2>2, <2>4
<1>3. ASSUME NEW r \in Runs, NEW x \in Dates \X (1..3), stats'[x] = r
      PROVE  /\ pc'[r] \in {"write", "succeeded", "failed"}
             /\ pc'[r] = "write" => write'[r].next > 1 /\ x[1] = write'[r].date
  <2>1. /\ pc[r] \in {"write", "succeeded", "failed"}
        /\ pc[r] = "write" => write[r].next > 1 /\ x[1] = write[r].date
    BY <1>3 DEF WritesOK
  <2> QED
    BY <1>3, <2>1
<1> QED
  BY <1>1, <1>2, <1>3 DEF WritesOK
(* Who the records of a date are from. *)
Writers(st, d) == {st[<<d, m>>] : m \in 1..3}

LEMMA WritersAreRuns ==
  ASSUME NEW st \in [Dates \X (1..3) -> Runs \cup {None}], NEW d \in Dates
  PROVE  /\ Writers(st, d) \ {None} \subseteq Runs
         /\ \A m \in 1..3 : st[<<d, m>>] \in Writers(st, d)
<1>1. \A m \in 1..3 : <<d, m>> \in Dates \X (1..3)
  OBVIOUS
<1>2. \A m \in 1..3 : st[<<d, m>>] \in Runs \cup {None}
  BY <1>1
<1> QED
  BY <1>2 DEF Writers

OneWriter(st, phase, bl) ==
  \A d \in Dates :
    (\A r \in Writers(st, d) \ {None} : phase[r] = "succeeded" /\ r \notin bl)
      => Cardinality(Writers(st, d)) = 1

LEMMA RecordsByWriters ==
  /\ S!RecordsOfOneRun <=> OneWriter(stats, pc, blurred)
  /\ S!RecordsOfOneRun' <=> OneWriter(stats', pc', blurred')
BY CardinalityIsOne DEF S!RecordsOfOneRun, Writers, OneWriter, S!Metrics

(* One record is written, or perhaps written. *)
LEMMA WrittenStep ==
  ASSUME S!TypeOK, WritesOK, S!RecordsOfOneRun, NEW r \in Runs, S!PutMetric(r) \/ S!PutFails(r)
  PROVE  WritesOK' /\ S!RecordsOfOneRun'
<1> DEFINE date == S!DateOf(r)
           next == write[r].next
<1>1. /\ pc[r] = "write" /\ pc \in [Runs -> S!Phase] /\ next \in 1..3 /\ date \in Dates
      /\ stats \in [Dates \X (1..3) -> Runs \cup {None}] /\ None \notin Runs /\ blurred \subseteq Runs
      /\ write \in [Runs -> [date : Dates, next : 1..3]]
  BY BatchAssumption DEF S!PutMetric, S!PutFails, S!TypeOK, S!DateOf, S!Metrics
<1>2. /\ stats' = stats \/ stats' = [stats EXCEPT ![<<date, next>>] = r]
      /\ blurred \subseteq blurred' /\ blurred' \subseteq blurred \cup {r}
  BY DEF S!PutMetric, S!PutFails
<1>3. <<date, next>> \in Dates \X (1..3)
  BY <1>1
<1>4. /\ stats' \in [Dates \X (1..3) -> Runs \cup {None}]
      /\ \A x \in Dates \X (1..3) : stats'[x] = stats[x] \/ (stats'[x] = r /\ x = <<date, next>>)
  BY <1>1, <1>2, <1>3
<1>5. \A q \in Runs \ {r} : pc'[q] = pc[q] /\ write'[q] = write[q]
  BY <1>1 DEF S!PutMetric, S!PutFails, S!Advance, S!Fail, S!End
<1>6. r \in S!Active /\ \A q \in S!Active \ blurred : q = r
  BY <1>1 DEF S!Active, WritesOK
<1>7. next > 1 => date = write[r].date
  BY <1>1 DEF S!DateOf
<1>8. \A x \in Dates \X (1..3) : stats'[x] = r => x[1] = date
  <2> SUFFICES ASSUME NEW x \in Dates \X (1..3), stats'[x] = r PROVE x[1] = date
    OBVIOUS
  <2>1. CASE x = <<date, next>>
    BY <2>1
  <2>2. CASE stats[x] = r
    BY <1>1, <1>7, <2>2 DEF WritesOK
  <2> QED
    BY <1>4, <2>1, <2>2
<1>9. \A q \in Runs \ {r}, x \in Dates \X (1..3) : stats'[x] = q =>
        /\ pc'[q] \in {"write", "succeeded", "failed"}
        /\ pc'[q] = "write" => write'[q].next > 1 /\ x[1] = write'[q].date
  BY <1>4, <1>5 DEF WritesOK
<1> HIDE DEF date, next
<1>10. ASSUME NEW d \in Dates,
              \A q \in Writers(stats', d) \ {None} : pc'[q] = "succeeded" /\ q \notin blurred',
              r \notin Writers(stats', d)
       PROVE  Cardinality(Writers(stats', d)) = 1
  <2>1. \A m \in 1..3 : stats'[<<d, m>>] = stats[<<d, m>>]
    <3> SUFFICES ASSUME NEW m \in 1..3 PROVE stats'[<<d, m>>] = stats[<<d, m>>]
      OBVIOUS
    <3>1. <<d, m>> \in Dates \X (1..3) /\ stats'[<<d, m>>] # r
      BY <1>4, <1>10, WritersAreRuns
    <3> QED
      BY <1>4, <3>1
  <2>2. Writers(stats', d) = Writers(stats, d)
    BY <2>1 DEF Writers
  <2>3. \A q \in Writers(stats, d) \ {None} : q \in Runs \ {r}
    BY <1>1, <1>10, <2>2, WritersAreRuns
  <2>4. \A q \in Writers(stats, d) \ {None} : pc[q] = "succeeded" /\ q \notin blurred
    BY <1>2, <1>5, <1>10, <2>2, <2>3
  <2> QED
    BY <2>2, <2>4, RecordsByWriters DEF OneWriter
<1>11. CASE S!Advance(r) /\ next # 3 /\ S!PutMetric(r)
  <2>1. /\ write' = [write EXCEPT ![r] = [date |-> date, next |-> next + 1]] /\ pc' = pc
        /\ blurred' = blurred /\ stats' = [stats EXCEPT ![<<date, next>>] = r]
    BY <1>1, <1>11 DEF S!Advance, S!PutMetric, date, next
  <2>2. write'[r].date = date /\ write'[r].next = next + 1
    BY <1>1, <2>1
  <2>3. S!Active' = S!Active
    BY <2>1 DEF S!Active
  <2>4. \A q \in Runs : pc'[q] # "write" => write'[q].next = 1
    BY <1>1, <1>5, <2>1 DEF WritesOK
  <2>5. ASSUME NEW q \in Runs \ blurred', pc'[q] = "write", NEW m \in 1..3, m < write'[q].next
        PROVE  stats'[<<write'[q].date, m>>] = q
    <3>1. q = r
      BY <1>6, <2>1, <2>5 DEF S!Active
    <3>2. m = next \/ m < next
      BY <1>1, <2>2, <2>5, <3>1
    <3>3. CASE m = next
      BY <1>1, <1>3, <2>1, <2>2, <3>1, <3>3
    <3>4. CASE m < next
      <4>1. date = write[r].date
        BY <1>1, <1>7, <3>4
      <4>2. stats[<<date, m>>] = r
        BY <1>1, <2>1, <2>5, <3>1, <3>4, <4>1 DEF WritesOK, next
      <4>3. <<date, m>> \in Dates \X (1..3)
        BY <1>1
      <4> QED
        BY <1>4, <2>2, <3>1, <4>2, <4>3
    <3> QED
      BY <3>2, <3>3, <3>4
  <2>6. ASSUME NEW q \in Runs, NEW x \in Dates \X (1..3), stats'[x] = q
        PROVE  /\ pc'[q] \in {"write", "succeeded", "failed"}
               /\ pc'[q] = "write" => write'[q].next > 1 /\ x[1] = write'[q].date
    BY <1>1, <1>8, <1>9, <2>1, <2>2, <2>6
  <2>7. WritesOK'
    BY <2>1, <2>3, <2>4, <2>5, <2>6 DEF WritesOK
  <2>8. S!RecordsOfOneRun'
    <3>1. \A d \in Dates : (\A q \in Writers(stats', d) \ {None} : pc'[q] = "succeeded")
            => r \notin Writers(stats', d)
      BY <1>1, <2>1
    <3> QED
      BY <1>10, <3>1, RecordsByWriters DEF OneWriter
  <2> QED
    BY <2>7, <2>8
<1>12. ASSUME S!End(r, "succeeded") \/ S!End(r, "failed"),
              pc'[r] = "failed" => r \in blurred'
       PROVE  WritesOK'
  <2>1. /\ pc'[r] \in {"succeeded", "failed"} /\ write'[r].next = 1
    BY <1>1, <1>12 DEF S!End
  <2>2. \A q \in S!Active' : q \in S!Active /\ q # r
    BY <1>5, <2>1 DEF S!Active
  <2>3. S!Active' \ blurred' = {}
    BY <1>2, <1>6, <2>2
  <2>4. \A q \in Runs : pc'[q] = "failed" => q \in blurred'
    BY <1>2, <1>5, <1>12 DEF WritesOK
  <2>5. \A q \in Runs : pc'[q] # "write" => write'[q].next = 1
    BY <1>5, <2>1 DEF WritesOK
  <2>6. \A q \in Runs : pc'[q] = "write" => q \in blurred'
    BY <2>3 DEF S!Active
  <2>7. \A q \in Runs, x \in Dates \X (1..3) : stats'[x] = q =>
          /\ pc'[q] \in {"write", "succeeded", "failed"}
          /\ pc'[q] = "write" => write'[q].next > 1 /\ x[1] = write'[q].date
    BY <1>9, <2>1
  <2> QED
    BY <2>3, <2>4, <2>5, <2>6, <2>7 DEF WritesOK
<1>13. CASE S!PutFails(r)
  <2>1. S!End(r, "failed") /\ r \in blurred'
    BY <1>13 DEF S!PutFails, S!Fail
  <2>2. S!RecordsOfOneRun'
    <3>1. \A d \in Dates : (\A q \in Writers(stats', d) \ {None} : q \notin blurred')
            => r \notin Writers(stats', d)
      BY <1>1, <2>1
    <3> QED
      BY <1>10, <3>1, RecordsByWriters DEF OneWriter
  <2> QED
    BY <1>12, <2>1, <2>2
<1>14. CASE S!PutMetric(r) /\ next = 3
  <2>1. /\ S!End(r, "succeeded") /\ pc'[r] = "succeeded" /\ blurred' = blurred
        /\ stats' = [stats EXCEPT ![<<date, next>>] = r]
    BY <1>1, <1>14 DEF S!PutMetric, S!Advance, S!End, date, next
  <2>2. date = write[r].date
    BY <1>7, <1>14
  <2>3. ASSUME NEW d \in Dates,
               \A q \in Writers(stats', d) \ {None} : pc'[q] = "succeeded" /\ q \notin blurred',
               r \in Writers(stats', d)
        PROVE  Cardinality(Writers(stats', d)) = 1
    <3>1. d = date /\ r \notin blurred
      <4>1. PICK m \in 1..3 : stats'[<<d, m>>] = r
        BY <2>3 DEF Writers
      <4>2. <<d, m>> \in Dates \X (1..3) /\ <<d, m>>[1] = d
        OBVIOUS
      <4> QED
        BY <1>1, <1>8, <2>1, <2>3, <4>1, <4>2
    <3>2. ASSUME NEW m \in 1..3 PROVE stats'[<<d, m>>] = r
      <4>1. m = next \/ m < next
        BY <1>14
      <4>2. m < next => stats[<<date, m>>] = r
        BY <1>1, <2>2, <3>1 DEF WritesOK, next
      <4>3. <<d, m>> \in Dates \X (1..3)
        OBVIOUS
      <4> QED
        BY <1>1, <1>4, <2>1, <3>1, <4>1, <4>2, <4>3
    <3>3. Writers(stats', d) = {r}
      BY <3>2 DEF Writers
    <3> QED
      BY <3>3, FS_Singleton
  <2>4. S!RecordsOfOneRun'
    BY <1>10, <2>3, RecordsByWriters DEF OneWriter
  <2> QED
    BY <1>12, <2>1, <2>4
<1> QED
  BY <1>1, <1>11, <1>13, <1>14 DEF S!PutMetric
-----------------------------------------------------------------------------

BatchInv == S!TypeOK /\ ScansOK /\ MetricsOK /\ WritesOK /\ S!RecordsOfOneRun

LEMMA BatchStep ==
  ASSUME BatchInv, [S!Next]_(S!vars)
  PROVE  BatchInv'
<1>1. S!TypeOK' /\ ScansOK' /\ MetricsOK'
  BY CountsStep DEF BatchInv
<1>2. /\ S!TypeOK /\ WritesOK /\ S!RecordsOfOneRun
      /\ pc \in [Runs -> S!Phase] /\ \A q \in Runs : pc[q] # "write" => write[q].next = 1
      /\ \A q \in Runs : pc[q] = "failed" => q \in blurred
      /\ \A q \in S!Active \ blurred : S!Active = {q}
  BY DEF BatchInv, S!TypeOK, WritesOK
<1>3. ASSUME UNCHANGED <<stats, pc, write, blurred>>
      PROVE  WritesOK' /\ S!RecordsOfOneRun'
  <2>1. S!Active' = S!Active
    BY <1>3 DEF S!Active
  <2>2. WritesOK'
    BY <1>2, <1>3, <2>1 DEF WritesOK
  <2> QED
    BY <1>2, <1>3, <2>2, RecordsByWriters
<1>4. ASSUME NEW r \in Runs, NEW phase, pc' = [pc EXCEPT ![r] = phase], UNCHANGED stats,
             write' = write \/ (phase = "failed" /\ write' = [write EXCEPT ![r] = [date |-> 0, next |-> 1]]),
             blurred \subseteq blurred', phase = "failed" => r \in blurred',
             pc[r] \in {"scan", "aggregate"} /\ phase \in {"scan", "aggregate", "write", "failed"}
      PROVE  WritesOK' /\ S!RecordsOfOneRun'
  <2>1. \A q \in Runs : pc'[q] = IF q = r THEN phase ELSE pc[q]
    BY <1>2, <1>4
  <2>2. S!Active' = S!Active \/ S!Active' = S!Active \ {r}
    BY <1>4, <2>1 DEF S!Active
  <2>3. \A q \in S!Active' \ blurred' : S!Active' = {q}
    BY <1>2, <1>4, <2>2
  <2>4. \A q \in Runs : write'[q] = write[q] \/ (q = r /\ write'[q].next = 1)
    BY <1>2, <1>4 DEF S!TypeOK
  <2>5. \A q \in Runs :
           /\ pc'[q] = "succeeded" => pc[q] = "succeeded"
           /\ pc'[q] = "failed" => q \in blurred'
           /\ pc[q] \in {"succeeded", "failed"} => pc'[q] = pc[q]
           /\ pc[q] = "write" => pc'[q] \in {"write", "failed"}
           /\ IF pc'[q] = "write" /\ pc[q] = "write" THEN write'[q] = write[q]
                                                   ELSE write'[q].next = 1
    BY <1>2, <1>4, <2>1, <2>4
  <2> QED
    BY <1>2, <1>4, <2>3, <2>5, UnwrittenStep
<1>5. ASSUME UNCHANGED S!vars \/ S!Midnight \/ \E j \in Scanned : S!Create(j)
      PROVE  WritesOK' /\ S!RecordsOfOneRun'
  <2>1. UNCHANGED <<stats, pc, write, blurred>>
    BY <1>5 DEF S!vars, S!Midnight, S!Create
  <2> QED
    BY <1>3, <2>1
<1>6. ASSUME NEW r \in Runs, S!Start(r)
      PROVE  WritesOK' /\ S!RecordsOfOneRun'
  <2>1. /\ pc[r] = "idle" /\ pc' = [pc EXCEPT ![r] = "scan"]
        /\ blurred' = IF S!Active = {} THEN blurred ELSE blurred \cup S!Active \cup {r}
        /\ UNCHANGED <<stats, write>>
    BY <1>6 DEF S!Start
  <2>2. \A q \in Runs : pc'[q] = IF q = r THEN "scan" ELSE pc[q]
    BY <1>2, <2>1
  <2>3. S!Active' = S!Active \cup {r}
    BY <2>1, <2>2 DEF S!Active
  <2>4. \A q \in S!Active' \ blurred' : S!Active' = {q}
    BY <2>1, <2>3
  <2>5. \A q \in Runs :
           /\ pc'[q] = "succeeded" => pc[q] = "succeeded"
           /\ pc'[q] = "failed" => q \in blurred'
           /\ pc[q] \in {"succeeded", "failed"} => pc'[q] = pc[q]
           /\ pc[q] = "write" => pc'[q] \in {"write", "failed"}
           /\ IF pc'[q] = "write" /\ pc[q] = "write" THEN write'[q] = write[q]
                                                   ELSE write'[q].next = 1
    BY <1>2, <2>1, <2>2
  <2> QED
    BY <1>2, <2>1, <2>4, <2>5, UnwrittenStep
<1>7. ASSUME NEW r \in Runs, S!ScanPage(r)
      PROVE  WritesOK' /\ S!RecordsOfOneRun'
  <2>1. pc' = [pc EXCEPT ![r] = "aggregate"] \/ pc' = [pc EXCEPT ![r] = "scan"]
    BY <1>2, <1>7, OnePage
  <2>2. pc[r] = "scan" /\ UNCHANGED <<stats, write, blurred>>
    BY <1>7 DEF S!ScanPage
  <2> QED
    BY <1>4, <2>1, <2>2
<1>8. ASSUME NEW r \in Runs, S!ScanFails(r)
      PROVE  WritesOK' /\ S!RecordsOfOneRun'
  <2>1. /\ pc[r] = "scan" /\ pc' = [pc EXCEPT ![r] = "failed"] /\ UNCHANGED stats
        /\ blurred' = blurred \cup {r} /\ write' = [write EXCEPT ![r] = [date |-> 0, next |-> 1]]
    BY <1>8 DEF S!ScanFails, S!Fail, S!End
  <2> QED
    BY <1>4, <2>1
<1>9. ASSUME NEW r \in Runs, S!Aggregate(r)
      PROVE  WritesOK' /\ S!RecordsOfOneRun'
  <2>1. pc[r] = "aggregate" /\ pc' = [pc EXCEPT ![r] = "write"] /\ UNCHANGED <<stats, write, blurred>>
    BY <1>9 DEF S!Aggregate
  <2> QED
    BY <1>4, <2>1
<1>10. ASSUME NEW r \in Runs, S!PutMetric(r) \/ S!PutFails(r)
       PROVE  WritesOK' /\ S!RecordsOfOneRun'
  BY <1>2, <1>10, WrittenStep
<1>11. WritesOK' /\ S!RecordsOfOneRun'
  BY <1>5, <1>6, <1>7, <1>8, <1>9, <1>10 DEF S!Next
<1> QED
  BY <1>1, <1>11 DEF BatchInv

LEMMA BatchInit == S!Init => BatchInv
<1> SUFFICES ASSUME S!Init PROVE BatchInv
  OBVIOUS
<1>1. S!NoScan \in S!Scan /\ \A t : ScanOK(S!NoScan, "idle", t)
  BY NoScanOK
<1>2. [date |-> 0, next |-> 1] \in [date : Dates, next : S!Metrics]
  BY BatchAssumption DEF S!Metrics
<1>3. S!TypeOK /\ ScansOK /\ MetricsOK
  BY <1>1, <1>2, BatchAssumption DEF S!Init, S!TypeOK, ScansOK, MetricsOK, S!Phase
<1>4. WritesOK
  BY BatchAssumption DEF S!Init, WritesOK, S!Active, S!Metrics
<1>5. OneWriter(stats, pc, blurred)
  <2> SUFFICES ASSUME NEW d \in Dates PROVE Cardinality(Writers(stats, d)) = 1
    BY DEF OneWriter
  <2>1. \A m \in 1..3 : <<d, m>> \in Dates \X (1..3)
    OBVIOUS
  <2>2. \A m \in 1..3 : stats[<<d, m>>] = None
    BY <2>1 DEF S!Init, S!Metrics
  <2>3. Writers(stats, d) = {None}
    BY <2>2 DEF Writers
  <2> QED
    BY <2>3, FS_Singleton
<1> QED
  BY <1>3, <1>4, <1>5, RecordsByWriters DEF BatchInv

(* A behaviour of the readers is one of the list and one of the batch. *)
LEMMA ReadersIsBoth == ReadersSpec => Spec /\ S!Spec
<1>1. ReadersInit => Init /\ S!Init
  BY DEF ReadersInit
<1>2. [ReadersNext]_allVars => [Next]_vars /\ [S!Next]_(S!vars)
  BY DEF ReadersNext, ListNext, StatisticsNext, allVars, batch, S!vars
<1> QED
  BY <1>1, <1>2, PTL DEF ReadersSpec, Spec, S!Spec

LEMMA BatchInvariance == ReadersSpec => []BatchInv
BY BatchInit, BatchStep, ReadersIsBoth, PTL DEF S!Spec

(* Every variable of the batch keeps its type. *)
THEOREM BatchTypeCorrect == ReadersSpec => []S!TypeOK
<1>1. BatchInv => S!TypeOK
  BY DEF BatchInv
<1> QED
  BY <1>1, BatchInvariance, PTL

(* Every job that had settled when the scan began is counted exactly once  *)
(* and any other at most once, and the trends are the most frequent        *)
(* prompts of those counted: for any table, any pages, any replicas that   *)
(* answer them and any number of executions.                               *)
THEOREM StatisticsAreExact == ReadersSpec => []StatisticsAreRight
<1>1. ASSUME BatchInv, NEW r \in Runs
      PROVE  S!CountedOnce(r) /\ S!TrendsAreTop(r)
  <2>1. ScanOK(scan[r], pc[r], job)
    BY <1>1 DEF BatchInv, ScansOK
  <2>2. S!CountedOnce(r)
    BY <2>1 DEF ScanOK, S!CountedOnce, S!Other
  <2>3. ASSUME metrics[r] # None
        PROVE  S!TrendsAreTop(r)
    <3> DEFINE m == metrics[r]
               f == [t \in m.trends |-> t.count]
    <3>1. TrendsFit(scan[r].count, m, job)
      BY <1>1, <2>3 DEF BatchInv, MetricsOK
    <3>2. S!SumFunction(f) = SumFunctionOnSet(f, m.trends)
      BY SumIsOne DEF S!SumFunction
    <3>3. \A p : S!Cardinality({j \in S!Existing : scan[r].count[j] = 1 /\ job[j] = p})
                  = Cardinality(Counted(scan[r].count, p, job))
      BY CardinalityIsOne DEF S!Existing, Counted
    <3> HIDE DEF m
    <3>4. /\ S!SumFunction(f) <= m.total
          /\ \A t \in m.trends : t.count = Cardinality(Counted(scan[r].count, t.prompt, job)) /\ t.count > 0
          /\ \A p \in Prompts \ {t.prompt : t \in m.trends} :
               Cardinality(Counted(scan[r].count, p, job)) > 0 =>
                 /\ S!Cardinality({t.prompt : t \in m.trends}) = PromptTrendLimit
                 /\ \A q \in {t.prompt : t \in m.trends} :
                      Cardinality(Counted(scan[r].count, q, job)) >= Cardinality(Counted(scan[r].count, p, job))
      BY <3>1, <3>2, CardinalityIsOne DEF TrendsFit
    <3> QED
      BY <3>3, <3>4 DEF S!TrendsAreTop, m
  <2>4. S!TrendsAreTop(r)
    BY <2>3 DEF S!TrendsAreTop
  <2> QED
    BY <2>2, <2>4
<1>2. BatchInv => StatisticsAreRight
  BY <1>1 DEF StatisticsAreRight, S!StatisticsAreRight
<1> QED
  BY <1>2, BatchInvariance, PTL

(* The three records of a date are of one execution, unless a writer of    *)
(* them failed, overlapped another execution or is still writing.          *)
THEOREM RecordsAgree == ReadersSpec => []RecordsOfOneRun
<1>1. BatchInv => RecordsOfOneRun
  BY DEF BatchInv, RecordsOfOneRun
<1> QED
  BY <1>1, BatchInvariance, PTL

(* Beside the statistics, the list keeps what NarrativeListing promises. *)
THEOREM ReadersKeepPromises == ReadersSpec => [](WalkIsComplete /\ OnlyOwnJobsShown /\ NewestFirst)
BY ReadersIsBoth, WalksAreComplete, ListsArePrivate, ListIsNewestFirst, PTL
=============================================================================
